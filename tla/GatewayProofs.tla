--------------------------- MODULE GatewayProofs ---------------------------
(***************************************************************************)
(* Gateway holds its invariants and refines SessionLink, for any number of *)
(* websockets and application goroutines and any set of messages.          *)
(***************************************************************************)
EXTENDS Gateway, TLAPS

\* The goroutines of a websocket are different from each other, from those of
\* another websocket and from the application's.
LEMMA Goroutines ==
    /\ \A c \in Conn : listen(c) \in Loop /\ heartbeat(c) \in Loop
    /\ \A c \in Conn : listen(c) \in Proc /\ heartbeat(c) \in Proc
    /\ \A c, d \in Conn : listen(c) # heartbeat(d)
    /\ \A c, d \in Conn : listen(c) = listen(d) => c = d
    /\ \A c, d \in Conn : heartbeat(c) = heartbeat(d) => c = d
    /\ \A p \in App : p \in Proc /\ p \notin Loop
    /\ \A p \in Proc : p \in Loop \/ p \in App
BY DEF Listener, Heartbeat, App, Loop, Proc, listen, heartbeat

\* Where a goroutine goes next is a label.
LEMMA Destinations ==
    ASSUME NEW p \in Proc
    PROVE  /\ Done(p) \in {"idle", "off", "read"}
           /\ reconnect(p) \in {"open", "idle", "off", "read"}
           /\ AfterClose(p) \in {"open", "idle", "off", "read", "forgetID"}
           /\ AfterFailure(p) \in {"idle", "backoff"}
<1>1. Done(p) \in {"idle", "off", "read"}
  BY DEF Done
<1>2. reconnect(p) \in {"open", "idle", "off", "read"}
  BY <1>1 DEF reconnect
<1>3. AfterClose(p) \in {"open", "idle", "off", "read", "forgetID"}
  BY <1>2 DEF AfterClose
<1>4. AfterFailure(p) \in {"idle", "backoff"}
  BY DEF AfterFailure
<1> QED
  BY <1>1, <1>2, <1>3, <1>4

----------------------------------------------------------------------------
(* Type correctness *)

LEMMA TypeInit == Init => TypeOK
<1> SUFFICES ASSUME Init PROVE TypeOK
  OBVIOUS
<1> USE DEF Init
<1>1. pc \in [Proc -> Labels]
  BY DEF Labels
<1>2. ws \in [Conn -> {"open", "broken", "closed"}]
  OBVIOUS
<1>3. stop \in [Conn -> {"open", "closed"}]
  OBVIOUS
<1>4. doing \in [Proc -> {"error", "reconnect", "invalid", "garbled", "ack"}]
  OBVIOUS
<1> QED
  BY <1>1, <1>2, <1>3, <1>4 DEF TypeOK

LEMMA TypeNext ==
    ASSUME TypeOK, [Next]_vars
    PROVE  TypeOK'
<1> USE DEF TypeOK, session, sockets, resume
<1> USE ConstantsAssumption
<1>l. Labels = {"idle", "off", "open", "backoff", "close", "forgetID",
        "forgetSeq", "read", "select", "check", "handle", "beat", "mark",
        "wait", "dial", "relock", "hello", "identify", "identified", "resumed"}
  BY DEF Labels, Opening, Handshake
<1>1. ASSUME NEW p \in Proc, Session(p)
      PROVE  TypeOK'
  <2> USE <1>l, Destinations DEF Goto
  <2>1. CASE OpenAlreadyOpen(p)
    BY <2>1 DEF OpenAlreadyOpen
  <2>2. CASE OpenBegin(p)
    BY <2>2 DEF OpenBegin
  <2>3. CASE Dial(p)
    BY <2>3 DEF Dial
  <2>4. CASE DialError(p)
    BY <2>4 DEF DialError
  <2>5. CASE Hello(p)
    BY <2>5 DEF Hello
  <2>6. CASE Identify(p)
    BY <2>6 DEF Identify
  <2>7. CASE Connected(p)
    BY <2>7 DEF Connected
  <2>8. CASE HandshakeError(p)
    BY <2>8 DEF HandshakeError
  <2>9. CASE HandshakeRelock(p)
    BY <2>9 DEF HandshakeRelock
  <2>10. CASE CloseWithCode(p)
    BY <2>10 DEF CloseWithCode
  <2>11. CASE ForgetSession(p)
    BY <2>11 DEF ForgetSession
  <2>12. CASE ForgetSequence(p)
    BY <2>12 DEF ForgetSequence
  <2>13. CASE BackOff(p)
    BY <2>13 DEF BackOff
  <2> QED
    BY <1>1, <2>1, <2>2, <2>3, <2>4, <2>5, <2>6, <2>7, <2>8, <2>9, <2>10,
       <2>11, <2>12, <2>13 DEF Session
<1>2. ASSUME NEW c \in Conn, Listen(c)
      PROVE  TypeOK'
  <2>0. listen(c) \in Proc
    BY Goroutines
  <2> USE <1>l, <2>0 DEF Goto
  <2>1. CASE Read(c) \/ ReadError(c) \/ SameConnection(c) \/ Select(c)
    BY <2>1 DEF Read, ReadError, SameConnection, Select
  <2>2. CASE OnDispatch(c) \/ OnPing(c) \/ OnAck(c) \/ OnOther(c)
    BY <2>2 DEF OnDispatch, OnPing, OnAck, OnOther
  <2>3. CASE OnReconnect(c)
    BY <2>3 DEF OnReconnect
  <2> QED
    BY <1>2, <2>1, <2>2, <2>3 DEF Listen
<1>3. ASSUME NEW c \in Conn, HeartbeatLoop(c)
      PROVE  TypeOK'
  <2>0. heartbeat(c) \in Proc
    BY Goroutines
  <2> USE <1>l, <2>0 DEF Goto
  <2>1. CASE Beat(c) \/ BeatError(c)
    BY <2>1 DEF Beat, BeatError
  <2>2. CASE MarkReady(c)
    BY <2>2 DEF MarkReady
  <2>3. CASE Tick(c) \/ Stopped(c)
    BY <2>3 DEF Tick, Stopped
  <2> QED
    BY <1>3, <2>1, <2>2, <2>3 DEF HeartbeatLoop
<1>4. ASSUME NEW p \in App, Application(p)
      PROVE  TypeOK'
  <2>1. p \in Proc
    BY Goroutines
  <2> QED
    BY <1>4, <1>l, <2>1
       DEF Goto, Application, CallOpen, CallClose, ChannelVoiceJoinManual
<1>5. CASE Network
  BY <1>5 DEF Network, AckAges, Break
<1>6. CASE UNCHANGED vars
  BY <1>6 DEF vars
<1> QED
  BY <1>1, <1>2, <1>3, <1>4, <1>5, <1>6 DEF Next

\* Every variable keeps its type (the fields of Session that wsapi.go uses).
THEOREM TypeCorrect == Spec => []TypeOK
<1>1. Init => TypeOK
  BY TypeInit
<1>2. TypeOK /\ [Next]_vars => TypeOK'
  BY TypeNext
<1> QED
  BY <1>1, <1>2, PTL DEF Spec

----------------------------------------------------------------------------
(* The inductive invariant *)

\* A step of a loop that leaves the lock, the websockets and the channels
\* alone, and does not enter or leave Open or reconnect.
LEMMA LoopStep ==
    ASSUME TypeOK, Consistent, NEW p \in Loop, NEW l \in Labels \ Opening,
           pc[p] \notin Opening, ~Pending(p), pc[p] # "off",
           pc' = [pc EXCEPT ![p] = l],
           UNCHANGED <<lock, session, sockets, wanted>>,
           GarbledInv',
           Established /\ p = listen(wsConn) =>
               l \in {"read", "select", "check", "handle", "close"},
           Established /\ p = heartbeat(wsConn) =>
               l \in {"beat", "mark", "wait", "close"}
    PROVE  Consistent'
<1> USE DEF Consistent, session, sockets
<1>0. p \in Proc
  BY DEF Proc
<1>1. LockInv'
  BY <1>0, NoProcAssumption DEF TypeOK, LockInv
<1>2. ConnInv'
  <2>1. lock # NoProc => pc'[lock] = pc[lock]
    BY <1>0, NoProcAssumption DEF TypeOK, LockInv
  <2>2. lock # NoProc /\ wsConn # NoConn =>
            pc'[listen(wsConn)] = "off" /\ pc'[heartbeat(wsConn)] = "off"
    BY <1>0, Goroutines DEF TypeOK, ConnInv
  <2> QED
    BY <2>1, <2>2 DEF ConnInv
<1>3. Attended'
  BY <1>0, Goroutines DEF TypeOK, Attended, Established
<1>4. Recovering'
  <2>1. \A q \in Loop : Pending(q) => pc'[q] = pc[q]
    BY <1>0 DEF TypeOK, Proc
  <2>2. \A q \in Loop : Pending(q) => Pending(q)'
    BY <2>1 DEF Pending
  <2> QED
    BY <2>2 DEF Recovering, Established
<1> QED
  BY <1>1, <1>2, <1>3, <1>4

LEMMA ConsistentInit == Init => Consistent
<1> SUFFICES ASSUME Init PROVE Consistent
  OBVIOUS
<1> USE DEF Init
<1>1. LockInv
  BY DEF LockInv, Opening, Handshake
<1>2. ConnInv
  BY ConstantsAssumption DEF ConnInv
<1>3. GarbledInv /\ Attended /\ Recovering
  BY DEF GarbledInv, Attended, Recovering, Established
<1> QED
  BY <1>1, <1>2, <1>3 DEF Consistent

LEMMA ListenConsistent ==
    ASSUME TypeOK, Consistent, NEW c \in Conn, Listen(c)
    PROVE  Consistent'
<1> DEFINE p == listen(c)
<1>0. p \in Loop /\ p \in Proc
  BY Goroutines
<1>1. /\ {"read", "select", "check", "handle", "close", "off"}
            \subseteq Labels \ Opening
      /\ pc[p] \in {"read", "select", "check", "handle"}
            => pc[p] \notin Opening /\ ~Pending(p) /\ pc[p] # "off"
  BY DEF Labels, Opening, Handshake, Pending
<1>2. Established => listening = wsConn
  BY DEF Consistent, ConnInv, Established
<1>3. p = listen(wsConn) /\ Established => wsConn = c
  BY Goroutines DEF TypeOK, Established
<1>4. ~(p = heartbeat(wsConn) /\ Established)
  BY Goroutines DEF TypeOK, Established
<1>5. doing' = doing => GarbledInv'
  BY DEF Consistent, GarbledInv
<1> HIDE DEF p
<1>6. CASE Read(c)
  BY <1>0, <1>1, <1>4, <1>5, <1>6, LoopStep DEF Read, Goto, p
<1>7. CASE ReadError(c)
  <2>1. GarbledInv'
    BY <1>0, <1>7 DEF ReadError, p, TypeOK, Consistent, GarbledInv
  <2> QED
    BY <1>0, <1>1, <1>4, <1>7, <2>1, LoopStep DEF ReadError, Goto, p
<1>8. CASE SameConnection(c)
  <2> DEFINE l == IF wsConn = c THEN "close" ELSE "off"
  <2>1. l \in Labels \ Opening
    BY <1>1
  <2> QED
    BY <1>0, <1>1, <1>3, <1>4, <1>5, <1>8, <2>1, LoopStep
       DEF SameConnection, Goto, p
<1>9. CASE Select(c)
  <2> DEFINE l == IF stop[c] = "closed" THEN "off" ELSE "handle"
  <2>1. l \in Labels \ Opening
    BY <1>1
  <2>2. Established /\ wsConn = c => l = "handle"
    BY <1>2 DEF TypeOK, Consistent, ConnInv
  <2> QED
    BY <1>0, <1>1, <1>3, <1>4, <1>5, <1>9, <2>1, <2>2, LoopStep
       DEF Select, Goto, p
<1>10. CASE OnReconnect(c)
  <2>1. GarbledInv'
    BY <1>0, <1>10 DEF OnReconnect, p, TypeOK, Consistent, GarbledInv
  <2> QED
    BY <1>0, <1>1, <1>4, <1>10, <2>1, LoopStep DEF OnReconnect, Goto, p
<1>11. CASE OnDispatch(c) \/ OnPing(c) \/ OnAck(c) \/ OnOther(c)
  <2>1. /\ pc[p] = "handle"
        /\ pc' = [pc EXCEPT ![p] = "read"]
        /\ UNCHANGED <<lock, session, sockets, doing, wanted>>
    BY <1>11 DEF OnDispatch, OnPing, OnAck, OnOther, Goto, p
  <2> QED
    BY <1>0, <1>1, <1>4, <1>5, <2>1, LoopStep
<1> QED
  BY <1>6, <1>7, <1>8, <1>9, <1>10, <1>11 DEF Listen

LEMMA HeartbeatConsistent ==
    ASSUME TypeOK, Consistent, NEW c \in Conn, HeartbeatLoop(c)
    PROVE  Consistent'
<1> DEFINE p == heartbeat(c)
<1>0. p \in Loop /\ p \in Proc
  BY Goroutines
<1>1. /\ {"beat", "mark", "wait", "close", "off"} \subseteq Labels \ Opening
      /\ pc[p] \in {"beat", "mark", "wait"}
            => pc[p] \notin Opening /\ ~Pending(p) /\ pc[p] # "off"
  BY DEF Labels, Opening, Handshake, Pending
<1>2. p = heartbeat(wsConn) /\ Established => stop[c] = "open"
  BY Goroutines DEF TypeOK, Established, Consistent, ConnInv
<1>3. ~(p = listen(wsConn) /\ Established)
  BY Goroutines DEF TypeOK, Established
<1>4. \E l \in {"beat", "mark", "wait", "close", "off"} :
        /\ pc[p] \in {"beat", "mark", "wait"}
        /\ pc' = [pc EXCEPT ![p] = l]
        /\ l = "off" => stop[c] = "closed"
  BY DEF HeartbeatLoop, Beat, BeatError, MarkReady, Tick, Stopped, Goto
<1>5. UNCHANGED <<lock, session, sockets, doing, wanted>>
  BY DEF HeartbeatLoop, Beat, BeatError, MarkReady, Tick, Stopped
<1>6. GarbledInv'
  BY <1>5 DEF Consistent, GarbledInv
<1> HIDE DEF p
<1> QED
  BY <1>0, <1>1, <1>2, <1>3, <1>4, <1>5, <1>6, LoopStep

\* The steps inside Open that keep the lock.
LEMMA HandshakeConsistent ==
    ASSUME TypeOK, Consistent, NEW p \in Proc,
           Hello(p) \/ Identify(p) \/ HandshakeRelock(p)
    PROVE  Consistent'
<1> USE DEF Consistent
<1>1. /\ pc[p] \in Handshake
      /\ UNCHANGED <<lock, session, sockets, wanted>>
  BY DEF Hello, Identify, HandshakeRelock, Handshake
<1>2. PICK l \in Opening \ {"dial"} : pc' = [pc EXCEPT ![p] = l]
  BY DEF Hello, Identify, HandshakeRelock, Goto, Opening, Handshake
<1>3. lock = p /\ lock # NoProc /\ pc[p] \in Opening \ {"dial", "off"}
  BY <1>1, NoProcAssumption DEF LockInv, Opening, Handshake
<1>4. LockInv'
  BY <1>1, <1>2, <1>3 DEF TypeOK, LockInv
<1>5. ConnInv'
  <2>1. pc'[lock] # "dial"
    BY <1>2, <1>3 DEF TypeOK
  <2>2. wsConn # NoConn =>
            pc'[listen(wsConn)] = "off" /\ pc'[heartbeat(wsConn)] = "off"
    BY <1>2, <1>3, Goroutines DEF TypeOK, ConnInv
  <2> QED
    BY <1>1, <1>3, <2>1, <2>2 DEF ConnInv, session, sockets
<1>6. GarbledInv'
  <2>1. CASE Hello(p) \/ Identify(p)
    BY <2>1 DEF Hello, Identify, GarbledInv
  <2>2. CASE HandshakeRelock(p)
    BY <2>2, ConstantsAssumption DEF HandshakeRelock, GarbledInv, TypeOK
  <2> QED
    BY <2>1, <2>2
<1>7. Attended'
  BY <1>1, <1>3 DEF Attended, Established, session
<1>8. Recovering'
  <2>1. ASSUME NEW q \in Loop, Pending(q)
        PROVE  Pending(q)'
    BY <1>2, <2>1 DEF TypeOK, Pending, Proc
  <2>2. Established' = Established
    BY <1>1 DEF Established, session
  <2> QED
    BY <1>1, <2>1, <2>2 DEF Recovering
<1> QED
  BY <1>4, <1>5, <1>6, <1>7, <1>8

\* The steps that take or release the lock of Open, but for Connected.
LEMMA OpenConsistent ==
    ASSUME TypeOK, Consistent, NEW p \in Proc,
           OpenBegin(p) \/ Dial(p) \/ DialError(p) \/ HandshakeError(p)
    PROVE  Consistent'
<1> USE NoProcAssumption, ConstantsAssumption
    DEF Consistent, session, sockets, Goto
<1>0. /\ "dial" \in Opening /\ Handshake \subseteq Opening
      /\ "open" \notin Opening /\ "off" \notin Opening
      /\ "idle" \notin Opening /\ "backoff" \notin Opening
      /\ "dial" \notin Handshake /\ "hello" \in Handshake
  BY DEF Opening, Handshake
<1>1. CASE OpenBegin(p)
  <2> USE <1>1 DEF OpenBegin
  <2>1. LockInv'
    BY <1>0 DEF TypeOK, LockInv
  <2>2. ConnInv'
    BY DEF TypeOK, ConnInv
  <2>3. GarbledInv' /\ Attended'
    BY DEF GarbledInv, Attended, Established
  <2>4. Recovering'
    <3>1. ASSUME NEW q \in Loop, Pending(q)
          PROVE  Pending(q)'
      BY <1>0, <3>1 DEF TypeOK, Pending, Proc
    <3> QED
      BY <3>1 DEF Recovering, Established
  <2> QED
    BY <2>1, <2>2, <2>3, <2>4
<1>2. CASE Dial(p)
  <2> USE <1>2 DEF Dial
  <2>0. lock = p /\ lock # NoProc /\ wsConn = NoConn
    BY <1>0 DEF LockInv, ConnInv
  <2>1. LockInv'
    BY <1>0, <2>0 DEF TypeOK, LockInv
  <2>2. ConnInv'
    <3>1. PICK c \in Conn : Free(c) /\ wsConn' = c
                              /\ ws' = [ws EXCEPT ![c] = "open"]
      OBVIOUS
    <3>2. \A d \in Conn : ws'[d] # "closed" <=> d = wsConn'
      BY <2>0, <3>1 DEF TypeOK, ConnInv
    <3>3. pc'[listen(c)] = "off" /\ pc'[heartbeat(c)] = "off"
      BY <3>1, Goroutines DEF Free, TypeOK
    <3> QED
      BY <2>0, <3>1, <3>2, <3>3 DEF TypeOK, ConnInv
  <2>3. GarbledInv' /\ Attended'
    BY <2>0 DEF GarbledInv, Attended, Established
  <2>4. Recovering'
    <3>1. ASSUME NEW q \in Loop, Pending(q)
          PROVE  Pending(q)'
      BY <1>0, <3>1 DEF TypeOK, Pending, Proc
    <3> QED
      BY <2>0, <3>1 DEF Recovering, Established
  <2> QED
    BY <2>1, <2>2, <2>3, <2>4
<1>3. CASE DialError(p) \/ HandshakeError(p)
  <2>0. /\ pc[p] \in Opening /\ lock = p /\ lock # NoProc
        /\ pc' = [pc EXCEPT ![p] = AfterFailure(p)]
        /\ lock' = NoProc /\ wsConn' = NoConn
        /\ UNCHANGED <<listening, stop, doing, wanted>>
    BY <1>0, <1>3 DEF DialError, HandshakeError, LockInv, ConnInv
  <2>c. \A c \in Conn : ws'[c] = "closed"
    BY <1>0, <1>3, <2>0 DEF DialError, HandshakeError, ConnInv, TypeOK
  <2>1. LockInv'
    BY <1>0, <2>0 DEF TypeOK, LockInv, AfterFailure
  <2>2. ConnInv'
    BY <2>0, <2>c DEF TypeOK, ConnInv
  <2>3. GarbledInv' /\ Attended'
    BY <2>0 DEF GarbledInv, Attended, Established
  <2>4. Recovering'
    <3>1. ASSUME NEW q \in Loop, Pending(q)
          PROVE  Pending(q)'
      BY <1>0, <2>0, <3>1, Goroutines
         DEF TypeOK, Pending, Proc, AfterFailure
    <3> QED
      BY <2>0, <3>1 DEF Recovering, Established
  <2> QED
    BY <2>1, <2>2, <2>3, <2>4
<1> QED
  BY <1>1, <1>2, <1>3

\* The end of Open: the goroutines start and the lock is released.
LEMMA ConnectedConsistent ==
    ASSUME TypeOK, Consistent, NEW p \in Proc, Connected(p)
    PROVE  Consistent'
<1> USE NoProcAssumption, ConstantsAssumption DEF Consistent, Connected
<1>0. /\ {"identified", "resumed"} \subseteq Opening
      /\ Opening \cap {"beat", "read", "idle", "off", "dial"} = {"dial"}
  BY DEF Opening, Handshake
<1>1. lock = p /\ lock # NoProc
  BY <1>0 DEF LockInv
<1>2. wsConn \in Conn
  BY <1>1 DEF TypeOK, ConnInv
<1>3. /\ listen(wsConn) # p /\ heartbeat(wsConn) # p
      /\ listen(wsConn) # heartbeat(wsConn)
      /\ listen(wsConn) \in Proc /\ heartbeat(wsConn) \in Proc
  BY <1>0, <1>1, <1>2, Goroutines DEF ConnInv
<1>4. /\ pc'[listen(wsConn)] = "read" /\ pc'[heartbeat(wsConn)] = "beat"
      /\ pc'[p] = Done(p)
      /\ \A q \in Proc \ {p, listen(wsConn), heartbeat(wsConn)} :
            pc'[q] = pc[q]
  BY <1>3 DEF TypeOK
<1>5. LockInv'
  BY <1>0, <1>1, <1>4, Destinations DEF LockInv
<1>6. ConnInv'
  BY <1>1, <1>2 DEF TypeOK, ConnInv
<1>7. Attended'
  BY <1>4 DEF Attended
<1>8. GarbledInv' /\ Recovering'
  BY <1>2 DEF GarbledInv, Recovering, Established
<1> QED
  BY <1>5, <1>6, <1>7, <1>8

\* The steps of Close and reconnect, taken without the lock or with a lock
\* that is free at the end of the step.
LEMMA CloseConsistent ==
    ASSUME TypeOK, Consistent, NEW p \in Proc, CloseWithCode(p)
    PROVE  Consistent'
<1> USE NoProcAssumption, ConstantsAssumption DEF Consistent, CloseWithCode
<1>1. /\ pc' = [pc EXCEPT ![p] = AfterClose(p)]
      /\ AfterClose(p) \notin Opening
  BY Destinations DEF Goto, Opening, Handshake
<1>2. LockInv'
  BY <1>1 DEF TypeOK, LockInv
<1>3. ConnInv'
  BY DEF TypeOK, ConnInv
<1>4. GarbledInv' /\ Attended'
  BY DEF GarbledInv, Attended, Established
<1>5. Recovering'
  <2> SUFFICES ASSUME ShouldReconnectOnError, "garbled" \notin Messages,
                      wanted'
               PROVE  \E q \in Loop : Pending(q)'
    BY DEF Recovering
  <2>1. p \in Loop /\ p \notin App
    BY Goroutines
  <2>2. AfterClose(p) \in {"forgetID", "open"}
    BY <2>1 DEF GarbledInv, AfterClose, reconnect
  <2> QED
    BY <1>1, <2>1, <2>2 DEF TypeOK, Pending
<1> QED
  BY <1>2, <1>3, <1>4, <1>5

LEMMA ReconnectConsistent ==
    ASSUME TypeOK, Consistent, NEW p \in Proc,
           OpenAlreadyOpen(p) \/ ForgetSession(p) \/ ForgetSequence(p)
              \/ BackOff(p)
    PROVE  Consistent'
<1> USE NoProcAssumption, ConstantsAssumption
    DEF Consistent, session, sockets, Goto
<1>1. PICK l \in {"open", "idle", "off", "read", "forgetSeq"} :
        pc' = [pc EXCEPT ![p] = l]
  BY Destinations DEF OpenAlreadyOpen, ForgetSession, ForgetSequence, BackOff
<1>2. /\ pc[p] \in {"open", "forgetID", "forgetSeq", "backoff"}
      /\ UNCHANGED <<lock, session, sockets, doing>>
  BY DEF OpenAlreadyOpen, ForgetSession, ForgetSequence, BackOff
<1>3. /\ l \notin Opening /\ pc[p] \notin Opening /\ "off" \notin Opening
  BY <1>2 DEF Opening, Handshake
<1>4. LockInv'
  BY <1>1, <1>2, <1>3 DEF TypeOK, LockInv
<1>5. ConnInv'
  <2>1. lock # NoProc => pc'[lock] = pc[lock]
    BY <1>1, <1>3 DEF TypeOK, LockInv
  <2>2. lock # NoProc /\ wsConn # NoConn =>
            pc'[listen(wsConn)] = "off" /\ pc'[heartbeat(wsConn)] = "off"
    BY <1>1, <1>2, Goroutines DEF TypeOK, ConnInv
  <2> QED
    BY <1>2, <2>1, <2>2 DEF ConnInv
<1>6. GarbledInv'
  BY <1>2 DEF GarbledInv
<1>7. Attended'
  BY <1>1, <1>2, Goroutines DEF TypeOK, Attended, Established
<1>8. Recovering'
  <2>1. CASE OpenAlreadyOpen(p)
    BY <2>1 DEF OpenAlreadyOpen, Recovering, Established
  <2>2. CASE ForgetSession(p) \/ ForgetSequence(p) \/ BackOff(p)
    <3>1. ASSUME ShouldReconnectOnError, NEW q \in Loop, Pending(q)
          PROVE  Pending(q)'
      BY <1>1, <2>2, <3>1
         DEF ForgetSession, ForgetSequence, BackOff, reconnect, TypeOK,
             Pending, Proc
    <3> QED
      BY <1>2, <2>2, <3>1
         DEF ForgetSession, ForgetSequence, BackOff, Recovering, Established
  <2> QED
    BY <2>1, <2>2
<1> QED
  BY <1>4, <1>5, <1>6, <1>7, <1>8

LEMMA ApplicationConsistent ==
    ASSUME TypeOK, Consistent, NEW p \in App, Application(p)
    PROVE  Consistent'
<1> USE DEF Consistent, session, sockets, Goto
<1>1. p \in Proc /\ p \notin Loop
  BY Goroutines
<1>2. UNCHANGED <<lock, session, sockets, doing, wanted>>
  BY DEF Application, CallOpen, CallClose, ChannelVoiceJoinManual
<1>3. PICK l \in {"idle", "open", "close"} :
        pc[p] = "idle" /\ pc' = [pc EXCEPT ![p] = l]
  <2>1. CASE CallOpen(p) \/ CallClose(p)
    BY <2>1 DEF CallOpen, CallClose
  <2>2. CASE ChannelVoiceJoinManual(p)
    BY <1>1, <2>2 DEF ChannelVoiceJoinManual, TypeOK
  <2> QED
    BY <2>1, <2>2 DEF Application
<1>4. \A q \in Loop : pc'[q] = pc[q]
  BY <1>1, <1>3 DEF TypeOK, Proc
<1>5. LockInv'
  BY <1>1, <1>2, <1>3, NoProcAssumption
     DEF TypeOK, LockInv, Opening, Handshake
<1>6. ConnInv'
  <2>1. lock # NoProc => pc'[lock] = pc[lock]
    BY <1>1, <1>3, NoProcAssumption
       DEF TypeOK, LockInv, Opening, Handshake
  <2> QED
    BY <1>2, <1>4, <2>1, Goroutines DEF TypeOK, ConnInv
<1>7. GarbledInv' /\ Attended'
  BY <1>2, <1>4, Goroutines DEF TypeOK, GarbledInv, Attended, Established
<1>8. Recovering'
  BY <1>2, <1>4 DEF Recovering, Established, Pending
<1> QED
  BY <1>5, <1>6, <1>7, <1>8

LEMMA ConsistentNext ==
    ASSUME TypeOK, Consistent, [Next]_vars
    PROVE  Consistent'
<1>1. ASSUME NEW p \in Proc, Session(p)
      PROVE  Consistent'
  BY <1>1, HandshakeConsistent, OpenConsistent, ConnectedConsistent,
     CloseConsistent, ReconnectConsistent DEF Session
<1>2. ASSUME Network \/ UNCHANGED vars
      PROVE  Consistent'
  <2> USE DEF Consistent, session, sockets
  <2>1. UNCHANGED <<lock, session, stop, pc, doing, wanted>>
    BY <1>2 DEF Network, AckAges, Break, vars
  <2>2. \A c \in Conn : ws'[c] = "closed" <=> ws[c] = "closed"
    BY <1>2 DEF Network, AckAges, Break, vars, TypeOK
  <2>3. LockInv' /\ GarbledInv' /\ Attended'
    BY <2>1 DEF LockInv, GarbledInv, Attended, Established
  <2>4. ConnInv'
    BY <2>1, <2>2 DEF ConnInv
  <2>5. Recovering'
    BY <2>1 DEF Recovering, Established, Pending
  <2> QED
    BY <2>3, <2>4, <2>5
<1> QED
  BY <1>1, <1>2, ListenConsistent, HeartbeatConsistent, ApplicationConsistent
     DEF Next

\* The websocket, the stop channel, the lock and the goroutines of a session
\* stay together whatever Open, CloseWithCode, reconnect, listen and heartbeat
\* interleave to.
THEOREM SessionConsistent == Spec => []Consistent
<1>1. Init => TypeOK /\ Consistent
  BY TypeInit, ConsistentInit
<1>2. TypeOK /\ Consistent /\ [Next]_vars => TypeOK' /\ Consistent'
  BY TypeNext, ConsistentNext
<1> QED
  BY <1>1, <1>2, PTL DEF Spec

\* An established websocket is read and kept alive (listen and heartbeat).
THEOREM SessionAttended == Spec => []Attended
<1>1. Consistent => Attended
  BY DEF Consistent
<1> QED
  BY <1>1, SessionConsistent, PTL

\* A lost session the application wants has a goroutine that opens it again
\* (reconnect, wsapi.go:895-949).
THEOREM SessionRecovering == Spec => []Recovering
<1>1. Consistent => Recovering
  BY DEF Consistent
<1> QED
  BY <1>1, SessionConsistent, PTL

----------------------------------------------------------------------------
(* Gateway implements SessionLink *)

LEMMA LinkInit == Init => link!Init
BY NoProcAssumption DEF Init, link!Init

LEMMA LinkNext ==
    ASSUME TypeOK, Consistent, [Next]_vars
    PROVE  [link!Next]_(link!vars)
<1> USE NoProcAssumption, ConstantsAssumption
    DEF session, sockets, link!vars
<1> DEFINE live    == {c \in Conn : ws[c] # "closed"}
           serving == {c \in Conn : stop[c] = "open"}
<1>0. /\ live = IF wsConn = NoConn THEN {} ELSE {wsConn}
      /\ serving = IF listening = NoConn THEN {} ELSE {listening}
      /\ lock = NoProc => listening = wsConn
      /\ lock # NoProc => listening = NoConn
  <2>1. /\ wsConn \in Conn \cup {NoConn} /\ listening \in Conn \cup {NoConn}
        /\ \A c \in Conn : ws[c] # "closed" <=> c = wsConn
        /\ \A c \in Conn : stop[c] = "open" <=> c = listening
        /\ lock = NoProc => listening = wsConn
        /\ lock # NoProc => listening = NoConn
    BY DEF TypeOK, Consistent, ConnInv
  <2>2. live = IF wsConn = NoConn THEN {} ELSE {wsConn}
    BY <2>1
  <2>3. serving = IF listening = NoConn THEN {} ELSE {listening}
    BY <2>1
  <2> QED
    BY <2>1, <2>2, <2>3
<1>1. /\ live' = IF wsConn' = NoConn THEN {} ELSE {wsConn'}
      /\ serving' = IF listening' = NoConn THEN {} ELSE {listening'}
  <2>0. TypeOK' /\ Consistent'
    BY TypeNext, ConsistentNext
  <2>1. /\ wsConn' \in Conn \cup {NoConn} /\ listening' \in Conn \cup {NoConn}
        /\ \A c \in Conn : ws'[c] # "closed" <=> c = wsConn'
        /\ \A c \in Conn : stop'[c] = "open" <=> c = listening'
    BY <2>0 DEF TypeOK, Consistent, ConnInv
  <2>2. live' = IF wsConn' = NoConn THEN {} ELSE {wsConn'}
    BY <2>1
  <2>3. serving' = IF listening' = NoConn THEN {} ELSE {listening'}
    BY <2>1
  <2> QED
    BY <2>2, <2>3
<1>2. ASSUME NEW p \in Proc
      PROVE  /\ pc[p] = "dial" => lock = p /\ lock # NoProc /\ wsConn = NoConn
             /\ pc[p] \in Handshake =>
                    lock = p /\ lock # NoProc /\ wsConn # NoConn
  BY DEF Consistent, LockInv, ConnInv, Opening, Handshake
<1> HIDE DEF live, serving
<1>3. ASSUME UNCHANGED <<lock, wsConn, listening>>
      PROVE  UNCHANGED link!vars
  <2>1. live' = live /\ serving' = serving
    BY <1>0, <1>1, <1>3
  <2> QED
    BY <1>3, <2>1 DEF live, serving
<1>4. ASSUME NEW p \in Proc, Session(p)
      PROVE  [link!Next]_(link!vars)
  <2>1. CASE OpenBegin(p)
    <3>1. link!Start
      BY <1>0, <1>1, <2>1 DEF OpenBegin, link!Start, live, serving
    <3> QED
      BY <3>1 DEF link!Next
  <2>2. CASE Dial(p)
    <3>1. /\ lock # NoProc /\ wsConn = NoConn /\ live = {}
          /\ UNCHANGED <<lock, listening>>
      <4>1. lock = p /\ wsConn = NoConn
        BY <1>2, <2>2 DEF Dial
      <4>2. live = {}
        BY <1>0, <4>1
      <4> QED
        BY <2>2, <4>1, <4>2 DEF Dial
    <3>2. serving' = serving
      BY <1>0, <1>1, <3>1
    <3>3. \E c \in Conn : live' = {c}
      BY <1>1, <2>2 DEF Dial
    <3>4. link!Dial
      BY <3>1, <3>2, <3>3 DEF link!Dial, live, serving
    <3> QED
      BY <3>4 DEF link!Next
  <2>3. CASE DialError(p) \/ HandshakeError(p)
    <3>1. /\ lock # NoProc /\ lock' = NoProc /\ wsConn' = NoConn
          /\ listening' = listening
      <4>1. CASE DialError(p)
        BY <1>2, <4>1 DEF DialError
      <4>2. CASE HandshakeError(p)
        BY <1>2, <4>2 DEF HandshakeError
      <4> QED
        BY <2>3, <4>1, <4>2
    <3>2. live' = {} /\ serving' = serving
      BY <1>0, <1>1, <3>1
    <3>3. link!Abandon
      BY <3>1, <3>2 DEF link!Abandon, live, serving
    <3> QED
      BY <3>3 DEF link!Next
  <2>4. CASE Connected(p)
    <3>1. pc[p] \in Handshake /\ lock = p /\ wsConn # NoConn
      BY <1>2, <2>4 DEF Connected, Handshake
    <3>2. link!Establish
      BY <1>0, <1>1, <2>4, <3>1
         DEF Connected, link!Establish, live, serving
    <3> QED
      BY <3>2 DEF link!Next
  <2>5. CASE CloseWithCode(p)
    <3>1. CASE wsConn = NoConn
      BY <1>0, <1>3, <2>5, <3>1 DEF CloseWithCode
    <3>2. CASE wsConn # NoConn
      <4>1. link!Close
        BY <1>0, <1>1, <2>5, <3>2
           DEF CloseWithCode, link!Close, live, serving
      <4> QED
        BY <4>1 DEF link!Next
    <3> QED
      BY <3>1, <3>2
  <2>6. CASE \/ OpenAlreadyOpen(p) \/ Hello(p) \/ Identify(p)
             \/ HandshakeRelock(p) \/ ForgetSession(p) \/ ForgetSequence(p)
             \/ BackOff(p)
    BY <1>3, <2>6 DEF OpenAlreadyOpen, Hello, Identify, HandshakeRelock,
                      ForgetSession, ForgetSequence, BackOff
  <2> QED
    BY <1>4, <2>1, <2>2, <2>3, <2>4, <2>5, <2>6 DEF Session
<1>5. ASSUME NEW c \in Conn, Listen(c) \/ HeartbeatLoop(c)
      PROVE  UNCHANGED link!vars
  BY <1>3, <1>5
     DEF Listen, Read, ReadError, SameConnection, Select, OnDispatch, OnPing,
         OnReconnect, OnAck, OnOther,
         HeartbeatLoop, Beat, BeatError, MarkReady, Tick, Stopped
<1>6. ASSUME NEW p \in App, Application(p)
      PROVE  UNCHANGED link!vars
  BY <1>3, <1>6
     DEF Application, CallOpen, CallClose, ChannelVoiceJoinManual
<1>7. CASE Network \/ UNCHANGED vars
  BY <1>3, <1>7 DEF Network, AckAges, Break, vars
<1> QED
  BY <1>4, <1>5, <1>6, <1>7 DEF Next

\* The session is opened and closed in turn, with one websocket at most, served
\* from the end of Open to Close.
THEOREM SessionImplementsLink == Spec => LinkSpec
<1>1. Init => TypeOK /\ Consistent /\ link!Init
  BY TypeInit, ConsistentInit, LinkInit
<1>2. TypeOK /\ Consistent /\ [Next]_vars =>
        TypeOK' /\ Consistent' /\ [link!Next]_(link!vars)
  BY TypeNext, ConsistentNext, LinkNext
<1> QED
  BY <1>1, <1>2, PTL DEF Spec, LinkSpec, link!Spec
=============================================================================
