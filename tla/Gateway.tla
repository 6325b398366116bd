------------------------------ MODULE Gateway ------------------------------
(***************************************************************************)
(* The gateway session of discordgo (wsapi.go): Open, CloseWithCode,       *)
(* reconnect, the listen and heartbeat goroutines every successful Open    *)
(* starts, and the parts of onEvent that touch the session.                *)
(*                                                                         *)
(* A websocket is an element of Conn.  An identity is used again once the  *)
(* client has closed the websocket and both goroutines started for it have *)
(* returned.  The stop channel Open makes (s.listening) is named by the    *)
(* websocket it is made for.                                               *)
(*                                                                         *)
(* `lock' is the write lock of the session's RWMutex.  A section under     *)
(* RLock is one step, possible while no writer holds the lock.             *)
(* CloseWithCode keeps the lock from its first to its last assignment and  *)
(* the steps that run without the lock cannot tell how far it has come, so *)
(* it is one step; Open, which waits for the network with the lock held,   *)
(* is one step for each wait.                                              *)
(***************************************************************************)
EXTENDS Naturals

CONSTANTS
    Conn,        \* websockets and the stop channels made for them
    User,        \* application goroutines
    Calls,       \* what they call: Open, Close, ChannelVoiceJoinManual
    Messages,    \* what the gateway sends on an established connection
    Unexpected,  \* what it may send instead of Hello, READY or RESUMED
    ShouldReconnectOnError,  \* the Session field of that name
    NoConn,      \* the nil *websocket.Conn and the nil channel
    NoProc       \* nobody holds the lock

\* Op 0, 1, 7, 9 with d = false, 9 with a d that is no boolean, 11, and any
\* other.  Op 9 with d = true makes onEvent do what Op 7 does.
AllMessages == {"dispatch", "ping", "reconnect", "invalid", "garbled", "ack",
                "other"}

ASSUME ConstantsAssumption ==
    /\ NoConn \notin Conn
    /\ Calls \subseteq {"Open", "Close", "Join"}
    /\ Messages \subseteq AllMessages
    /\ Unexpected \subseteq {"reconnect", "invalid", "ack", "other"}
    /\ ShouldReconnectOnError \in BOOLEAN

Listener  == {"listen"} \X Conn
Heartbeat == {"heartbeat"} \X Conn
App       == {"app"} \X User
Loop      == Listener \cup Heartbeat
Proc      == Loop \cup App

listen(c)    == <<"listen", c>>
heartbeat(c) == <<"heartbeat", c>>

ASSUME NoProcAssumption == NoProc \notin Proc

VARIABLES
    lock,       \* who holds the session's write lock, or NoProc
    wsConn,     \* s.wsConn
    listening,  \* s.listening
    ws,         \* of each websocket: "open", "broken" (the peer or the
                \* network is gone), or "closed" by the client
    stop,       \* of each stop channel: "open" or "closed"
    pc,         \* where each goroutine is
    doing,      \* why the goroutine closes or opens the session: "error", or
                \* the message that asked for it
    loaded,     \* `sequence' of the Open that holds the lock, else 0
    sequence,   \* s.sequence: 0, or 1 for any number the gateway sent
    sessionID,  \* s.sessionID (and s.resumeGatewayURL): "" or "id"
    ack,        \* s.LastHeartbeatAck: "fresh", or "stale" when too old
    DataReady,  \* s.DataReady
    panicked,   \* the program died on a nil websocket
    wanted      \* what the application asked for last: an open session?

sockets  == <<ws, stop>>
resume   == <<sequence, sessionID>>
session  == <<wsConn, listening>>
vars == <<lock, wsConn, listening, ws, stop, pc, doing, loaded, sequence,
          sessionID, ack, DataReady, panicked, wanted>>

Handshake == {"hello", "identify", "identified", "resumed"}

\* The labels of a goroutine inside Open with the lock held.  At "relock" it
\* handles a message that makes onEvent ask for the lock it already holds.
Opening == {"dial", "relock"} \cup Handshake

Labels == {"idle", "off", "open", "backoff", "close", "forgetID", "forgetSeq",
           "read", "select", "check", "handle", "beat", "mark", "wait"}
          \cup Opening

TypeOK ==
    /\ lock \in Proc \cup {NoProc}
    /\ wsConn \in Conn \cup {NoConn}
    /\ listening \in Conn \cup {NoConn}
    /\ ws \in [Conn -> {"open", "broken", "closed"}]
    /\ stop \in [Conn -> {"open", "closed"}]
    /\ pc \in [Proc -> Labels]
    /\ doing \in [Proc -> {"error", "reconnect", "invalid", "garbled", "ack"}]
    /\ loaded \in {0, 1}
    /\ sequence \in {0, 1}
    /\ sessionID \in {"", "id"}
    /\ ack \in {"fresh", "stale"}
    /\ DataReady \in BOOLEAN
    /\ panicked \in BOOLEAN
    /\ wanted \in BOOLEAN

Init ==
    /\ lock = NoProc
    /\ wsConn = NoConn
    /\ listening = NoConn
    /\ ws = [c \in Conn |-> "closed"]
    /\ stop = [c \in Conn |-> "closed"]
    /\ pc = [p \in Proc |-> IF p \in App THEN "idle" ELSE "off"]
    /\ doing = [p \in Proc |-> "error"]
    /\ loaded = 0
    /\ sequence = 0
    /\ sessionID = ""
    /\ ack = "fresh"
    /\ DataReady = FALSE
    /\ panicked = FALSE
    /\ wanted = FALSE

----------------------------------------------------------------------------
(* What a goroutine does next. *)

Goto(p, l) == pc' = [pc EXCEPT ![p] = l]

\* A goroutine that is done with Close and reconnect: the application's call
\* returns, listen goes on if onEvent asked for the reconnect, and a loop that
\* failed returns.
Done(p) == IF p \in App THEN "idle"
           ELSE IF doing[p] = "error" THEN "off" ELSE "read"

\* A mutant: nobody reconnects.
reconnectNever(p) == Done(p)

\* The head of reconnect.
reconnect(p) == IF ShouldReconnectOnError THEN "open" ELSE Done(p)

\* After Close: the application returns; Op 9 looks at its payload, and one it
\* cannot read makes onEvent return before reconnect.
AfterClose(p) ==
    CASE p \in App              -> "idle"
      [] doing[p] = "invalid"   -> "forgetID"
      [] doing[p] = "garbled"   -> "read"
      [] OTHER                  -> reconnect(p)

\* A mutant: reconnect gives up when Open fails.
AfterFailureGivesUp(p) == Done(p)

\* After Open returned an error other than ErrWSAlreadyOpen.
AfterFailure(p) == IF p \in App THEN "idle" ELSE "backoff"

Free(c) == /\ ws[c] = "closed"
           /\ pc[listen(c)] = "off"
           /\ pc[heartbeat(c)] = "off"

----------------------------------------------------------------------------
(* Open *)

\* Another Open has been faster: ErrWSAlreadyOpen.
OpenAlreadyOpen(p) ==
    /\ pc[p] = "open"
    /\ lock = NoProc
    /\ wsConn # NoConn
    /\ Goto(p, Done(p))
    /\ wanted' = (wanted \/ p \in App)
    /\ UNCHANGED <<lock, session, sockets, doing, loaded, resume, ack,
                   DataReady, panicked>>

\* A mutant: Open does not look for a websocket.
OpenBeginUnchecked(p) ==
    /\ pc[p] = "open"
    /\ lock = NoProc
    /\ lock' = p
    /\ loaded' = sequence
    /\ Goto(p, "dial")
    /\ UNCHANGED <<session, sockets, doing, resume, ack, DataReady, panicked,
                   wanted>>

OpenBegin(p) ==
    /\ pc[p] = "open"
    /\ lock = NoProc
    /\ wsConn = NoConn
    /\ lock' = p
    /\ loaded' = sequence
    /\ Goto(p, "dial")
    /\ UNCHANGED <<session, sockets, doing, resume, ack, DataReady, panicked,
                   wanted>>

Dial(p) ==
    /\ pc[p] = "dial"
    /\ \E c \in Conn :
          /\ Free(c)
          /\ wsConn' = c
          /\ ws' = [ws EXCEPT ![c] = "open"]
    /\ Goto(p, "hello")
    /\ UNCHANGED <<lock, listening, stop, doing, loaded, resume, ack,
                   DataReady, panicked, wanted>>

\* The lookup of the gateway's URL or the dial fails.
DialError(p) ==
    /\ pc[p] = "dial"
    /\ lock' = NoProc
    /\ loaded' = 0
    /\ Goto(p, AfterFailure(p))
    /\ UNCHANGED <<session, sockets, doing, resume, ack, DataReady, panicked,
                   wanted>>

Hello(p) ==
    /\ pc[p] = "hello"
    /\ ws[wsConn] = "open"
    /\ ack' = "fresh"
    /\ Goto(p, "identify")
    /\ UNCHANGED <<lock, session, sockets, doing, loaded, resume, DataReady,
                   panicked, wanted>>

\* Identify or Resume, by today's sessionID and the sequence loaded before
\* the dial.
Identify(p) ==
    /\ pc[p] = "identify"
    /\ ws[wsConn] = "open"
    /\ Goto(p, IF sessionID = "" /\ loaded = 0 THEN "identified" ELSE "resumed")
    /\ UNCHANGED <<lock, session, sockets, doing, loaded, resume, ack,
                   DataReady, panicked, wanted>>

\* The first packet is a dispatch, READY after an Identify (onReady stores the
\* session id), or one that onEvent ignores; the goroutines start.
Connected(p) ==
    LET c == wsConn IN
    /\ pc[p] \in {"identified", "resumed"}
    /\ ws[c] = "open"
    /\ \/ /\ sequence' = 1
          /\ sessionID' = IF pc[p] = "identified" THEN "id" ELSE sessionID
       \/ "other" \in Unexpected /\ UNCHANGED resume
    /\ listening' = c
    /\ stop' = [stop EXCEPT ![c] = "open"]
    /\ pc' = [pc EXCEPT ![heartbeat(c)] = "beat", ![listen(c)] = "read",
                        ![p] = Done(p)]
    /\ lock' = NoProc
    /\ loaded' = 0
    /\ wanted' = (wanted \/ p \in App)
    /\ UNCHANGED <<wsConn, ws, doing, ack, DataReady, panicked>>

\* A mutant: an early return of Open that forgets to set err, so that the
\* deferred function does not close the websocket.
HandshakeErrorLeaks(p) ==
    /\ pc[p] \in Handshake
    /\ wsConn' = NoConn
    /\ lock' = NoProc
    /\ loaded' = 0
    /\ Goto(p, AfterFailure(p))
    /\ UNCHANGED <<listening, sockets, doing, resume, ack, DataReady, panicked,
                   wanted>>

\* A read or a write fails, or the packet is not the expected one: the
\* deferred function closes the websocket.
HandshakeError(p) ==
    /\ pc[p] \in Handshake
    /\ ws' = [ws EXCEPT ![wsConn] = "closed"]
    /\ wsConn' = NoConn
    /\ lock' = NoProc
    /\ loaded' = 0
    /\ Goto(p, AfterFailure(p))
    /\ UNCHANGED <<listening, stop, doing, resume, ack, DataReady, panicked,
                   wanted>>

\* Open passes what it reads to onEvent, which takes the lock for Op 7, 9
\* and 11.  The lock is held by Open itself: the goroutine stays here.
HandshakeRelock(p) ==
    /\ pc[p] \in {"hello", "identified", "resumed"}
    /\ ws[wsConn] = "open"
    /\ \E m \in Unexpected \ {"other"} : doing' = [doing EXCEPT ![p] = m]
    /\ Goto(p, "relock")
    /\ UNCHANGED <<lock, session, sockets, loaded, resume, ack, DataReady,
                   panicked, wanted>>

----------------------------------------------------------------------------
(* CloseWithCode and reconnect *)

CloseWithCode(p) ==
    /\ pc[p] = "close"
    /\ lock = NoProc
    /\ DataReady' = FALSE
    /\ stop' = [c \in Conn |-> IF c = listening THEN "closed" ELSE stop[c]]
    /\ listening' = NoConn
    /\ ws' = [c \in Conn |-> IF c = wsConn THEN "closed" ELSE ws[c]]
    /\ wsConn' = NoConn
    /\ Goto(p, AfterClose(p))
    /\ wanted' = (wanted /\ p \notin App)
    /\ UNCHANGED <<lock, doing, loaded, resume, ack, panicked>>

\* Op 9 on a session that cannot be resumed clears both fields, without the
\* lock.
ForgetSession(p) ==
    /\ pc[p] = "forgetID"
    /\ sessionID' = ""
    /\ Goto(p, "forgetSeq")
    /\ UNCHANGED <<lock, session, sockets, doing, loaded, sequence, ack,
                   DataReady, panicked, wanted>>

ForgetSequence(p) ==
    /\ pc[p] = "forgetSeq"
    /\ sequence' = 0
    /\ Goto(p, reconnect(p))
    /\ UNCHANGED <<lock, session, sockets, doing, loaded, sessionID, ack,
                   DataReady, panicked, wanted>>

\* The back-off before the next Open.
BackOff(p) ==
    /\ pc[p] = "backoff"
    /\ Goto(p, "open")
    /\ UNCHANGED <<lock, session, sockets, doing, loaded, resume, ack,
                   DataReady, panicked, wanted>>

----------------------------------------------------------------------------
(* listen and onEvent *)

\* What the message is shows in onEvent, which handles it after the select.
Read(c) ==
    /\ pc[listen(c)] = "read"
    /\ ws[c] = "open"
    /\ Goto(listen(c), "select")
    /\ UNCHANGED <<lock, session, sockets, doing, loaded, resume, ack,
                   DataReady, panicked, wanted>>

ReadError(c) ==
    /\ pc[listen(c)] = "read"
    /\ ws[c] # "open"
    /\ doing' = [doing EXCEPT ![listen(c)] = "error"]
    /\ Goto(listen(c), "check")
    /\ UNCHANGED <<lock, session, sockets, loaded, resume, ack, DataReady,
                   panicked, wanted>>

\* A mutant: the comparison is the wrong way round.
SameConnectionInverted(c) ==
    /\ pc[listen(c)] = "check"
    /\ lock = NoProc
    /\ Goto(listen(c), IF wsConn = c THEN "off" ELSE "close")
    /\ UNCHANGED <<lock, session, sockets, doing, loaded, resume, ack,
                   DataReady, panicked, wanted>>

\* A mutant: listen reads on after an error of a websocket that is not the
\* session's any more.
SameConnectionReadsOn(c) ==
    /\ pc[listen(c)] = "check"
    /\ lock = NoProc
    /\ Goto(listen(c), IF wsConn = c THEN "close" ELSE "read")
    /\ UNCHANGED <<lock, session, sockets, doing, loaded, resume, ack,
                   DataReady, panicked, wanted>>

\* After a read error: is this still the session's websocket?
SameConnection(c) ==
    /\ pc[listen(c)] = "check"
    /\ lock = NoProc
    /\ Goto(listen(c), IF wsConn = c THEN "close" ELSE "off")
    /\ UNCHANGED <<lock, session, sockets, doing, loaded, resume, ack,
                   DataReady, panicked, wanted>>

Select(c) ==
    /\ pc[listen(c)] = "select"
    /\ Goto(listen(c), IF stop[c] = "closed" THEN "off" ELSE "handle")
    /\ UNCHANGED <<lock, session, sockets, doing, loaded, resume, ack,
                   DataReady, panicked, wanted>>

\* A mutant: Op 0 counts the dispatches.
OnDispatchCounts(c) ==
    /\ pc[listen(c)] = "handle"
    /\ "dispatch" \in Messages
    /\ sequence' = sequence + 1
    /\ Goto(listen(c), "read")
    /\ UNCHANGED <<lock, session, sockets, doing, loaded, sessionID, ack,
                   DataReady, panicked, wanted>>

\* Op 0 stores the sequence; the handlers are not part of this module.
OnDispatch(c) ==
    /\ pc[listen(c)] = "handle"
    /\ "dispatch" \in Messages
    /\ sequence' = 1
    /\ Goto(listen(c), "read")
    /\ UNCHANGED <<lock, session, sockets, doing, loaded, sessionID, ack,
                   DataReady, panicked, wanted>>

\* Op 1 is answered on the websocket s.wsConn names now, read without the
\* session's lock.
OnPing(c) ==
    /\ pc[listen(c)] = "handle"
    /\ "ping" \in Messages
    /\ panicked' = (wsConn = NoConn)
    /\ Goto(listen(c), "read")
    /\ UNCHANGED <<lock, session, sockets, doing, loaded, resume, ack,
                   DataReady, wanted>>

\* Op 7, and Op 9 which differs after the Close only.
OnReconnect(c) ==
    /\ pc[listen(c)] = "handle"
    /\ \E m \in Messages \cap {"reconnect", "invalid", "garbled"} :
          doing' = [doing EXCEPT ![listen(c)] = m]
    /\ Goto(listen(c), "close")
    /\ UNCHANGED <<lock, session, sockets, loaded, resume, ack, DataReady,
                   panicked, wanted>>

OnAck(c) ==
    /\ pc[listen(c)] = "handle"
    /\ "ack" \in Messages
    /\ lock = NoProc
    /\ ack' = "fresh"
    /\ Goto(listen(c), "read")
    /\ UNCHANGED <<lock, session, sockets, doing, loaded, resume, DataReady,
                   panicked, wanted>>

OnOther(c) ==
    /\ pc[listen(c)] = "handle"
    /\ "other" \in Messages
    /\ Goto(listen(c), "read")
    /\ UNCHANGED <<lock, session, sockets, doing, loaded, resume, ack,
                   DataReady, panicked, wanted>>

----------------------------------------------------------------------------
(* heartbeat *)

\* The write succeeds and the last acknowledgement is recent enough.
Beat(c) ==
    /\ pc[heartbeat(c)] = "beat"
    /\ lock = NoProc
    /\ ws[c] # "closed"
    /\ ack = "fresh"
    /\ Goto(heartbeat(c), "mark")
    /\ UNCHANGED <<lock, session, sockets, doing, loaded, resume, ack,
                   DataReady, panicked, wanted>>

\* A write to a websocket that is not open may fail; a stale acknowledgement
\* counts as a failure.
BeatError(c) ==
    /\ pc[heartbeat(c)] = "beat"
    /\ lock = NoProc
    /\ ws[c] # "open" \/ ack = "stale"
    /\ Goto(heartbeat(c), "close")
    /\ UNCHANGED <<lock, session, sockets, doing, loaded, resume, ack,
                   DataReady, panicked, wanted>>

MarkReady(c) ==
    /\ pc[heartbeat(c)] = "mark"
    /\ lock = NoProc
    /\ DataReady' = TRUE
    /\ Goto(heartbeat(c), "wait")
    /\ UNCHANGED <<lock, session, sockets, doing, loaded, resume, ack,
                   panicked, wanted>>

Tick(c) ==
    /\ pc[heartbeat(c)] = "wait"
    /\ Goto(heartbeat(c), "beat")
    /\ UNCHANGED <<lock, session, sockets, doing, loaded, resume, ack,
                   DataReady, panicked, wanted>>

Stopped(c) ==
    /\ pc[heartbeat(c)] = "wait"
    /\ stop[c] = "closed"
    /\ Goto(heartbeat(c), "off")
    /\ UNCHANGED <<lock, session, sockets, doing, loaded, resume, ack,
                   DataReady, panicked, wanted>>

----------------------------------------------------------------------------
(* The application and the network *)

CallOpen(p) ==
    /\ pc[p] = "idle"
    /\ "Open" \in Calls
    /\ Goto(p, "open")
    /\ UNCHANGED <<lock, session, sockets, doing, loaded, resume, ack,
                   DataReady, panicked, wanted>>

CallClose(p) ==
    /\ pc[p] = "idle"
    /\ "Close" \in Calls
    /\ Goto(p, "close")
    /\ UNCHANGED <<lock, session, sockets, doing, loaded, resume, ack,
                   DataReady, panicked, wanted>>

\* The request goes to s.wsConn, read without the session's lock.
ChannelVoiceJoinManual(p) ==
    /\ pc[p] = "idle"
    /\ "Join" \in Calls
    /\ panicked' = (wsConn = NoConn)
    /\ UNCHANGED <<lock, session, sockets, pc, doing, loaded, resume, ack,
                   DataReady, wanted>>

\* The server or the network drops the connection.
Break(c) ==
    /\ ws[c] = "open"
    /\ ws' = [ws EXCEPT ![c] = "broken"]
    /\ UNCHANGED <<lock, session, stop, pc, doing, loaded, resume, ack,
                   DataReady, panicked, wanted>>

\* No acknowledgement for FailedHeartbeatAcks intervals.
AckAges ==
    /\ wsConn # NoConn
    /\ lock = NoProc
    /\ ack = "fresh"
    /\ ack' = "stale"
    /\ UNCHANGED <<lock, session, sockets, pc, doing, loaded, resume,
                   DataReady, panicked, wanted>>

----------------------------------------------------------------------------

\* The steps of a goroutine that is inside Open, Close or reconnect.
Session(p) ==
    \/ OpenAlreadyOpen(p) \/ OpenBegin(p) \/ Dial(p) \/ DialError(p)
    \/ Hello(p) \/ Identify(p) \/ Connected(p)
    \/ HandshakeError(p) \/ HandshakeRelock(p)
    \/ CloseWithCode(p) \/ ForgetSession(p) \/ ForgetSequence(p) \/ BackOff(p)

Listen(c) ==
    \/ Read(c) \/ ReadError(c) \/ SameConnection(c) \/ Select(c)
    \/ OnDispatch(c) \/ OnPing(c) \/ OnReconnect(c) \/ OnAck(c) \/ OnOther(c)

HeartbeatLoop(c) ==
    Beat(c) \/ BeatError(c) \/ MarkReady(c) \/ Tick(c) \/ Stopped(c)

Application(p) == CallOpen(p) \/ CallClose(p) \/ ChannelVoiceJoinManual(p)

Network == AckAges \/ \E c \in Conn : Break(c)

Next ==
    /\ ~panicked
    /\ \/ \E p \in Proc : Session(p)
       \/ \E c \in Conn : Listen(c) \/ HeartbeatLoop(c)
       \/ \E p \in App : Application(p)
       \/ Network

Spec == Init /\ [][Next]_vars

----------------------------------------------------------------------------
(* What the session promises whatever the interleaving. *)

Established == lock = NoProc /\ wsConn # NoConn

\* The established websocket is served: its listen and heartbeat goroutines
\* are in their loops or on their way to Close, never gone (Open starts both
\* before it returns, wsapi.go:207-211, and they return only once they know
\* that the websocket is not the session's any more).  Otherwise the session
\* would look open for ever with nobody reading it.
Attended ==
    Established =>
        /\ pc[listen(wsConn)] \in {"read", "select", "check", "handle", "close"}
        /\ pc[heartbeat(wsConn)] \in {"beat", "mark", "wait", "close"}

\* A goroutine of the session that has Open still to succeed.
Pending(p) == p \in Loop /\ pc[p] \in Opening \cup
                  {"forgetID", "forgetSeq", "open", "backoff"}

\* While the application wants a session that is not established, some
\* goroutine is on its way to open it: several may react to one failure and
\* every one but the last may give up (wsapi.go:933-938), and none may rely on
\* another that does not.  An Op 9 whose payload cannot be read is the known
\* exception (wsapi.go:632-635).  A goroutine that waits in Open for the lock
\* it holds counts here: InvalidSessionAnswered and Reconnects are about it.
Recovering ==
    /\ ShouldReconnectOnError
    /\ "garbled" \notin Messages
    /\ wanted
    /\ ~Established
    => \E p \in Loop : Pending(p)

\* The lock is held by the goroutine that is inside Open, and by no other.
LockInv ==
    /\ lock # NoProc => pc[lock] \in Opening
    /\ \A p \in Proc : pc[p] \in Opening => lock = p

\* The websocket that is not closed is s.wsConn, and the stop channel that is
\* not closed is s.listening; they belong together except inside Open, where
\* there is no channel yet and nobody serves the websocket.
ConnInv ==
    /\ \A c \in Conn : ws[c] # "closed" <=> c = wsConn
    /\ \A c \in Conn : stop[c] = "open" <=> c = listening
    /\ lock = NoProc => listening = wsConn
    /\ lock # NoProc => /\ listening = NoConn
                        /\ pc[lock] = "dial" <=> wsConn = NoConn
    /\ lock # NoProc /\ wsConn # NoConn =>
            pc[listen(wsConn)] = "off" /\ pc[heartbeat(wsConn)] = "off"

GarbledInv ==
    \A p \in Proc : doing[p] = "garbled" => "garbled" \in Messages

\* The inductive invariant: why the websocket, the stop channel, the lock and
\* the goroutines of a session stay together (the fields of Session that Open
\* and CloseWithCode assign, wsapi.go:50-215 and 960-1006).
Consistent == LockInv /\ ConnInv /\ GarbledInv /\ Attended /\ Recovering

\* The session refines the connection an application thinks it has: one
\* websocket at most is not closed, it is opened and closed in turn, and the
\* goroutines serving it are told to stop when it is closed.
link == INSTANCE SessionLink WITH
            phase   <- IF lock # NoProc THEN "opening"
                       ELSE IF wsConn = NoConn THEN "closed" ELSE "open",
            live    <- {c \in Conn : ws[c] # "closed"},
            serving <- {c \in Conn : stop[c] = "open"}

LinkSpec == link!Spec

----------------------------------------------------------------------------
(* What comments in the code say and the code does not keep. *)

\* wsapi.go:625 "Must respond with a Identify packet" (to Invalid Session):
\* a goroutine that got one is able to go on.  In the handshake it waits for
\* the lock it holds.
InvalidSessionAnswered == \A p \in Proc : ~(pc[p] = "relock" /\ lock = p)

\* wsapi.go:31-33, ErrWSNotFound is what an attempt to use a missing websocket
\* gives; the program does not die of it.
NoNilWebsocket == ~panicked

\* wsapi.go:229-231: listen detects that a Close() has already happened, so it
\* never closes a websocket other than its own.
ListenClosesItsOwn ==
    [][ \A c \in Conn : CloseWithCode(listen(c)) /\ doing[listen(c)] = "error"
            => wsConn \in {c, NoConn} ]_vars

----------------------------------------------------------------------------
(* Fairness.  Goroutines are scheduled and Go's mutexes starve no waiter:     *)
(* Scheduled.  The network does not fail every dial and every handshake:      *)
(* Reachable.  What the application and the network do is never forced.       *)

Step(p) ==
    \/ Session(p)
    \/ \E c \in Conn : \/ p = listen(c) /\ Listen(c)
                       \/ p = heartbeat(c) /\ HeartbeatLoop(c)

Scheduled == \A p \in Proc : SF_vars(Step(p))

Reachable ==
    /\ SF_vars(lock \in Proc /\ Dial(lock))
    /\ SF_vars(lock \in Proc /\ Hello(lock))
    /\ SF_vars(lock \in Proc /\ Identify(lock))
    /\ SF_vars(lock \in Proc /\ Connected(lock))

SchedSpec == Spec /\ Scheduled
FairSpec  == SchedSpec /\ Reachable

\* An identity is left for the next websocket: where Conn is too small there
\* may be none for ever, which is the model's bound and not the code's.
Spare == \E c \in Conn : Free(c)

\* A session the application wants is established again and again.
Reconnects == []<>Spare => []<>(Established \/ ~wanted)

\* Every goroutine told to stop returns (wsapi.go:951): its stop channel is
\* not closed, or it has gone, infinitely often, and the channel's name is not
\* used again before it has gone.
LoopsEnd ==
    []<>Spare => \A c \in Conn : []<>(stop[c] = "open" \/ Free(c))
=============================================================================
