------------------------- MODULE DaveControllerProofs -------------------------
(* Theorems about DaveController: the types, the life of key ratchets, what   *)
(* Close leaves and that the keys in use are the current ones, for any users, *)
(* SSRCs, epochs and number of handles.                                       *)
EXTENDS DaveController, TLAPS

-------------------------------------------------------------------------------
(* The inductive invariant.                                                   *)

Labels == {"Idle", "SetVersion", "Commit", "Welcome", "Refresh", "Outbound", "GetKeyRatchet",
           "InstallRatchet", "NewDecryptor", "StoreDecryptor", "NewEncryptor", "Flag",
           "SetKeyRatchet", "Encrypt"}
Thens == {"Idle", "Refresh", "NewDecryptor", "NewEncryptor", "Flag"}

CallRecord ==
  [pc : Labels, then : Thens, user : Users \cup {None}, ssrc : Ssrcs \cup {0}, session : 0..2,
   ratchet : Handles \cup {NoRatchet}, want : SUBSET Users, version : 0..1]

\* A call that gets or installs a ratchet knows whose and of which session.
Sensible(c) ==
  /\ c.pc \in {"GetKeyRatchet", "InstallRatchet"} => c.user \in Users /\ c.session \in Sessions
  /\ c.pc = "Refresh" \/ c.then = "Refresh" => c.session \in Sessions

CallsInv ==
  /\ call \in [Goroutines -> CallRecord]
  /\ \A g \in Goroutines : Sensible(call[g])

\* A group has members from its first epoch on, and only c.session is live.
SessionInv ==
  /\ \A s \in Sessions : members[s] # {} => epoch[s] # 0
  /\ live = {session} \ {0}

Installing(g) == call[g].pc = "InstallRatchet"

\* A live ratchet has one owner: the map, or the call about to install it.
Owned ==
  /\ \A u \in Users : ratchets[u] # NoRatchet => ratchets[u] \in Open /\ ratchets[u].user = u
  /\ \A g \in Goroutines : Installing(g) =>
        /\ call[g].ratchet \in Open /\ call[g].ratchet.user = call[g].user
        /\ \A u \in Users : ratchets[u] # call[g].ratchet
        /\ \A h \in Goroutines : h # g /\ Installing(h) => call[h].ratchet # call[g].ratchet
  /\ \A k \in Open : \/ \E u \in Users : ratchets[u] = k
                     \/ \E g \in Goroutines : Installing(g) /\ call[g].ratchet = k

IInv == TypeOK /\ CallsInv /\ SessionInv /\ Owned

USE DEF Goroutines, Sessions

-------------------------------------------------------------------------------
(* Lemmas.                                                                    *)

\* NoRatchet and NoDecryptor are no handles: nobody is the user None.
LEMMA NoHandle ==
  /\ NoRatchet \notin Handles /\ NoDecryptor \notin Handles
  /\ \A h \in Handles : h.user \in Users /\ h # NoRatchet
BY DaveAssumption DEF NoRatchet, NoDecryptor, Handles, Users

LEMMA IdleCall ==
  /\ Idle \in CallRecord /\ Sensible(Idle)
  /\ Idle.pc = "Idle" /\ Idle.then = "Idle"
BY DEF Idle, CallRecord, Sensible, Labels, Thens

\* The calls that ask for ratchets, with the fields that they set.
SetWant(c, l, s, users) == [c EXCEPT !.pc = l, !.session = s, !.want = users]
SetUser(c, l, t, u, x, s) ==
  [c EXCEPT !.pc = l, !.then = t, !.user = u, !.ssrc = x, !.session = s]
SetOwn(c, l, u, s) == [c EXCEPT !.pc = l, !.user = u, !.session = s]

LEMMA SetWantCall ==
  ASSUME NEW c \in CallRecord, NEW l \in Labels, NEW s \in 0..2, NEW users \in SUBSET Users
  PROVE  LET d == SetWant(c, l, s, users)
         IN  d \in CallRecord /\ d.pc = l /\ d.then = c.then /\ d.session = s
BY DEF CallRecord, SetWant

LEMMA SetUserCall ==
  ASSUME NEW c \in CallRecord, NEW l \in Labels, NEW t \in Thens, NEW u \in Users,
         NEW s \in 0..2, NEW x \in Ssrcs
  PROVE  LET d == SetUser(c, l, t, u, x, s)
         IN  d \in CallRecord /\ d.pc = l /\ d.then = t /\ d.user = u /\ d.session = s
BY DEF CallRecord, SetUser

LEMMA SetOwnCall ==
  ASSUME NEW c \in CallRecord, NEW l \in Labels, NEW u \in Users, NEW s \in 0..2
  PROVE  LET d == SetOwn(c, l, u, s)
         IN  d \in CallRecord /\ d.pc = l /\ d.then = c.then /\ d.user = u /\ d.session = s
BY DEF CallRecord, SetOwn

LEMMA RefreshingCall ==
  ASSUME NEW s \in Sessions, NEW users \in SUBSET Users
  PROVE  /\ Refreshing(s, users) \in CallRecord /\ Sensible(Refreshing(s, users))
         /\ Refreshing(s, users).pc = "Refresh"
<1> DEFINE c == Refreshing(s, users)
<1>1. "Refresh" \in Labels /\ s \in 0..2
  BY DEF Labels
<1>2. c = SetWant(Idle, "Refresh", s, users)
  BY DEF Refreshing, SetWant
<1>3. c \in CallRecord /\ c.pc = "Refresh" /\ c.session = s
  BY <1>1, <1>2, IdleCall, SetWantCall
<1>4. Sensible(c)
  BY <1>3 DEF Sensible
<1> QED  BY <1>3, <1>4

\* A call that goes on to a sensible step keeps CallsInv.
LEMMA CallStep ==
  ASSUME CallsInv, NEW g \in Goroutines, NEW c \in CallRecord, Sensible(c), GoTo(g, c)
  PROVE  CallsInv'
BY DEF CallsInv, GoTo, Sensible

\* Of a step that leaves the ratchets alone only a call that installs matters.
LEMMA OwnedStep ==
  ASSUME CallsInv, Owned, NEW g \in Goroutines, NEW c, GoTo(g, c),
         ~Installing(g), c.pc # "InstallRatchet", UNCHANGED <<ratchets, of>>
  PROVE  Owned'
<1>1. \A h \in Goroutines :
        /\ Installing(h)' <=> Installing(h)
        /\ Installing(h) => call'[h] = call[h]
  BY DEF CallsInv, GoTo, Installing
<1>2. /\ ratchets' = ratchets /\ Open' = Open
  BY DEF Open
<1>3. \A u \in Users : ratchets'[u] # NoRatchet => ratchets'[u] \in Open' /\ ratchets'[u].user = u
  BY <1>2 DEF Owned
<1>4. ASSUME NEW h \in Goroutines, Installing(h)'
      PROVE  /\ call'[h].ratchet \in Open' /\ call'[h].ratchet.user = call'[h].user
             /\ \A u \in Users : ratchets'[u] # call'[h].ratchet
             /\ \A i \in Goroutines : i # h /\ Installing(i)' => call'[i].ratchet # call'[h].ratchet
  <2>1. Installing(h) /\ call'[h] = call[h]
    BY <1>1, <1>4 DEF Installing
  <2>2. \A i \in Goroutines : Installing(i)' => Installing(i) /\ call'[i] = call[i]
    BY <1>1 DEF Installing
  <2>3. \A i \in Goroutines : i # h /\ Installing(i) => call[i].ratchet # call[h].ratchet
    BY <2>1 DEF Owned
  <2>4. \A i \in Goroutines : i # h /\ Installing(i)' => call'[i].ratchet # call'[h].ratchet
    BY <2>1, <2>2, <2>3
  <2> QED  BY <1>2, <2>1, <2>4 DEF Owned
<1>5. ASSUME NEW k \in Open'
      PROVE  \/ \E u \in Users : ratchets'[u] = k
             \/ \E h \in Goroutines : Installing(h)' /\ call'[h].ratchet = k
  <2>1. \/ \E u \in Users : ratchets[u] = k
        \/ \E h \in Goroutines : Installing(h) /\ call[h].ratchet = k
    BY <1>2, <1>5 DEF Owned
  <2>2. \A h \in Goroutines : Installing(h) => Installing(h)' /\ call'[h] = call[h]
    BY <1>1 DEF Installing
  <2> QED  BY <1>2, <2>1, <2>2
<1> HIDE DEF Installing, Goroutines
<1> QED  BY <1>3, <1>4, <1>5 DEF Owned

LEMMA SameCalls ==
  ASSUME CallsInv, Owned, UNCHANGED <<call, ratchets, of>>
  PROVE  CallsInv' /\ Owned'
BY DEF CallsInv, Owned, Sensible, Installing, Open

\* What a step does to the parts of the state the invariant relates: a call
\* goes on, the ratchets and the sessions stay.
Plain(g, c) ==
  /\ GoTo(g, c) /\ c \in CallRecord /\ Sensible(c) /\ c.pc # "InstallRatchet"
  /\ ~Installing(g)
  /\ UNCHANGED <<ratchets, of, live, session, epoch, members>>

LEMMA PlainStep ==
  ASSUME IInv, NEW g \in Goroutines, NEW c, Plain(g, c)
  PROVE  CallsInv' /\ SessionInv' /\ Owned'
<1>1. CallsInv'
  BY CallStep DEF Plain, IInv
<1>2. Owned'
  BY OwnedStep DEF Plain, IInv
<1>3. SessionInv'
  BY DEF Plain, IInv, SessionInv
<1> QED  BY <1>1, <1>2, <1>3

-------------------------------------------------------------------------------
(* The initial states.                                                        *)

LEMMA InitInv == Init => IInv
<1> SUFFICES ASSUME Init PROVE IInv
  OBVIOUS
<1>1. TypeOK
  <2>1. Open = {} /\ of \in [Open -> 1..MaxEpoch]
    BY DEF Init, Open
  <2>2. epoch \in [Sessions -> 0..MaxEpoch]
    BY DaveAssumption DEF Init
  <2>3. {attached, closed, encryptor, outboundSet, settled} \subseteq BOOLEAN
    BY DEF Init
  <2> QED  BY <2>1, <2>2, <2>3 DEF Init, TypeOK
<1>2. CallsInv
  BY IdleCall DEF Init, CallsInv
<1>3. SessionInv
  BY DEF Init, SessionInv
<1>4. Owned
  BY DEF Init, Owned, Open, Installing, Idle
<1> QED  BY <1>1, <1>2, <1>3, <1>4 DEF IInv

-------------------------------------------------------------------------------
(* The handlers of the reader.                                                *)

LEMMA EnsureSessionInv ==
  ASSUME IInv, settled' \in BOOLEAN,
         NEW c \in CallRecord, Sensible(c), c.pc # "InstallRatchet", EnsureSession(c)
  PROVE  IInv'
<1>1. /\ GoTo(Reader, c) \/ GoTo(Reader, Idle)
      /\ call[Reader] = Idle /\ UNCHANGED <<ratchets, of, epoch, members>>
  BY DEF EnsureSession, Enter, Return
<1>2. ~Installing(Reader)
  BY <1>1 DEF Installing, Idle
<1>3. Reader \in Goroutines
  BY DEF Reader
<1>4. CallsInv' /\ Owned'
  <2>1. PICK d \in {c, Idle} : GoTo(Reader, d)
    BY <1>1
  <2>2. d \in CallRecord /\ Sensible(d) /\ d.pc # "InstallRatchet"
    BY <2>1, IdleCall
  <2> QED  BY <1>1, <1>2, <1>3, <2>1, <2>2, CallStep, OwnedStep DEF IInv
<1>5. SessionInv' /\ session' \in live' \cup {0} /\ live' \subseteq Sessions
  <2>1. CASE session = 0
    BY <2>1, <1>1 DEF EnsureSession, HaveSession, NoGroup, SessionInv, IInv, TypeOK
  <2>2. CASE session # 0
    BY <2>2, <1>1 DEF EnsureSession, HaveSession, NoGroup, SessionInv, IInv, TypeOK
  <2> QED  BY <2>1, <2>2
<1>6. TypeOK'
  <2>1. late' \subseteq Goroutines /\ proto' \in 0..1
    BY DEF EnsureSession, HaveSession, NoGroup, Enter, IInv, TypeOK
  <2>2. {attached, closed, encryptor, outboundSet, settled}' \subseteq BOOLEAN
    BY DEF EnsureSession, IInv, TypeOK, connection
  <2>3. UNCHANGED <<epoch, members, ratchets, of, Open, encKey, ssrcUsers, decryptors>>
    BY DEF EnsureSession, Open
  <2> QED  BY <1>5, <2>1, <2>2, <2>3 DEF IInv, TypeOK
<1> QED  BY <1>4, <1>5, <1>6 DEF IInv

LEMMA ToDecryptorCall ==
  ASSUME IInv, NEW g, NEW u \in Users, NEW x \in Ssrcs, session # 0, ToDecryptor(g, u, x)
  PROVE  \E c \in CallRecord : GoTo(g, c) /\ Sensible(c) /\ c.pc # "InstallRatchet"
<1>1. session \in Sessions /\ ratchets[u] \in Handles \cup {NoRatchet}
  BY DEF IInv, TypeOK
<1>2. CASE ratchets[u] = NoRatchet
  <2> DEFINE c == [Idle EXCEPT !.pc = "GetKeyRatchet", !.then = "NewDecryptor",
                               !.user = u, !.ssrc = x, !.session = session]
  <2>1. "GetKeyRatchet" \in Labels /\ "NewDecryptor" \in Thens /\ session \in 0..2
    BY <1>1 DEF Labels, Thens
  <2>0. c = SetUser(Idle, "GetKeyRatchet", "NewDecryptor", u, x, session)
    BY DEF SetUser
  <2> HIDE DEF c
  <2>2. /\ c \in CallRecord
        /\ c.pc = "GetKeyRatchet" /\ c.then = "NewDecryptor" /\ c.user = u /\ c.session = session
    BY <2>0, <2>1, IdleCall, SetUserCall
  <2>3. Sensible(c) /\ c.pc # "InstallRatchet"
    BY <1>1, <2>2 DEF Sensible
  <2> QED  BY <1>2, <2>2, <2>3 DEF ToDecryptor, c
<1>3. CASE ratchets[u] # NoRatchet
  <2> DEFINE c == [Idle EXCEPT !.pc = "NewDecryptor", !.ssrc = x, !.ratchet = ratchets[u]]
  <2>1. "NewDecryptor" \in Labels
    BY DEF Labels
  <2>2. c \in CallRecord /\ c.pc = "NewDecryptor" /\ c.then = "Idle"
    BY <1>1, <2>1, IdleCall DEF CallRecord
  <2>3. Sensible(c) /\ c.pc # "InstallRatchet"
    BY <2>2 DEF Sensible
  <2> QED  BY <1>3, <2>2, <2>3 DEF ToDecryptor
<1> QED  BY <1>2, <1>3

LEMMA MessagesInv ==
  ASSUME IInv, settled' \in BOOLEAN, Messages
  PROVE  IInv'
<1>0. Reader \in Goroutines
  BY DEF Reader
<1>c. call \in [Goroutines -> CallRecord] /\ \A g \in Goroutines : Sensible(call[g])
  BY DEF IInv, CallsInv
<1>i. call[Reader] = Idle => ~Installing(Reader)
  BY DEF Installing, Idle
<1>1. CASE PrepareTransition
  <2>1. PICK v \in 0..1 : EnsureSession([Idle EXCEPT !.pc = "SetVersion", !.version = v])
    BY <1>1 DEF PrepareTransition
  <2>2. LET c == [Idle EXCEPT !.pc = "SetVersion", !.version = v]
        IN  c \in CallRecord /\ Sensible(c) /\ c.pc # "InstallRatchet"
    BY IdleCall DEF CallRecord, Sensible, Labels, Thens
  <2> QED  BY <2>1, <2>2, EnsureSessionInv
<1>2. CASE Negotiate
  <2>1. Idle.pc # "InstallRatchet"
    BY DEF Idle
  <2> QED  BY <1>2, <2>1, IdleCall, EnsureSessionInv DEF Negotiate
<1>3. CASE HandleMLSCommitTransition
  <2>1. LET c == [Idle EXCEPT !.pc = "Commit"]
        IN  c \in CallRecord /\ Sensible(c) /\ c.pc # "InstallRatchet"
    BY IdleCall DEF CallRecord, Sensible, Labels, Thens
  <2> QED  BY <1>3, <2>1, EnsureSessionInv DEF HandleMLSCommitTransition
<1>4. CASE HandleMLSWelcome
  <2>1. LET c == [Idle EXCEPT !.pc = "Welcome"]
        IN  c \in CallRecord /\ Sensible(c) /\ c.pc # "InstallRatchet"
    BY IdleCall DEF CallRecord, Sensible, Labels, Thens
  <2> QED  BY <1>4, <2>1, EnsureSessionInv DEF HandleMLSWelcome
<1>5. CASE SetVersion
  <2>1. Plain(Reader, Idle)
    BY <1>5, IdleCall DEF SetVersion, At, Return, Plain, Installing, Idle, libdave
  <2>2. call[Reader].version \in 0..1
    BY <1>0, <1>c DEF CallRecord
  <2>3. TypeOK'
    BY <1>5, <2>2 DEF SetVersion, At, IInv, TypeOK, Open, libdave, connection
  <2> QED  BY <1>0, <2>1, <2>3, PlainStep DEF IInv
<1>6. CASE Reject
  <2>1. Plain(Reader, Idle)
    BY <1>6, IdleCall DEF Reject, At, Return, Plain, Installing, Idle, libdave, controller
  <2>2. TypeOK'
    BY <1>6 DEF Reject, At, IInv, TypeOK, Open, libdave, connection, controller
  <2> QED  BY <1>0, <2>1, <2>2, PlainStep DEF IInv
<1>7. CASE IgnoreCommit
  <2> DEFINE c == [Idle EXCEPT !.pc = "Outbound"]
  <2>1. c \in CallRecord /\ Sensible(c) /\ c.pc # "InstallRatchet"
    BY IdleCall DEF CallRecord, Sensible, Labels, Thens
  <2>2. Plain(Reader, c)
    BY <1>7, <2>1 DEF IgnoreCommit, At, Plain, Installing, libdave, controller
  <2>3. TypeOK'
    BY <1>7 DEF IgnoreCommit, At, IInv, TypeOK, Open, libdave, connection, controller
  <2> QED  BY <1>0, <2>2, <2>3, PlainStep DEF IInv
<1>8. CASE Process
  <2>1. PICK roster \in SUBSET Users :
          /\ epoch' = [epoch EXCEPT ![session] = @ + 1]
          /\ members' = [members EXCEPT ![session] = roster]
          /\ GoTo(Reader, Refreshing(session, (roster \cup {ssrcUsers[x] : x \in Ssrcs}) \ {None}))
    BY <1>8 DEF Process
  <2> DEFINE c == Refreshing(session, (roster \cup {ssrcUsers[x] : x \in Ssrcs}) \ {None})
  <2>2. session \in Sessions
    BY <1>8 DEF Process, IInv, TypeOK
  <2>3. (roster \cup {ssrcUsers[x] : x \in Ssrcs}) \ {None} \in SUBSET Users
    BY DEF IInv, TypeOK, Users
  <2>4. c \in CallRecord /\ Sensible(c)
    BY <2>2, <2>3, RefreshingCall
  <2>5. c.pc # "InstallRatchet" /\ ~Installing(Reader)
    BY <1>8 DEF Refreshing, Idle, Process, At, Installing
  <2>6. UNCHANGED <<ratchets, of, live, session>>
    BY <1>8 DEF Process, controller
  <2>7. CallsInv' /\ Owned'
    BY <1>0, <2>1, <2>4, <2>5, <2>6, CallStep, OwnedStep DEF IInv
  <2>8. epoch' \in [Sessions -> 0..MaxEpoch] /\ epoch'[session] # 0
    BY <1>8, <2>1, <2>2, DaveAssumption DEF Process, IInv, TypeOK
  <2>9. SessionInv'
    BY <2>1, <2>2, <2>6, <2>8 DEF IInv, SessionInv, TypeOK
  <2>10. TypeOK'
    BY <1>8, <2>1, <2>8 DEF Process, At, IInv, TypeOK, Open, connection, controller
  <2> QED  BY <2>7, <2>9, <2>10 DEF IInv
<1>9. CASE Refresh
  <2>1. PICK u \in call[Reader].want :
          GoTo(Reader, [call[Reader] EXCEPT !.pc = "GetKeyRatchet", !.then = "Refresh",
                                            !.user = u, !.want = @ \ {u}])
    BY <1>9 DEF Refresh
  <2> DEFINE c == [call[Reader] EXCEPT !.pc = "GetKeyRatchet", !.then = "Refresh",
                                       !.user = u, !.want = @ \ {u}]
  <2>2. call[Reader] \in CallRecord /\ Sensible(call[Reader]) /\ call[Reader].pc = "Refresh"
    BY <1>9, <1>0, <1>c DEF Refresh, At
  <2>3. c \in CallRecord /\ Sensible(c) /\ c.pc # "InstallRatchet"
    BY <2>2 DEF CallRecord, Sensible, Labels, Thens
  <2>4. Plain(Reader, c)
    BY <1>9, <2>1, <2>2, <2>3 DEF Refresh, Plain, Installing, libdave, controller
  <2>5. TypeOK'
    BY <1>9 DEF Refresh, At, IInv, TypeOK, Open, libdave, connection, controller
  <2> QED  BY <1>0, <2>4, <2>5, PlainStep DEF IInv
<1>10. CASE Refreshed
  <2> DEFINE c == [Idle EXCEPT !.pc = "Outbound"]
  <2>1. c \in CallRecord /\ Sensible(c) /\ c.pc # "InstallRatchet"
    BY IdleCall DEF CallRecord, Sensible, Labels, Thens
  <2>2. Plain(Reader, c)
    BY <1>10, <2>1 DEF Refreshed, At, Plain, Installing, libdave, controller
  <2>3. TypeOK'
    BY <1>10 DEF Refreshed, At, IInv, TypeOK, Open, libdave, connection, controller
  <2> QED  BY <1>0, <2>2, <2>3, PlainStep DEF IInv
<1>11. CASE EnsureOutboundRatchet
  <2> DEFINE c == [Idle EXCEPT !.pc = "GetKeyRatchet", !.user = Me, !.session = session]
  <2>0. TypeOK'
    BY <1>11 DEF EnsureOutboundRatchet, At, IInv, TypeOK, Open, libdave, connection, controller
  <2>1. CASE GoTo(Reader, Idle)
    <3>1. Plain(Reader, Idle)
      BY <1>11, <2>1, IdleCall DEF EnsureOutboundRatchet, At, Plain, Installing, Idle, libdave, controller
    <3> QED  BY <1>0, <2>0, <3>1, PlainStep DEF IInv
  <2>2. CASE session # 0 /\ GoTo(Reader, c)
    <3>1. session \in Sessions /\ Me \in Users
      BY <2>2 DEF IInv, TypeOK, Users
    <3>2. c \in CallRecord /\ Sensible(c) /\ c.pc # "InstallRatchet"
      <4>1. "GetKeyRatchet" \in Labels /\ session \in 0..2
        BY <3>1 DEF Labels
      <4>2. c = SetOwn(Idle, "GetKeyRatchet", Me, session)
        BY DEF SetOwn
      <4> HIDE DEF c
      <4>3. c \in CallRecord /\ c.pc = "GetKeyRatchet" /\ c.then = "Idle" /\ c.user = Me /\ c.session = session
        BY <3>1, <4>1, <4>2, IdleCall, SetOwnCall
      <4> QED  BY <3>1, <4>3 DEF Sensible
    <3>3. Plain(Reader, c)
      BY <1>11, <2>2, <3>2 DEF EnsureOutboundRatchet, At, Plain, Installing, libdave, controller
    <3> QED  BY <1>0, <2>0, <3>3, PlainStep DEF IInv
  <2> QED  BY <1>11, <2>1, <2>2 DEF EnsureOutboundRatchet, Return
<1>12. CASE ClientDisconnected
  <2>1. PICK u \in Others :
          /\ of' = Destroyed({ratchets[u]})
          /\ ratchets' = [ratchets EXCEPT ![u] = NoRatchet]
          /\ decryptors' = [x \in Ssrcs |-> IF ssrcUsers[x] = u THEN NoDecryptor ELSE decryptors[x]]
          /\ ssrcUsers' = [x \in Ssrcs |-> IF ssrcUsers[x] = u THEN None ELSE ssrcUsers[x]]
    BY <1>12, ZenonT(30) DEF ClientDisconnected
  <2>2. u \in Users
    BY DEF Users
  <2>3. UNCHANGED <<call, live, session, epoch, members>>
    BY <1>12, ZenonT(30) DEF ClientDisconnected
  <2>4. Open' = Open \ {ratchets[u]}
    BY <2>1 DEF Open, Destroyed
  <2>5. CallsInv' /\ SessionInv'
    BY <2>3 DEF IInv, CallsInv, SessionInv, Sensible
  <2>6. Owned'
    BY <2>1, <2>2, <2>3, <2>4, NoHandle DEF IInv, Owned, Installing, TypeOK
  <2>7. TypeOK'
    <3>1. of' \in [Open' -> 1..MaxEpoch] /\ Open' \subseteq Handles
      BY <2>1, <2>4 DEF IInv, TypeOK, Destroyed, Open
    <3> QED
      BY <1>12, <2>1, <3>1 DEF ClientDisconnected, Enter, IInv, TypeOK, connection
  <2> QED  BY <2>5, <2>6, <2>7 DEF IInv
<1>13. CASE HandleSpeakingUpdate
  <2>1. PICK u \in Others, x \in Ssrcs :
          /\ ssrcUsers' = [ssrcUsers EXCEPT ![x] = u]
          /\ IF decryptors[x] # NoDecryptor \/ session = 0
               THEN UNCHANGED call
               ELSE ToDecryptor(Reader, u, x)
    BY <1>13 DEF HandleSpeakingUpdate
  <2>2. call[Reader] = Idle /\ UNCHANGED <<ratchets, of, live, session, epoch, members>>
    BY <1>13 DEF HandleSpeakingUpdate, Enter, libdave
  <2>3. TypeOK'
    BY <1>13, <2>1 DEF HandleSpeakingUpdate, Enter, IInv, TypeOK, Open, libdave, connection
  <2>4. CASE UNCHANGED call
    <3>1. CallsInv' /\ Owned'
      BY <2>2, <2>4, SameCalls DEF IInv
    <3>2. SessionInv'
      BY <2>2 DEF IInv, SessionInv
    <3> QED  BY <2>3, <3>1, <3>2 DEF IInv
  <2>5. CASE session # 0 /\ ToDecryptor(Reader, u, x)
    <3>1. PICK c \in CallRecord : GoTo(Reader, c) /\ Sensible(c) /\ c.pc # "InstallRatchet"
      BY <2>5, ToDecryptorCall DEF Users
    <3>2. Plain(Reader, c)
      BY <1>i, <2>2, <3>1 DEF Plain
    <3> QED  BY <1>0, <2>3, <3>2, PlainStep DEF IInv
  <2> QED  BY <2>1, <2>4, <2>5
<1> QED
  BY <1>1, <1>2, <1>3, <1>4, <1>5, <1>6, <1>7, <1>8, <1>9, <1>10, <1>11, <1>12, <1>13 DEF Messages

-------------------------------------------------------------------------------
(* The frames.                                                                *)

\* The calls a frame to send goes on with.
SetRatchet(c, l, h) == [c EXCEPT !.pc = l, !.ratchet = h]
SetSender(c, l, t, u, s) == [c EXCEPT !.pc = l, !.then = t, !.user = u, !.session = s]

LEMMA SetRatchetCall ==
  ASSUME NEW c \in CallRecord, NEW l \in Labels, NEW h \in Handles \cup {NoRatchet}
  PROVE  LET d == SetRatchet(c, l, h)
         IN  /\ d \in CallRecord /\ d.pc = l /\ d.then = c.then /\ d.user = c.user
             /\ d.session = c.session
BY DEF CallRecord, SetRatchet

LEMMA SetSenderCall ==
  ASSUME NEW c \in CallRecord, NEW l \in Labels, NEW t \in Thens,
         NEW u \in Users \cup {None}, NEW s \in 0..2
  PROVE  LET d == SetSender(c, l, t, u, s)
         IN  d \in CallRecord /\ d.pc = l /\ d.then = t /\ d.user = u /\ d.session = s
BY DEF CallRecord, SetSender

LEMMA ContinueCall ==
  ASSUME NEW c \in CallRecord, Sensible(c), NEW l \in Labels,
         l \notin {"GetKeyRatchet", "InstallRatchet", "Refresh"}
  PROVE  LET d == [c EXCEPT !.pc = l]
         IN  d \in CallRecord /\ Sensible(d) /\ d.pc = l
BY DEF CallRecord, Sensible

LEMMA EncryptOpusCall ==
  ASSUME IInv, EncryptOpus
  PROVE  \/ UNCHANGED call
         \/ \E c \in CallRecord : GoTo(Sender, c) /\ Sensible(c) /\ c.pc # "InstallRatchet"
<1> DEFINE after == IF encryptor THEN "Flag" ELSE "NewEncryptor"
           c1 == [Idle EXCEPT !.pc = after, !.ratchet = ratchets[Me]]
           c2 == [Idle EXCEPT !.pc = "GetKeyRatchet", !.then = after, !.user = Me, !.session = session]
<1>1. \/ UNCHANGED call
      \/ GoTo(Sender, c1)
      \/ session # 0 /\ GoTo(Sender, c2)
  BY DEF EncryptOpus
<1>2. /\ after \in Labels /\ after \in Thens /\ after \in {"Flag", "NewEncryptor"}
      /\ "GetKeyRatchet" \in Labels /\ Me \in Users /\ Me \in Users \cup {None}
      /\ ratchets[Me] \in Handles \cup {NoRatchet}
      /\ session \in 0..2 /\ (session # 0 => session \in Sessions)
  BY DEF Labels, Thens, Users, IInv, TypeOK
<1>3. c1 = SetRatchet(Idle, after, ratchets[Me])
  BY DEF SetRatchet
<1>4. c2 = SetSender(Idle, "GetKeyRatchet", after, Me, session)
  BY DEF SetSender
<1> HIDE DEF c1, c2, after
<1>5. c1 \in CallRecord /\ Sensible(c1) /\ c1.pc # "InstallRatchet"
  <2>1. c1 \in CallRecord /\ c1.pc = after /\ c1.then = "Idle"
    BY <1>2, <1>3, IdleCall, SetRatchetCall
  <2> QED  BY <1>2, <2>1 DEF Sensible
<1>6. session # 0 => c2 \in CallRecord /\ Sensible(c2) /\ c2.pc # "InstallRatchet"
  <2>1. /\ c2 \in CallRecord /\ c2.pc = "GetKeyRatchet" /\ c2.then = after
        /\ c2.user = Me /\ c2.session = session
    BY <1>2, <1>4, IdleCall, SetSenderCall
  <2> QED  BY <1>2, <2>1 DEF Sensible
<1> QED  BY <1>1, <1>5, <1>6

LEMMA FramesInv ==
  ASSUME IInv, settled' \in BOOLEAN, Frames
  PROVE  IInv'
<1>0. Receiver \in Goroutines /\ Sender \in Goroutines
  OBVIOUS
<1>c. call \in [Goroutines -> CallRecord] /\ \A g \in Goroutines : Sensible(call[g])
  BY DEF IInv, CallsInv
<1>i. \A g \in Goroutines : call[g] = Idle => ~Installing(g)
  BY IdleCall DEF Installing
<1>1. CASE DecryptOpus
  <2>1. PICK x \in Ssrcs :
          IF proto = 0 \/ decryptors[x] # NoDecryptor \/ session = 0 \/ ssrcUsers[x] = None
            THEN UNCHANGED call
            ELSE ToDecryptor(Receiver, ssrcUsers[x], x)
    BY <1>1 DEF DecryptOpus
  <2>2. call[Receiver] = Idle /\ UNCHANGED <<ratchets, of, live, session, epoch, members>>
    BY <1>1 DEF DecryptOpus, Enter, libdave, controller
  <2>3. TypeOK'
    BY <1>1 DEF DecryptOpus, Enter, IInv, TypeOK, Open, libdave, connection, controller
  <2>4. CASE UNCHANGED call
    <3>1. CallsInv' /\ Owned'
      BY <2>2, <2>4, SameCalls DEF IInv
    <3>2. SessionInv'
      BY <2>2 DEF IInv, SessionInv
    <3> QED  BY <2>3, <3>1, <3>2 DEF IInv
  <2>5. CASE session # 0 /\ ssrcUsers[x] # None /\ ToDecryptor(Receiver, ssrcUsers[x], x)
    <3>1. ssrcUsers[x] \in Users
      BY <2>5 DEF IInv, TypeOK, Users
    <3>2. PICK c \in CallRecord : GoTo(Receiver, c) /\ Sensible(c) /\ c.pc # "InstallRatchet"
      BY <2>5, <3>1, ToDecryptorCall
    <3>3. Plain(Receiver, c)
      BY <1>0, <1>i, <2>2, <3>2 DEF Plain
    <3> QED  BY <1>0, <2>3, <3>3, PlainStep DEF IInv
  <2> QED  BY <2>1, <2>4, <2>5
<1>2. CASE EncryptOpus
  <2>1. call[Sender] = Idle /\ UNCHANGED <<ratchets, of, live, session, epoch, members>>
    BY <1>2 DEF EncryptOpus, Enter, libdave, controller
  <2>2. TypeOK'
    BY <1>2 DEF EncryptOpus, Enter, IInv, TypeOK, Open, libdave, connection, controller
  <2>3. CASE UNCHANGED call
    <3>1. CallsInv' /\ Owned'
      BY <2>1, <2>3, SameCalls DEF IInv
    <3>2. SessionInv'
      BY <2>1 DEF IInv, SessionInv
    <3> QED  BY <2>2, <3>1, <3>2 DEF IInv
  <2>4. ASSUME NEW c \in CallRecord, GoTo(Sender, c), Sensible(c), c.pc # "InstallRatchet"
        PROVE  IInv'
    <3>1. Plain(Sender, c)
      BY <1>0, <1>i, <2>1, <2>4 DEF Plain
    <3> QED  BY <1>0, <2>2, <3>1, PlainStep DEF IInv
  <2> QED  BY <1>2, <2>3, <2>4, EncryptOpusCall
<1>3. CASE NewEncryptor
  <2> DEFINE c == [call[Sender] EXCEPT !.pc = "Flag"]
  <2>1. "Flag" \in Labels
    BY DEF Labels
  <2>2. c \in CallRecord /\ Sensible(c) /\ c.pc = "Flag"
    BY <1>0, <1>c, <2>1, ContinueCall
  <2>3. Plain(Sender, c)
    BY <1>3, <2>2 DEF NewEncryptor, At, Continue, Plain, Installing, libdave
  <2>4. TypeOK'
    BY <1>3 DEF NewEncryptor, At, IInv, TypeOK, Open, libdave, connection
  <2> QED  BY <1>0, <2>3, <2>4, PlainStep DEF IInv
<1>4. CASE FlagOutbound
  <2> DEFINE c == [Idle EXCEPT !.pc = "Encrypt"]
             d == [call[Sender] EXCEPT !.pc = "SetKeyRatchet"]
  <2>1. "Encrypt" \in Labels /\ "SetKeyRatchet" \in Labels
    BY DEF Labels
  <2>2. /\ c \in CallRecord /\ Sensible(c) /\ c.pc = "Encrypt"
        /\ d \in CallRecord /\ Sensible(d) /\ d.pc = "SetKeyRatchet"
    BY <1>0, <1>c, <2>1, IdleCall, ContinueCall
  <2>3. TypeOK'
    BY <1>4 DEF FlagOutbound, At, IInv, TypeOK, Open, libdave, connection
  <2>4. ~Installing(Sender) /\ UNCHANGED <<ratchets, of, live, session, epoch, members>>
    BY <1>4 DEF FlagOutbound, At, Installing, libdave
  <2>5. GoTo(Sender, c) \/ GoTo(Sender, d)
    BY <1>4 DEF FlagOutbound, Continue
  <2>6. Plain(Sender, c) \/ Plain(Sender, d)
    BY <2>2, <2>4, <2>5 DEF Plain
  <2> QED  BY <1>0, <2>3, <2>6, PlainStep DEF IInv
<1>5. CASE SetKeyRatchet
  <2> DEFINE c == [Idle EXCEPT !.pc = "Encrypt"]
  <2>1. "Encrypt" \in Labels
    BY DEF Labels
  <2>2. c \in CallRecord /\ Sensible(c) /\ c.pc = "Encrypt"
    BY <2>1, IdleCall, ContinueCall
  <2>3. Plain(Sender, c)
    BY <1>5, <2>2 DEF SetKeyRatchet, At, Plain, Installing, controller
  <2>4. encKey' \in Handles \cup {NoRatchet}
    BY <1>5 DEF SetKeyRatchet, IInv, TypeOK
  <2>5. TypeOK'
    BY <1>5, <2>4 DEF SetKeyRatchet, At, IInv, TypeOK, Open, controller, connection
  <2> QED  BY <1>0, <2>3, <2>5, PlainStep DEF IInv
<1>6. CASE Encrypt
  <2>1. Plain(Sender, Idle)
    BY <1>6, IdleCall DEF Encrypt, At, Return, Plain, Installing, libdave, controller
  <2>2. TypeOK'
    BY <1>6 DEF Encrypt, At, IInv, TypeOK, Open, libdave, connection, controller
  <2> QED  BY <1>0, <2>1, <2>2, PlainStep DEF IInv
<1> QED
  BY <1>1, <1>2, <1>3, <1>4, <1>5, <1>6 DEF Frames

-------------------------------------------------------------------------------
(* A ratchet obtained and installed.                                          *)

LEMMA GetKeyRatchetInv ==
  ASSUME IInv, settled' \in BOOLEAN, NEW g \in Goroutines, GetKeyRatchet(g)
  PROVE  IInv'
<1> DEFINE c == call[g]
<1>1. /\ c \in CallRecord /\ Sensible(c) /\ c.pc = "GetKeyRatchet"
      /\ c.user \in Users /\ c.session \in Sessions /\ c.want \in SUBSET Users
      /\ ~Installing(g)
  BY DEF GetKeyRatchet, At, IInv, CallsInv, Sensible, CallRecord, Installing
<1>2. UNCHANGED <<ratchets, live, session, epoch, members>>
  BY DEF GetKeyRatchet, controller
<1>3. CASE c.session \in live /\ c.user \in members[c.session]
  <2>1. PICK h \in Handles :
          /\ Fresh(h, c.user)
          /\ of' = [k \in Open \cup {h} |-> IF k = h THEN epoch[c.session] ELSE of[k]]
          /\ GoTo(g, [c EXCEPT !.pc = "InstallRatchet", !.ratchet = h])
    BY <1>3 DEF GetKeyRatchet
  <2> DEFINE d == [c EXCEPT !.pc = "InstallRatchet", !.ratchet = h]
  <2>2. h \notin Open /\ h.user = c.user
    BY <2>1 DEF Fresh, Referenced
  <2>3. "InstallRatchet" \in Labels /\ h \in Handles \cup {NoRatchet}
    BY DEF Labels
  <2>4. d = SetRatchet(c, "InstallRatchet", h)
    BY DEF SetRatchet
  <2>5. /\ d \in CallRecord /\ d.pc = "InstallRatchet" /\ d.then = c.then /\ d.user = c.user
        /\ d.session = c.session
    <3> HIDE DEF d, c
    <3> QED  BY <1>1, <2>3, <2>4, SetRatchetCall
  <2>6. d.ratchet = h
    BY <1>1 DEF CallRecord
  <2>7. Sensible(d)
    <3> HIDE DEF d
    <3> QED  BY <1>1, <2>5 DEF Sensible
  <2>8. CallsInv' /\ SessionInv'
    BY <1>2, <2>1, <2>5, <2>7, CallStep DEF IInv, SessionInv
  <2>9. Open' = Open \cup {h}
    BY <2>1 DEF Open
  <2>10. /\ call'[g] = d
         /\ \A i \in Goroutines : i # g => call'[i] = call[i]
    BY <2>1 DEF IInv, CallsInv, GoTo
  <2> HIDE DEF d
  <2>11. \A u \in Users : ratchets'[u] # NoRatchet => ratchets'[u] \in Open' /\ ratchets'[u].user = u
    BY <1>2, <2>9 DEF IInv, Owned
  <2>12. \A u \in Users : ratchets[u] # h
    BY <2>2, NoHandle DEF IInv, Owned
  <2>13. ASSUME NEW i \in Goroutines, call'[i].pc = "InstallRatchet"
         PROVE  /\ call'[i].ratchet \in Open' /\ call'[i].ratchet.user = call'[i].user
                /\ \A u \in Users : ratchets'[u] # call'[i].ratchet
                /\ \A j \in Goroutines :
                     j # i /\ call'[j].pc = "InstallRatchet" => call'[j].ratchet # call'[i].ratchet
    <3>1. \A j \in Goroutines : j # g /\ call'[j].pc = "InstallRatchet" =>
            /\ call[j] = call'[j] /\ call[j].ratchet \in Open /\ call[j].ratchet.user = call[j].user
            /\ \A u \in Users : ratchets[u] # call[j].ratchet
            /\ \A l \in Goroutines : l # j /\ call[l].pc = "InstallRatchet" => call[l].ratchet # call[j].ratchet
      BY <2>10 DEF IInv, Owned, Installing
    <3>2. CASE i = g
      BY <1>2, <2>2, <2>5, <2>6, <2>9, <2>10, <2>12, <3>1, <3>2
    <3>3. CASE i # g
      BY <1>2, <2>2, <2>6, <2>9, <2>10, <2>13, <3>1, <3>3
    <3> QED  BY <3>2, <3>3
  <2>14. ASSUME NEW k \in Open'
         PROVE  \/ \E u \in Users : ratchets'[u] = k
                \/ \E i \in Goroutines : call'[i].pc = "InstallRatchet" /\ call'[i].ratchet = k
    <3>1. CASE k = h
      BY <2>5, <2>6, <2>10, <3>1
    <3>2. CASE k \in Open
      <4>1. \/ \E u \in Users : ratchets[u] = k
            \/ \E i \in Goroutines : call[i].pc = "InstallRatchet" /\ call[i].ratchet = k
        BY <3>2 DEF IInv, Owned, Installing
      <4> QED  BY <1>1, <1>2, <2>10, <4>1
    <3> QED  BY <2>9, <3>1, <3>2
  <2>15. Owned'
    BY <2>11, <2>13, <2>14 DEF Owned, Installing
  <2>16. epoch[c.session] \in 1..MaxEpoch
    BY <1>1, <1>3, DaveAssumption DEF IInv, TypeOK, SessionInv
  <2>17. of' \in [Open' -> 1..MaxEpoch] /\ Open' \subseteq Handles
    BY <2>1, <2>9, <2>16 DEF IInv, TypeOK
  <2>18. TypeOK'
    BY <2>17 DEF GetKeyRatchet, At, IInv, TypeOK, controller, connection
  <2> QED  BY <2>8, <2>15, <2>18 DEF IInv
<1>4. CASE ~(c.session \in live /\ c.user \in members[c.session])
  <2>1. UNCHANGED of
    BY <1>4 DEF GetKeyRatchet
  <2>2. TypeOK'
    BY <2>1 DEF GetKeyRatchet, At, IInv, TypeOK, Open, controller, connection
  <2>3. GoTo(g, Idle) \/ GoTo(g, Refreshing(c.session, c.want))
    BY <1>4 DEF GetKeyRatchet, Return
  <2>4. Plain(g, Idle) \/ Plain(g, Refreshing(c.session, c.want))
    BY <1>1, <1>2, <2>1, <2>3, IdleCall, RefreshingCall DEF Plain
  <2> QED  BY <2>2, <2>4, PlainStep DEF IInv
<1> QED  BY <1>3, <1>4

\* The step after an installation.
LEMMA AfterCall ==
  ASSUME NEW c \in CallRecord, c.then \notin {"Idle", "Refresh"}
  PROVE  LET d == [c EXCEPT !.pc = c.then, !.then = "Idle", !.user = None, !.session = 0]
         IN  d \in CallRecord /\ Sensible(d) /\ d.pc # "InstallRatchet"
<1> DEFINE d == [c EXCEPT !.pc = c.then, !.then = "Idle", !.user = None, !.session = 0]
<1>1. c.then \in Labels /\ c.then \in Thens /\ "Idle" \in Thens /\ None \in Users \cup {None} /\ 0 \in 0..2
  BY DEF CallRecord, Labels, Thens
<1>2. d = SetSender(c, c.then, "Idle", None, 0)
  BY DEF SetSender
<1> HIDE DEF d
<1>3. d \in CallRecord /\ d.pc = c.then /\ d.then = "Idle"
  BY <1>1, <1>2, SetSenderCall
<1>4. Sensible(d) /\ d.pc # "InstallRatchet"
  BY <1>1, <1>3 DEF Sensible, Thens
<1> QED  BY <1>3, <1>4 DEF d

LEMMA InstallRatchetInv ==
  ASSUME IInv, settled' \in BOOLEAN, NEW g \in Goroutines, InstallRatchet(g)
  PROVE  IInv'
<1> DEFINE c == call[g]
           u == c.user
           r == c.ratchet
<1>1. /\ c \in CallRecord /\ Sensible(c) /\ c.pc = "InstallRatchet" /\ Installing(g)
      /\ u \in Users /\ c.session \in Sessions /\ c.want \in SUBSET Users /\ c.then \in Thens
  BY DEF InstallRatchet, At, IInv, CallsInv, Sensible, CallRecord, Installing
<1>2. /\ r \in Open /\ r.user = u
      /\ \A v \in Users : ratchets[v] # r
      /\ \A i \in Goroutines : i # g /\ call[i].pc = "InstallRatchet" => call[i].ratchet # r
  BY <1>1 DEF IInv, Owned, Installing
<1>3. /\ of' = Destroyed({ratchets[u]})
      /\ ratchets' = [ratchets EXCEPT ![u] = r]
      /\ UNCHANGED <<live, session, epoch, members>>
  BY DEF InstallRatchet
<1>4. Open' = Open \ {ratchets[u]}
  BY <1>3 DEF Open, Destroyed
<1>5. PICK d \in CallRecord : GoTo(g, d) /\ Sensible(d) /\ d.pc # "InstallRatchet"
  <2>1. CASE c.then = "Idle"
    BY <2>1, IdleCall DEF InstallRatchet, Return
  <2>2. CASE c.then = "Refresh"
    <3>1. GoTo(g, Refreshing(c.session, c.want))
      BY <2>2 DEF InstallRatchet
    <3> QED  BY <1>1, <3>1, RefreshingCall
  <2>3. CASE c.then \notin {"Idle", "Refresh"}
    <3>1. GoTo(g, [c EXCEPT !.pc = c.then, !.then = "Idle", !.user = None, !.session = 0])
      BY <2>3 DEF InstallRatchet
    <3> QED  BY <1>1, <2>3, <3>1, AfterCall
  <2> QED  BY <2>1, <2>2, <2>3
<1>6. CallsInv' /\ SessionInv'
  BY <1>3, <1>5, CallStep DEF IInv, SessionInv
<1>7. /\ call'[g] = d
      /\ \A i \in Goroutines : i # g => call'[i] = call[i]
  BY <1>5 DEF IInv, CallsInv, GoTo
<1>8. /\ ratchets'[u] = r
      /\ \A v \in Users : v # u => ratchets'[v] = ratchets[v]
  BY <1>1, <1>3 DEF IInv, TypeOK
<1>9. Owned'
  <2>1. ASSUME NEW v \in Users, ratchets'[v] # NoRatchet
        PROVE  ratchets'[v] \in Open' /\ ratchets'[v].user = v
    <3>1. CASE v = u
      BY <1>1, <1>2, <1>4, <1>8, <3>1
    <3>2. CASE v # u
      <4>1. ratchets[v] \in Open /\ ratchets[v].user = v
        BY <1>8, <2>1, <3>2 DEF IInv, Owned
      <4>2. ratchets[u] # ratchets[v]
        BY <1>1, <1>8, <2>1, <3>2, <4>1 DEF IInv, Owned
      <4> QED  BY <1>4, <1>8, <3>2, <4>1, <4>2
    <3> QED  BY <3>1, <3>2
  <2>2. ASSUME NEW i \in Goroutines, call'[i].pc = "InstallRatchet"
        PROVE  /\ call'[i].ratchet \in Open' /\ call'[i].ratchet.user = call'[i].user
               /\ \A v \in Users : ratchets'[v] # call'[i].ratchet
               /\ \A j \in Goroutines :
                    j # i /\ call'[j].pc = "InstallRatchet" => call'[j].ratchet # call'[i].ratchet
    <3>1. i # g /\ call'[i] = call[i] /\ call[i].pc = "InstallRatchet"
      BY <1>5, <1>7, <2>2
    <3>2. /\ call[i].ratchet \in Open /\ call[i].ratchet.user = call[i].user
          /\ \A v \in Users : ratchets[v] # call[i].ratchet
          /\ \A j \in Goroutines :
               j # i /\ call[j].pc = "InstallRatchet" => call[j].ratchet # call[i].ratchet
      BY <3>1 DEF IInv, Owned, Installing
    <3>3. \A v \in Users : ratchets'[v] # call[i].ratchet
      BY <1>2, <1>8, <3>1, <3>2
    <3>4. \A j \in Goroutines :
            j # i /\ call'[j].pc = "InstallRatchet" => call'[j].ratchet # call[i].ratchet
      BY <1>5, <1>7, <3>2
    <3> QED  BY <1>1, <1>4, <3>1, <3>2, <3>3, <3>4
  <2>3. ASSUME NEW k \in Open'
        PROVE  \/ \E v \in Users : ratchets'[v] = k
               \/ \E i \in Goroutines : call'[i].pc = "InstallRatchet" /\ call'[i].ratchet = k
    <3>1. \/ \E v \in Users : ratchets[v] = k
          \/ \E i \in Goroutines : call[i].pc = "InstallRatchet" /\ call[i].ratchet = k
      BY <1>4 DEF IInv, Owned, Installing
    <3>2. k # ratchets[u]
      BY <1>4
    <3> QED  BY <1>1, <1>7, <1>8, <3>1, <3>2
  <2> QED  BY <2>1, <2>2, <2>3 DEF Owned, Installing
<1>10. TypeOK'
  <2>1. r \in Handles \cup {NoRatchet}
    BY <1>1 DEF CallRecord
  <2>2. ratchets' \in [Users -> Handles \cup {NoRatchet}]
    BY <1>3, <2>1 DEF IInv, TypeOK
  <2>3. of' \in [Open' -> 1..MaxEpoch] /\ Open' \subseteq Handles
    BY <1>3, <1>4 DEF IInv, TypeOK, Destroyed
  <2>4. decryptors' \in [Ssrcs -> Handles \cup {NoRatchet, NoDecryptor}]
    BY <2>1 DEF InstallRatchet, IInv, TypeOK
  <2>5. {attached, closed, encryptor, outboundSet, settled}' \subseteq BOOLEAN
    <3>1. outboundSet' \in BOOLEAN
      BY DEF InstallRatchet
    <3>2. UNCHANGED <<attached, closed, encryptor>>
      BY DEF InstallRatchet, connection
    <3> QED  BY <3>1, <3>2 DEF IInv, TypeOK
  <2>6. UNCHANGED <<late, proto, live, session, epoch, members, encKey, ssrcUsers>>
    BY DEF InstallRatchet, At
  <2> QED  BY <2>2, <2>3, <2>4, <2>5, <2>6 DEF IInv, TypeOK
<1> QED  BY <1>6, <1>9, <1>10 DEF IInv

LEMMA DecryptorInv ==
  ASSUME IInv, settled' \in BOOLEAN, NEW g \in Goroutines, NewDecryptor(g) \/ StoreDecryptor(g)
  PROVE  IInv'
<1> DEFINE c == call[g]
<1>1. c \in CallRecord /\ Sensible(c) /\ c.ratchet \in Handles \cup {NoRatchet}
  BY DEF IInv, CallsInv, CallRecord
<1>2. CASE NewDecryptor(g)
  <2> DEFINE h == IF c.ratchet \in Open THEN c.ratchet ELSE NoRatchet
             d == [c EXCEPT !.pc = "StoreDecryptor", !.ratchet = h]
  <2>1. GoTo(g, d)
    BY <1>2 DEF NewDecryptor
  <2>2. h \in Handles \cup {NoRatchet} /\ "StoreDecryptor" \in Labels
    BY <1>1 DEF Labels
  <2>3. d = SetRatchet(c, "StoreDecryptor", h)
    BY DEF SetRatchet
  <2>4. d \in CallRecord /\ Sensible(d) /\ d.pc # "InstallRatchet"
    <3> HIDE DEF d, c, h
    <3>1. d \in CallRecord /\ d.pc = "StoreDecryptor" /\ d.then = c.then /\ d.session = c.session
      BY <1>1, <2>2, <2>3, SetRatchetCall
    <3> QED  BY <1>1, <3>1 DEF Sensible
  <2>5. Plain(g, d)
    <3>1. ~Installing(g) /\ UNCHANGED <<ratchets, of, live, session, epoch, members>>
      BY <1>2 DEF NewDecryptor, At, Installing, libdave, controller
    <3> HIDE DEF d
    <3> QED  BY <2>1, <2>4, <3>1 DEF Plain
  <2>6. TypeOK'
    BY <1>2 DEF NewDecryptor, At, IInv, TypeOK, Open, libdave, connection, controller
  <2> HIDE DEF d
  <2> QED  BY <2>5, <2>6, PlainStep DEF IInv
<1>3. CASE StoreDecryptor(g)
  <2>1. Plain(g, Idle)
    BY <1>3, IdleCall DEF StoreDecryptor, At, Return, Plain, Installing, libdave
  <2>2. decryptors' \in [Ssrcs -> Handles \cup {NoRatchet, NoDecryptor}]
    BY <1>1, <1>3 DEF StoreDecryptor, IInv, TypeOK
  <2>3. TypeOK'
    BY <1>3, <2>2 DEF StoreDecryptor, At, IInv, TypeOK, Open, libdave, connection
  <2> QED  BY <2>1, <2>3, PlainStep DEF IInv
<1> QED  BY <1>2, <1>3

-------------------------------------------------------------------------------
(* The end of the connection.                                                 *)

LEMMA DetachInv ==
  ASSUME IInv, settled' \in BOOLEAN, Detach
  PROVE  IInv'
<1>1. UNCHANGED <<call, ratchets, of, live, session, epoch, members>>
  BY DEF Detach, controller, libdave
<1>2. CallsInv' /\ Owned' /\ SessionInv'
  BY <1>1, SameCalls DEF IInv, SessionInv
<1>3. late' \subseteq Goroutines
  BY DEF Detach
<1>4. TypeOK'
  BY <1>3 DEF Detach, IInv, TypeOK, Open, controller, libdave
<1> QED  BY <1>2, <1>4 DEF IInv

\* Close destroys the ratchets of the map and the session.
LEMMA CloseEffect ==
  ASSUME IInv, Close
  PROVE  /\ live' = {} /\ session' = 0
         /\ Open' = Open \ {ratchets[u] : u \in Users}
         /\ \A u \in Users : ratchets'[u] = NoRatchet
         /\ UNCHANGED call
BY DEF Close, IInv, SessionInv, Open, Destroyed

LEMMA CloseInv ==
  ASSUME IInv, settled' \in BOOLEAN, Close
  PROVE  IInv'
<1>1. UNCHANGED <<call, epoch, members>> /\ live' = {} /\ session' = 0
  BY CloseEffect DEF Close
<1>2. CallsInv' /\ SessionInv'
  BY <1>1 DEF IInv, CallsInv, SessionInv, Sensible
<1>3. Owned'
  <2>1. ASSUME NEW g \in Goroutines, call[g].pc = "InstallRatchet"
        PROVE  /\ call[g].ratchet \in Open' /\ call[g].ratchet.user = call[g].user
               /\ \A u \in Users : ratchets'[u] # call[g].ratchet
               /\ \A h \in Goroutines :
                    h # g /\ call[h].pc = "InstallRatchet" => call[h].ratchet # call[g].ratchet
    <3>1. /\ call[g].ratchet \in Open /\ call[g].ratchet.user = call[g].user
          /\ \A u \in Users : ratchets[u] # call[g].ratchet
          /\ \A h \in Goroutines :
               h # g /\ call[h].pc = "InstallRatchet" => call[h].ratchet # call[g].ratchet
      BY <2>1 DEF IInv, Owned, Installing
    <3>2. call[g].ratchet # NoRatchet
      BY <3>1, NoHandle DEF IInv, TypeOK
    <3> QED  BY <3>1, <3>2, CloseEffect
  <2>2. ASSUME NEW k \in Open'
        PROVE  \E g \in Goroutines : call[g].pc = "InstallRatchet" /\ call[g].ratchet = k
    BY CloseEffect DEF IInv, Owned, Installing
  <2> QED  BY <1>1, <2>1, <2>2, CloseEffect DEF Owned, Installing
<1>4. TypeOK'
  <2>1. of' \in [Open' -> 1..MaxEpoch] /\ Open' \subseteq Handles
    BY CloseEffect DEF Close, Destroyed, IInv, TypeOK
  <2>2. ratchets' \in [Users -> Handles \cup {NoRatchet}]
    BY DEF Close
  <2>3. decryptors' \in [Ssrcs -> Handles \cup {NoRatchet, NoDecryptor}]
    BY DEF Close
  <2>4. {attached, closed, encryptor, outboundSet, settled}' \subseteq BOOLEAN
    BY DEF Close, IInv, TypeOK
  <2>5. encKey' = NoRatchet /\ UNCHANGED <<late, proto, epoch, members, ssrcUsers>>
    BY DEF Close
  <2> QED  BY <1>1, <2>1, <2>2, <2>3, <2>4, <2>5 DEF IInv, TypeOK
<1> QED  BY <1>2, <1>3, <1>4 DEF IInv

-------------------------------------------------------------------------------
(* The theorems.                                                              *)

LEMMA SettledBoolean == Watch => settled' \in BOOLEAN
BY DEF Watch

LEMMA NextInv == IInv /\ [Next]_vars => IInv'
<1> SUFFICES ASSUME IInv, [Next]_vars PROVE IInv'
  OBVIOUS
<1>1. CASE UNCHANGED vars
  <2>1. TypeOK'
    BY <1>1 DEF vars, controller, libdave, connection, IInv, TypeOK, Open
  <2>2. CallsInv' /\ Owned' /\ SessionInv'
    BY <1>1, SameCalls DEF vars, controller, libdave, IInv, SessionInv
  <2> QED  BY <2>1, <2>2 DEF IInv
<1>2. CASE Next
  <2>0. settled' \in BOOLEAN
    BY <1>2, SettledBoolean DEF Next
  <2>1. CASE Messages
    BY <2>0, <2>1, MessagesInv
  <2>2. CASE Frames
    BY <2>0, <2>2, FramesInv
  <2>3. CASE Ratchets
    BY <2>0, <2>3, GetKeyRatchetInv, InstallRatchetInv, DecryptorInv DEF Ratchets
  <2>4. CASE Detach
    BY <2>0, <2>4, DetachInv
  <2>5. CASE Close
    BY <2>0, <2>5, CloseInv
  <2> QED  BY <1>2, <2>1, <2>2, <2>3, <2>4, <2>5 DEF Next
<1> QED  BY <1>1, <1>2

\* The inductive invariant holds in every reachable state.
THEOREM Inductive == Spec => []IInv
BY InitInv, NextInv, PTL DEF Spec

\* The controller's state has its type, and c.session is never a destroyed one.
THEOREM TypeCorrect == Spec => []TypeOK
<1>1. IInv => TypeOK
  BY DEF IInv
<1> QED  BY <1>1, Inductive, PTL

\* The map holds only live ratchets, each for its user, and none is lost: what
\* is live is in the map or in the hands of a call.
THEOREM RatchetsKept == Spec => []HandlesKept
<1>1. IInv => HandlesKept
  BY DEF IInv, Owned, HandlesKept, Held, Installing
<1> QED  BY <1>1, Inductive, PTL

\* Close of the controller releases the session and every ratchet but those
\* that a call under way is about to install.
THEOREM CloseReleasesAll == Spec => CloseReleases
<1>1. IInv /\ [Next]_vars => [closed' # closed => live' = {} /\ Open' \subseteq Held]_vars
  <2> SUFFICES ASSUME IInv, Next, closed' # closed
               PROVE  live' = {} /\ Open' \subseteq Held
    BY DEF vars, connection
  <2>1. Messages => closed' = closed
    BY DEF Messages, PrepareTransition, SetVersion, Negotiate, HandleMLSCommitTransition,
           HandleMLSWelcome, EnsureSession, Reject, IgnoreCommit, Process, Refresh, Refreshed,
           EnsureOutboundRatchet, ClientDisconnected, HandleSpeakingUpdate, connection
  <2>2. Frames => closed' = closed
    BY DEF Frames, DecryptOpus, EncryptOpus, NewEncryptor, FlagOutbound, SetKeyRatchet,
           Encrypt, connection
  <2>3. Ratchets => closed' = closed
    BY DEF Ratchets, GetKeyRatchet, InstallRatchet, NewDecryptor, StoreDecryptor, connection
  <2>4. Detach => closed' = closed
    BY DEF Detach
  <2>5. Close
    BY <2>1, <2>2, <2>3, <2>4 DEF Next
  <2>6. \A k \in Open' : \E g \in Goroutines : call[g].ratchet = k
    BY <2>5, CloseEffect DEF IInv, Owned
  <2> QED  BY <2>5, <2>6, CloseEffect DEF Held
<1> QED  BY <1>1, Inductive, PTL DEF Spec, CloseReleases

-------------------------------------------------------------------------------
(* The keys in use.  What each goroutine's calls look like, and what relates  *)
(* them to the map, the encryptor and the decryptors while no two calls that  *)
(* change keys overlap.                                                       *)

Asking(c) == c.pc \in {"GetKeyRatchet", "InstallRatchet"}
Plainly(c) == ~Asking(c) => c.then = "Idle"

SenderRole ==
  /\ call[Sender].pc \in {"Idle", "GetKeyRatchet", "InstallRatchet", "NewEncryptor", "Flag",
                          "SetKeyRatchet", "Encrypt"}
  /\ Asking(call[Sender]) => call[Sender].user = Me /\ call[Sender].then \in {"NewEncryptor", "Flag"}
  /\ Plainly(call[Sender])
ReceiverRole ==
  /\ call[Receiver].pc \in {"Idle", "GetKeyRatchet", "InstallRatchet", "NewDecryptor", "StoreDecryptor"}
  /\ Asking(call[Receiver]) => call[Receiver].user \in Others /\ call[Receiver].then = "NewDecryptor"
  /\ call[Receiver].pc # "Idle" => call[Receiver].ssrc \in Ssrcs
  /\ Plainly(call[Receiver])
ReaderRole ==
  /\ call[Reader].pc \in {"Idle", "SetVersion", "Commit", "Welcome", "Refresh", "Outbound",
                          "GetKeyRatchet", "InstallRatchet", "NewDecryptor", "StoreDecryptor"}
  /\ Asking(call[Reader]) => \/ call[Reader].then = "Idle" /\ call[Reader].user = Me
                             \/ call[Reader].then = "Refresh"
                             \/ call[Reader].then = "NewDecryptor" /\ call[Reader].user \in Others
  /\ call[Reader].then = "NewDecryptor" \/ call[Reader].pc \in {"NewDecryptor", "StoreDecryptor"}
       => call[Reader].ssrc \in Ssrcs
  /\ call[Reader].want # {} => call[Reader].pc = "Refresh" \/ call[Reader].then = "Refresh"
  /\ Plainly(call[Reader])
Roles == SenderRole /\ ReceiverRole /\ ReaderRole

\* A controller that is not closed has one session, and its calls know it.
Groups ==
  /\ \A s \in Sessions : members[s] # {} => Me \in members[s]
  /\ ~closed => session # 2 /\ \A s \in Sessions : s # session => members[s] = {}
  /\ ~closed => \A g \in Goroutines :
       Asking(call[g]) \/ call[g].pc = "Refresh" => call[g].session = session

\* The users refreshRatchets has yet to renew; of a member that succeeds.
Pending(u) ==
  u \in call[Reader].want \/ (call[Reader].then = "Refresh" /\ call[Reader].user = u)
Renewed(u) == session # 0 /\ u \in members[session] /\ Pending(u)

Alone == Changing(Reader) => ~Changing(Sender) /\ ~Changing(Receiver)

RatchetsCurrent == session # 0 => \A u \in members[session] :
  ratchets[u] # NoRatchet => of[ratchets[u]] = epoch[session] \/ Pending(u)
OwnRatchet == session # 0 /\ members[session] # {} => ratchets[Me] # NoRatchet \/ Pending(Me)
EncryptorCurrent == outboundSet =>
  \/ encryptor /\ encKey = ratchets[Me]
  \/ Renewed(Me)
  \/ call[Sender].pc = "SetKeyRatchet"
DecryptorsCurrent == \A x \in Ssrcs : decryptors[x] # NoDecryptor =>
  /\ ssrcUsers[x] # None
  /\ decryptors[x] = ratchets[ssrcUsers[x]] \/ Renewed(ssrcUsers[x])
Obtained == \A g \in Goroutines : call[g].pc = "InstallRatchet" => of[call[g].ratchet] = epoch[session]
SpeakerCalls == \A g \in {Reader, Receiver} :
  /\ call[g].then = "NewDecryptor" => ssrcUsers[call[g].ssrc] = call[g].user
  /\ call[g].pc \in {"NewDecryptor", "StoreDecryptor"} =>
       /\ ssrcUsers[call[g].ssrc] # None /\ call[g].ratchet # NoRatchet
       /\ call[g].ratchet = ratchets[ssrcUsers[call[g].ssrc]]
SenderCalls ==
  /\ call[Sender].pc \in {"Flag", "SetKeyRatchet"} \/ call[Sender].then = "Flag" => encryptor
  /\ call[Sender].pc \in {"NewEncryptor", "Flag", "SetKeyRatchet"} =>
       call[Sender].ratchet # NoRatchet /\ call[Sender].ratchet = ratchets[Me]
Uses == RatchetsCurrent /\ OwnRatchet /\ EncryptorCurrent /\ DecryptorsCurrent
Keys == Uses /\ Obtained /\ SpeakerCalls /\ SenderCalls

KInv == Roles /\ Groups /\ (settled /\ ~closed => Alone /\ Keys)

\* What Watch grants a step after which the controller is still settled.
Wary ==
  /\ Alone'
  /\ Changing(Sender)' \/ Changing(Receiver)' => ssrcUsers' = ssrcUsers /\ ~Forgets

\* A step that does not renew the keys has to keep them current.
Kept == Roles' /\ Groups' /\ epoch' = epoch /\ (~closed' /\ Alone /\ Keys /\ Wary => Keys')

LEMMA WatchFacts ==
  ASSUME Watch, settled'
  PROVE  (settled \/ Renewing) /\ Wary
<1>1. (settled \/ Renewing) /\ ~Overlap
  BY DEF Watch
<1>2. Alone' /\ (Changing(Sender)' \/ Changing(Receiver)' => ssrcUsers' = ssrcUsers /\ ~Forgets)
  BY <1>1 DEF Overlap, Alone
<1> QED  BY <1>1, <1>2 DEF Wary

\* The fields of a call.
Has(c, pc, then, user, ssrc, s, h, want) ==
  /\ c.pc = pc /\ c.then = then /\ c.user = user /\ c.ssrc = ssrc
  /\ c.session = s /\ c.ratchet = h /\ c.want = want

LEMMA IdleFields == Has(Idle, "Idle", "Idle", None, 0, 0, NoRatchet, {})
BY DEF Has, Idle

LEMMA CallTypes ==
  ASSUME IInv
  PROVE  \A g \in Goroutines : call[g] \in CallRecord /\ Sensible(call[g])
BY DEF IInv, CallsInv

LEMMA CallsAfter ==
  ASSUME IInv, NEW g \in Goroutines, NEW c, GoTo(g, c)
  PROVE  call'[g] = c /\ \A i \in Goroutines : i # g => call'[i] = call[i]
BY DEF IInv, CallsInv, GoTo

LEMMA ReaderAtRest ==
  ASSUME Roles, call[Reader].pc \notin {"Refresh", "GetKeyRatchet", "InstallRatchet"}
  PROVE  /\ call[Reader].want = {} /\ call[Reader].then = "Idle"
         /\ \A u : ~Pending(u) /\ ~Renewed(u)
BY DEF Roles, ReaderRole, Plainly, Asking, Pending, Renewed

LEMMA ReaderAlone ==
  ASSUME Roles, Alone, call[Sender].pc \notin {"Idle", "Encrypt"} \/ call[Receiver].pc # "Idle"
  PROVE  call[Reader].pc \in {"Idle", "SetVersion", "Commit", "Welcome"}
BY DEF Roles, SenderRole, ReceiverRole, ReaderRole, Alone, Changing

LEMMA OthersAlone ==
  ASSUME Roles, Alone, call[Reader].pc \notin {"Idle", "SetVersion", "Commit", "Welcome"}
  PROVE  /\ call[Sender].pc \in {"Idle", "Encrypt"} /\ call[Receiver].pc = "Idle"
         /\ call[Sender].then = "Idle" /\ call[Receiver].then = "Idle"
BY DEF Roles, SenderRole, ReceiverRole, ReaderRole, Alone, Changing, Plainly, Asking

\* The state the keys are related in.
keys == <<closed, epoch, members, ratchets, of, encryptor, encKey, outboundSet, ssrcUsers, decryptors>>

\* The reader's handlers, but for those that follow.
LEMMA ReaderKept ==
  ASSUME IInv, Roles, Groups, NEW c, GoTo(Reader, c), UNCHANGED keys,
         call[Reader].pc \notin {"GetKeyRatchet", "InstallRatchet"}, call[Reader].want = {},
         c.then = "Idle", c.want = {},
         \/ c.pc \in {"Idle", "SetVersion", "Commit", "Welcome", "Outbound"}
         \/ c.pc = "GetKeyRatchet" /\ c.user = Me /\ c.session = session /\ session # 0,
         \/ session' = session
         \/ session = 0 /\ session' = IF closed THEN 2 ELSE 1
  PROVE  Kept
<1>1. /\ call'[Reader] = c /\ call'[Sender] = call[Sender] /\ call'[Receiver] = call[Receiver]
      /\ Reader \in Goroutines /\ Sender \in Goroutines /\ Receiver \in Goroutines
  BY CallsAfter DEF Reader, Sender, Receiver
<1>2. Roles'
  <2>1. ReaderRole'
    BY <1>1 DEF ReaderRole, Plainly, Asking
  <2>2. SenderRole' /\ ReceiverRole'
    BY <1>1 DEF Roles, SenderRole, ReceiverRole, Plainly, Asking
  <2> QED  BY <2>1, <2>2 DEF Roles
<1>3. /\ call[Reader].then = "Idle" /\ \A u : ~Pending(u) /\ ~Renewed(u)
      /\ \A u : ~Pending(u)'
  BY <1>1 DEF Roles, ReaderRole, Plainly, Asking, Pending, Renewed
<1>4. \A g \in Goroutines : Asking(call[g]) => call[g].session # 0
  BY CallTypes DEF Sensible, Asking
<1>5. Groups'
  <2>1. ~closed /\ session = 0 => \A g \in Goroutines : ~Asking(call[g])
    BY <1>4 DEF Groups
  <2>2. ~closed => session' # 2 /\ (session' = session \/ session = 0)
    BY DEF Groups
  <2>3. \A g \in Goroutines : g # Reader => call'[g] = call[g]
    BY <1>1 DEF Reader, Sender, Receiver
  <2>4. ~closed => \A g \in Goroutines :
          Asking(call'[g]) \/ call'[g].pc = "Refresh" => call'[g].session = session'
    <3>1. ~closed => (Asking(c) \/ c.pc = "Refresh" => c.session = session')
      BY DEF Asking
    <3>2. \A g \in Goroutines : g # Reader => call[g].pc # "Refresh"
      BY DEF Roles, SenderRole, ReceiverRole, Reader, Sender, Receiver
    <3> QED  BY <1>1, <2>1, <2>2, <2>3, <3>1, <3>2 DEF Groups
  <2>5. \A s \in Sessions : members'[s] # {} => Me \in members'[s]
    BY DEF Groups, keys
  <2>6. ~closed => \A s \in Sessions : s # session' => members'[s] = {}
    BY <2>2 DEF Groups, keys
  <2> QED  BY <2>2, <2>4, <2>5, <2>6 DEF Groups, keys, Asking
<1>6. ASSUME ~closed, Alone, Keys, Wary PROVE Keys'
  <2>1. session' # session => members'[session'] = {} /\ \A g \in Goroutines : call[g].pc # "InstallRatchet"
    BY <1>4, <1>6 DEF Groups, Asking, keys
  <2>2. RatchetsCurrent' /\ OwnRatchet'
    BY <1>3, <1>6, <2>1 DEF Keys, Uses, RatchetsCurrent, OwnRatchet, keys
  <2>3. EncryptorCurrent'
    BY <1>1, <1>3, <1>6 DEF Keys, Uses, EncryptorCurrent, keys
  <2>4. DecryptorsCurrent'
    BY <1>3, <1>6 DEF Keys, Uses, DecryptorsCurrent, keys
  <2>5. Obtained'
    BY <1>1, <1>6, <2>1 DEF Keys, Obtained, keys, Reader, Sender, Receiver
  <2>6. SpeakerCalls'
    BY <1>1, <1>6 DEF Keys, SpeakerCalls, keys
  <2>7. SenderCalls'
    BY <1>1, <1>6 DEF Keys, SenderCalls, keys
  <2> QED  BY <2>2, <2>3, <2>4, <2>5, <2>6, <2>7 DEF Keys, Uses
<1> QED  BY <1>2, <1>5, <1>6 DEF Kept, keys

\* The handlers that leave the keys alone.
LEMMA RestKept ==
  ASSUME IInv, Roles, Groups,
         \/ PrepareTransition \/ SetVersion \/ Negotiate \/ HandleMLSCommitTransition
         \/ HandleMLSWelcome \/ Reject \/ IgnoreCommit \/ Refreshed \/ EnsureOutboundRatchet
  PROVE  Kept
<1>1. ASSUME NEW c, EnsureSession(c), c.then = "Idle", c.want = {},
             c.pc \in {"Idle", "SetVersion", "Commit", "Welcome"}
      PROVE  Kept
  <2>1. PICK d \in {c, Idle} : GoTo(Reader, d)
    BY <1>1 DEF EnsureSession, Return
  <2>2. call[Reader] = Idle /\ UNCHANGED keys
    BY <1>1 DEF EnsureSession, Enter, keys, connection
  <2>3. session' = session \/ (session = 0 /\ session' = IF closed THEN 2 ELSE 1)
    BY <1>1 DEF EnsureSession, HaveSession, NoGroup
  <2>4. d.then = "Idle" /\ d.want = {} /\ d.pc \in {"Idle", "SetVersion", "Commit", "Welcome"}
    BY <1>1, <2>1, IdleFields DEF Has
  <2> QED  BY <2>1, <2>2, <2>3, <2>4, IdleFields, ReaderKept DEF Has
<1>2. CASE PrepareTransition
  <2>1. PICK v \in 0..1 : EnsureSession([Idle EXCEPT !.pc = "SetVersion", !.version = v])
    BY <1>2 DEF PrepareTransition
  <2>2. LET c == [Idle EXCEPT !.pc = "SetVersion", !.version = v]
        IN  c.pc = "SetVersion" /\ c.then = "Idle" /\ c.want = {}
    BY DEF Idle
  <2> QED  BY <1>1, <2>1, <2>2
<1>3. CASE Negotiate
  BY <1>1, <1>3, IdleFields DEF Negotiate, Has
<1>4. CASE HandleMLSCommitTransition
  <2>1. LET c == [Idle EXCEPT !.pc = "Commit"] IN c.pc = "Commit" /\ c.then = "Idle" /\ c.want = {}
    BY DEF Idle
  <2> QED  BY <1>1, <1>4, <2>1 DEF HandleMLSCommitTransition
<1>5. CASE HandleMLSWelcome
  <2>1. LET c == [Idle EXCEPT !.pc = "Welcome"] IN c.pc = "Welcome" /\ c.then = "Idle" /\ c.want = {}
    BY DEF Idle
  <2> QED  BY <1>1, <1>5, <2>1 DEF HandleMLSWelcome
<1>6. CASE SetVersion
  <2>1. call[Reader].pc = "SetVersion" /\ GoTo(Reader, Idle) /\ UNCHANGED keys /\ session' = session
    BY <1>6 DEF SetVersion, At, Return, keys, libdave, connection
  <2> QED  BY <2>1, IdleFields, ReaderAtRest, ReaderKept DEF Has
<1>7. CASE Reject
  <2>1. /\ call[Reader].pc \in {"Commit", "Welcome"} /\ GoTo(Reader, Idle)
        /\ UNCHANGED keys /\ session' = session
    BY <1>7 DEF Reject, At, Return, keys, libdave, connection, controller
  <2> QED  BY <2>1, IdleFields, ReaderAtRest, ReaderKept DEF Has
<1>8. CASE IgnoreCommit \/ Refreshed
  <2> DEFINE c == [Idle EXCEPT !.pc = "Outbound"]
  <2>1. c.pc = "Outbound" /\ c.then = "Idle" /\ c.want = {}
    BY DEF Idle
  <2>2. GoTo(Reader, c) /\ UNCHANGED keys /\ session' = session
    BY <1>8 DEF IgnoreCommit, Refreshed, At, keys, libdave, connection, controller
  <2>3. \/ call[Reader].pc = "Commit"
        \/ call[Reader].pc = "Refresh" /\ call[Reader].want = {}
    BY <1>8 DEF IgnoreCommit, Refreshed, At
  <2> HIDE DEF c
  <2> QED  BY <2>1, <2>2, <2>3, ReaderAtRest, ReaderKept
<1>9. CASE EnsureOutboundRatchet
  <2> DEFINE c == [Idle EXCEPT !.pc = "GetKeyRatchet", !.user = Me, !.session = session]
  <2>1. /\ call[Reader].pc = "Outbound" /\ UNCHANGED keys /\ session' = session
        /\ GoTo(Reader, Idle) \/ (session # 0 /\ GoTo(Reader, c))
    BY <1>9 DEF EnsureOutboundRatchet, At, Return, keys, libdave, connection, controller
  <2>2. /\ c.pc = "GetKeyRatchet" /\ c.then = "Idle" /\ c.want = {}
        /\ c.user = Me /\ c.session = session
    BY DEF Idle
  <2> HIDE DEF c
  <2> QED  BY <2>1, <2>2, IdleFields, ReaderAtRest, ReaderKept DEF Has
<1> QED  BY <1>2, <1>3, <1>4, <1>5, <1>6, <1>7, <1>8, <1>9

\* A new epoch: the users of its roster and the speakers are to be renewed.
LEMMA ProcessKept ==
  ASSUME IInv, Roles, Groups, Process
  PROVE  /\ Roles' /\ Groups'
         /\ ~closed' /\ ((Alone /\ Keys) \/ Renewing) /\ Wary => Keys'
<1>1. PICK roster \in SUBSET Users :
        /\ Me \in roster
        /\ epoch' = [epoch EXCEPT ![session] = @ + 1]
        /\ members' = [members EXCEPT ![session] = roster]
        /\ GoTo(Reader, Refreshing(session, (roster \cup {ssrcUsers[x] : x \in Ssrcs}) \ {None}))
  BY DEF Process
<1> DEFINE want == (roster \cup {ssrcUsers[x] : x \in Ssrcs}) \ {None}
           c == Refreshing(session, want)
<1>2. c.pc = "Refresh" /\ c.then = "Idle" /\ c.session = session /\ c.want = want
  BY DEF Refreshing, Idle
<1>3. /\ session \in Sessions /\ call[Reader].pc \in {"Commit", "Welcome"}
      /\ UNCHANGED <<closed, session, ratchets, of, encryptor, encKey, outboundSet, ssrcUsers, decryptors>>
  BY DEF Process, At, IInv, TypeOK, connection, controller
<1> HIDE DEF c
<1>4. /\ call'[Reader] = c /\ call'[Sender] = call[Sender] /\ call'[Receiver] = call[Receiver]
      /\ Reader \in Goroutines /\ Sender \in Goroutines /\ Receiver \in Goroutines
  BY <1>1, CallsAfter DEF Reader, Sender, Receiver, c
<1>5. Roles'
  <2>1. ReaderRole'
    BY <1>2, <1>4 DEF ReaderRole, Plainly, Asking
  <2>2. SenderRole' /\ ReceiverRole'
    BY <1>4 DEF Roles, SenderRole, ReceiverRole, Plainly, Asking
  <2> QED  BY <2>1, <2>2 DEF Roles
<1>6. /\ members'[session] = roster /\ None \notin roster
      /\ \A s \in Sessions : s # session => members'[s] = members[s]
  BY <1>1, <1>3, DaveAssumption DEF IInv, TypeOK
<1>7. Groups'
  <2>1. \A g \in Goroutines : g # Reader => call'[g] = call[g]
    BY <1>4 DEF Reader, Sender, Receiver
  <2>2. ~closed => \A g \in Goroutines :
          Asking(call'[g]) \/ call'[g].pc = "Refresh" => call'[g].session = session
    BY <1>2, <1>4, <2>1 DEF Groups
  <2>3. \A s \in Sessions : members'[s] # {} => Me \in members'[s]
    BY <1>1, <1>6 DEF Groups
  <2>4. ~closed => session' # 2 /\ \A s \in Sessions : s # session' => members'[s] = {}
    BY <1>3, <1>6 DEF Groups
  <2> QED  BY <1>3, <2>2, <2>3, <2>4 DEF Groups, Asking
<1>8. ASSUME ~closed, (Alone /\ Keys) \/ Renewing, Wary PROVE Keys'
  <2>1. \A u \in roster : Pending(u)' /\ Renewed(u)'
    BY <1>2, <1>3, <1>4, <1>6 DEF Pending, Renewed
  <2>2. /\ call[Sender].pc \in {"Idle", "Encrypt"} /\ call[Receiver].pc = "Idle"
        /\ call[Sender].then = "Idle" /\ call[Receiver].then = "Idle"
    <3>1. call'[Reader].pc \notin {"Idle", "SetVersion", "Commit", "Welcome"}
      BY <1>2, <1>4
    <3>2. Alone'
      BY <1>8 DEF Wary
    <3>3. call'[Sender].pc \in {"Idle", "SetVersion", "Commit", "Welcome", "Encrypt"}
          /\ call'[Receiver].pc \in {"Idle", "SetVersion", "Commit", "Welcome", "Encrypt"}
      BY <1>2, <1>4, <3>2 DEF Alone, Changing
    <3> QED  BY <1>4, <3>3 DEF Roles, SenderRole, ReceiverRole, Plainly, Asking
  <2>3. RatchetsCurrent' /\ OwnRatchet'
    BY <1>1, <1>3, <1>6, <2>1 DEF RatchetsCurrent, OwnRatchet
  <2>4. EncryptorCurrent'
    BY <1>1, <2>1 DEF EncryptorCurrent
  <2>5. DecryptorsCurrent'
    <3>1. ASSUME NEW x \in Ssrcs, decryptors[x] # NoDecryptor
          PROVE  ssrcUsers[x] # None /\ (decryptors[x] = ratchets[ssrcUsers[x]] \/ ssrcUsers[x] \in roster)
      <4>1. CASE Keys
        <5>1. ~Renewed(ssrcUsers[x])
          BY <1>3, ReaderAtRest
        <5> QED  BY <3>1, <4>1, <5>1 DEF Keys, Uses, DecryptorsCurrent
      <4>2. CASE Renewing
        BY <1>6, <3>1, <4>2 DEF Renewing
      <4> QED  BY <1>8, <4>1, <4>2
    <3>2. \A x \in Ssrcs : ssrcUsers[x] \in roster => Renewed(ssrcUsers[x])'
      BY <1>3, <2>1 DEF Renewed
    <3> QED  BY <1>3, <3>1, <3>2 DEF DecryptorsCurrent
  <2>6. \A g \in Goroutines : call'[g].pc \in {"Idle", "Encrypt", "Refresh"} /\ call'[g].then = "Idle"
    BY <1>2, <1>4, <2>2 DEF Reader, Sender, Receiver
  <2>7. Obtained' /\ SpeakerCalls'
    BY <1>4, <2>6 DEF Obtained, SpeakerCalls
  <2>8. SenderCalls'
    BY <1>4, <2>6 DEF SenderCalls
  <2> QED  BY <2>3, <2>4, <2>5, <2>7, <2>8 DEF Keys, Uses
<1> QED  BY <1>3, <1>5, <1>7, <1>8

\* refreshRatchets takes the next user.
LEMMA RefreshKept ==
  ASSUME IInv, Roles, Groups, Refresh
  PROVE  Kept
<1> DEFINE r == call[Reader]
<1>1. PICK u \in r.want :
        GoTo(Reader, [r EXCEPT !.pc = "GetKeyRatchet", !.then = "Refresh", !.user = u, !.want = @ \ {u}])
  BY DEF Refresh
<1> DEFINE c == [r EXCEPT !.pc = "GetKeyRatchet", !.then = "Refresh", !.user = u, !.want = @ \ {u}]
<1>2. r.pc = "Refresh" /\ r.then = "Idle" /\ r \in CallRecord
  BY CallTypes DEF Refresh, At, Roles, ReaderRole, Plainly, Asking, Reader
<1>3. /\ c.pc = "GetKeyRatchet" /\ c.then = "Refresh" /\ c.user = u /\ c.want = r.want \ {u}
      /\ c.session = r.session
  BY <1>2 DEF CallRecord
<1>4. UNCHANGED keys /\ session' = session
  BY DEF Refresh, keys, libdave, connection, controller
<1> HIDE DEF c
<1>5. /\ call'[Reader] = c /\ call'[Sender] = call[Sender] /\ call'[Receiver] = call[Receiver]
      /\ Reader \in Goroutines /\ Sender \in Goroutines /\ Receiver \in Goroutines
  BY <1>1, CallsAfter DEF Reader, Sender, Receiver, c
<1>6. Roles'
  <2>1. ReaderRole'
    BY <1>3, <1>5 DEF ReaderRole, Plainly, Asking
  <2>2. SenderRole' /\ ReceiverRole'
    BY <1>5 DEF Roles, SenderRole, ReceiverRole, Plainly, Asking
  <2> QED  BY <2>1, <2>2 DEF Roles
<1>7. Groups'
  <2>1. \A g \in Goroutines : g # Reader => call'[g] = call[g]
    BY <1>5 DEF Reader, Sender, Receiver
  <2>2. ~closed => \A g \in Goroutines :
          Asking(call'[g]) \/ call'[g].pc = "Refresh" => call'[g].session = session
    BY <1>2, <1>3, <1>5, <2>1 DEF Groups
  <2> QED  BY <1>4, <2>2 DEF Groups, keys, Asking
<1>8. ASSUME ~closed, Keys PROVE Keys'
  <2>1. \A v : Pending(v)' <=> Pending(v)
    BY <1>2, <1>3, <1>5 DEF Pending
  <2>2. \A v : Renewed(v)' <=> Renewed(v)
    BY <1>4, <2>1 DEF Renewed, keys
  <2>3. RatchetsCurrent' /\ OwnRatchet'
    BY <1>4, <1>8, <2>1 DEF Keys, Uses, RatchetsCurrent, OwnRatchet, keys
  <2>4. EncryptorCurrent' /\ DecryptorsCurrent'
    BY <1>4, <1>5, <1>8, <2>2 DEF Keys, Uses, EncryptorCurrent, DecryptorsCurrent, keys
  <2>5. Obtained'
    BY <1>3, <1>4, <1>5, <1>8 DEF Keys, Obtained, keys, Reader, Sender, Receiver
  <2>6. SpeakerCalls' /\ SenderCalls'
    BY <1>3, <1>4, <1>5, <1>8 DEF Keys, SpeakerCalls, SenderCalls, keys
  <2> QED  BY <2>3, <2>4, <2>5, <2>6 DEF Keys, Uses
<1> QED  BY <1>4, <1>6, <1>7, <1>8 DEF Kept, keys

\* A client leaves: its decryptors go with its ratchet.
LEMMA ClientDisconnectedKept ==
  ASSUME IInv, Roles, Groups, ClientDisconnected
  PROVE  Kept
<1>1. PICK u \in Others :
        /\ of' = Destroyed({ratchets[u]})
        /\ ratchets' = [ratchets EXCEPT ![u] = NoRatchet]
        /\ decryptors' = [x \in Ssrcs |-> IF ssrcUsers[x] = u THEN NoDecryptor ELSE decryptors[x]]
        /\ ssrcUsers' = [x \in Ssrcs |-> IF ssrcUsers[x] = u THEN None ELSE ssrcUsers[x]]
  BY ZenonT(30) DEF ClientDisconnected
<1>2. /\ call[Reader] = Idle
      /\ UNCHANGED <<closed, session, epoch, members, encryptor, encKey, outboundSet, call>>
  BY DEF ClientDisconnected, Enter, connection
<1>3. u \in Users /\ u # Me /\ Me \in Users
  BY DaveAssumption DEF Users
<1>4. /\ ratchets'[u] = NoRatchet /\ \A v \in Users : v # u => ratchets'[v] = ratchets[v]
      /\ ratchets \in [Users -> Handles \cup {NoRatchet}]
  BY <1>1, <1>3 DEF IInv, TypeOK
<1>5. \A h \in Open : h # ratchets[u] => of'[h] = of[h]
  BY <1>1 DEF Destroyed
<1>6. Roles' /\ Groups'
  BY <1>2 DEF Roles, SenderRole, ReceiverRole, ReaderRole, Plainly, Asking, Groups
<1>7. ASSUME ~closed, Keys, Wary PROVE Keys'
  <2>1. \A v : ~Pending(v) /\ ~Renewed(v) /\ ~Pending(v)' /\ ~Renewed(v)'
    BY <1>2, IdleFields, ReaderAtRest DEF Has, Pending, Renewed
  <2>2. \A s \in Sessions : members[s] \subseteq Users
    BY DEF IInv, TypeOK
  <2>3. ASSUME NEW v \in Users, ratchets'[v] # NoRatchet
        PROVE  ratchets'[v] = ratchets[v] /\ of'[ratchets[v]] = of[ratchets[v]]
    <3>1. v # u /\ ratchets'[v] = ratchets[v]
      BY <1>3, <1>4, <2>3
    <3>2. ratchets[v] \in Open /\ ratchets[v].user = v /\ (ratchets[u] # NoRatchet => ratchets[u].user = u)
      BY <1>3, <2>3, <3>1 DEF IInv, Owned
    <3>3. ratchets[v] # ratchets[u]
      BY <2>3, <3>1, <3>2
    <3> QED  BY <1>5, <3>1, <3>2, <3>3
  <2>4. RatchetsCurrent'
    <3>1. session # 0 => session \in Sessions
      BY DEF IInv, TypeOK
    <3> QED  BY <1>2, <1>7, <2>1, <2>2, <2>3, <3>1 DEF Keys, Uses, RatchetsCurrent
  <2>5. OwnRatchet' /\ EncryptorCurrent'
    BY <1>2, <1>3, <1>4, <1>7, <2>1 DEF Keys, Uses, OwnRatchet, EncryptorCurrent
  <2>6. DecryptorsCurrent'
    <3>1. ssrcUsers \in [Ssrcs -> Others \cup {None}]
      BY DEF IInv, TypeOK
    <3>2. \A x \in Ssrcs : decryptors'[x] # NoDecryptor =>
            ssrcUsers[x] # u /\ ssrcUsers'[x] = ssrcUsers[x] /\ decryptors'[x] = decryptors[x]
      BY <1>1, <3>1
    <3>3. \A x \in Ssrcs : decryptors'[x] # NoDecryptor => ratchets'[ssrcUsers[x]] = ratchets[ssrcUsers[x]]
      BY <1>4, <1>7, <3>1, <3>2 DEF Keys, Uses, DecryptorsCurrent, Users
    <3> QED  BY <1>7, <2>1, <3>2, <3>3 DEF Keys, Uses, DecryptorsCurrent
  <2>7. Obtained'
    <3>1. \A g \in Goroutines : call[g].pc = "InstallRatchet" =>
            call[g].ratchet \in Open /\ call[g].ratchet # ratchets[u]
      BY <1>3 DEF IInv, Owned, Installing
    <3> QED  BY <1>2, <1>5, <1>7, <3>1 DEF Keys, Obtained
  <2>8. SpeakerCalls'
    <3>1. call[Receiver].pc # "Idle" => ratchets' = ratchets /\ ssrcUsers' = ssrcUsers
      <4>1. call[Receiver].pc # "Idle" => Changing(Receiver)'
        BY <1>2 DEF Roles, ReceiverRole, Changing
      <4>2. Changing(Receiver)' => ssrcUsers' = ssrcUsers /\ ratchets[u] = NoRatchet
        BY <1>4, <1>7 DEF Wary, Forgets
      <4> QED  BY <1>1, <1>4, <4>1, <4>2
    <3>2. call[Receiver].pc = "Idle" => call[Receiver].then = "Idle"
      BY DEF Roles, ReceiverRole, Plainly, Asking
    <3> QED  BY <1>2, <1>7, <3>1, <3>2, IdleFields DEF Keys, SpeakerCalls, Has
  <2>9. SenderCalls'
    BY <1>2, <1>3, <1>4, <1>7 DEF Keys, SenderCalls
  <2> QED  BY <2>4, <2>5, <2>6, <2>7, <2>8, <2>9 DEF Keys, Uses
<1> QED  BY <1>2, <1>6, <1>7 DEF Kept

\* A call that needs a decryptor for the user of an SSRC.
Needs(c, u, x) ==
  /\ c.want = {} /\ c.ssrc = x
  /\ \/ /\ ratchets[u] = NoRatchet /\ session # 0
        /\ c.pc = "GetKeyRatchet" /\ c.then = "NewDecryptor" /\ c.user = u /\ c.session = session
     \/ /\ ratchets[u] # NoRatchet
        /\ c.pc = "NewDecryptor" /\ c.then = "Idle" /\ c.ratchet = ratchets[u]

LEMMA ToDecryptorNeeds ==
  ASSUME NEW g, NEW u, NEW x, session # 0, ToDecryptor(g, u, x)
  PROVE  \E c : GoTo(g, c) /\ Needs(c, u, x)
<1> DEFINE c == [Idle EXCEPT !.pc = "GetKeyRatchet", !.then = "NewDecryptor",
                             !.user = u, !.ssrc = x, !.session = session]
           d == [Idle EXCEPT !.pc = "NewDecryptor", !.ssrc = x, !.ratchet = ratchets[u]]
<1>1. /\ c.pc = "GetKeyRatchet" /\ c.then = "NewDecryptor" /\ c.user = u /\ c.session = session
      /\ c.want = {} /\ c.ssrc = x
  BY DEF Idle
<1>2. d.pc = "NewDecryptor" /\ d.then = "Idle" /\ d.ratchet = ratchets[u] /\ d.want = {} /\ d.ssrc = x
  BY DEF Idle
<1>3. IF ratchets[u] = NoRatchet THEN GoTo(g, c) ELSE GoTo(g, d)
  BY DEF ToDecryptor
<1> HIDE DEF c, d
<1> QED  BY <1>1, <1>2, <1>3 DEF Needs

\* The reader's or the receiver's call starts; the SSRC has its user by then.
LEMMA NeedsKept ==
  ASSUME IInv, Roles, Groups, NEW g \in {Reader, Receiver}, NEW c, NEW u \in Others, NEW x \in Ssrcs,
         call[g] = Idle, GoTo(g, c), Needs(c, u, x), ssrcUsers'[x] = u,
         g = Reader \/ ssrcUsers' = ssrcUsers,
         \A y \in Ssrcs : decryptors[y] # NoDecryptor => ssrcUsers[y] = None \/ ssrcUsers'[y] = ssrcUsers[y],
         UNCHANGED <<closed, session, epoch, members, ratchets, of, encryptor, encKey, outboundSet, decryptors>>
  PROVE  Kept
<1>1. /\ call'[g] = c /\ \A i \in Goroutines : i # g => call'[i] = call[i]
      /\ Reader \in Goroutines /\ Sender \in Goroutines /\ Receiver \in Goroutines /\ g \in Goroutines
      /\ Reader # Receiver /\ Reader # Sender /\ Sender # Receiver
  BY CallsAfter DEF Reader, Sender, Receiver
<1>2. /\ c.want = {} /\ c.ssrc = x /\ c.pc \in {"GetKeyRatchet", "NewDecryptor"}
      /\ c.pc = "GetKeyRatchet" => c.then = "NewDecryptor" /\ c.user = u /\ c.session = session
      /\ c.pc = "NewDecryptor" => c.then = "Idle" /\ c.ratchet = ratchets[u] /\ ratchets[u] # NoRatchet
  BY DEF Needs
<1>3. Roles'
  BY <1>1, <1>2 DEF Roles, SenderRole, ReceiverRole, ReaderRole, Plainly, Asking
<1>4. Groups'
  BY <1>1, <1>2 DEF Groups, Asking
<1>5. ASSUME ~closed, Keys, Wary, Alone PROVE Keys'
  <2>1. \A v : ~Pending(v)' /\ ~Renewed(v)' /\ ~Pending(v) /\ ~Renewed(v)
    <3>1. CASE g = Reader
      <4>1. \A v : ~Pending(v) /\ ~Renewed(v)
        BY <3>1, IdleFields, ReaderAtRest DEF Has
      <4>2. \A v : ~Pending(v)'
        BY <1>1, <1>2, <3>1 DEF Pending
      <4> QED  BY <4>1, <4>2 DEF Renewed
    <3>2. CASE g = Receiver
      <4>1. call'[Reader].pc \in {"Idle", "SetVersion", "Commit", "Welcome"}
        <5>1. Changing(Receiver)'
          BY <1>1, <1>2, <3>2 DEF Changing
        <5> QED  BY <1>3, <1>5, <5>1 DEF Wary, Alone, Changing, Roles, ReaderRole
      <4>2. \A v : ~Pending(v) /\ ~Renewed(v)
        BY <1>1, <3>2, <4>1, ReaderAtRest
      <4>3. call'[Reader] = call[Reader]
        BY <1>1, <3>2
      <4> QED  BY <4>2, <4>3 DEF Pending, Renewed
    <3> QED  BY <3>1, <3>2
  <2>2. RatchetsCurrent' /\ OwnRatchet'
    BY <1>5, <2>1 DEF Keys, Uses, RatchetsCurrent, OwnRatchet
  <2>3. EncryptorCurrent'
    BY <1>1, <1>5, <2>1 DEF Keys, Uses, EncryptorCurrent
  <2>4. DecryptorsCurrent'
    BY <1>5, <2>1 DEF Keys, Uses, DecryptorsCurrent
  <2>5. Obtained'
    BY <1>1, <1>2, <1>5 DEF Keys, Obtained
  <2>6. SenderCalls'
    BY <1>1, <1>5 DEF Keys, SenderCalls
  <2>7. SpeakerCalls'
    <3>1. u # None
      BY DaveAssumption DEF Users
    <3>2. /\ c.then = "NewDecryptor" => ssrcUsers'[c.ssrc] = c.user
          /\ c.pc \in {"NewDecryptor", "StoreDecryptor"} =>
               /\ ssrcUsers'[c.ssrc] # None /\ c.ratchet # NoRatchet
               /\ c.ratchet = ratchets[ssrcUsers'[c.ssrc]]
      BY <1>2, <3>1
    <3>3. ASSUME NEW i \in {Reader, Receiver}, i # g, call[i].pc # "Idle"
          PROVE  ssrcUsers' = ssrcUsers
      <4>1. CASE g = Reader
        <5>1. Changing(Receiver)'
          BY <1>1, <3>3, <4>1 DEF Roles, ReceiverRole, Changing
        <5> QED  BY <1>5, <5>1 DEF Wary
      <4> QED  BY <4>1
    <3>4. \A i \in {Reader, Receiver} : call[i].pc = "Idle" => call[i].then = "Idle"
      BY DEF Roles, ReceiverRole, ReaderRole, Plainly, Asking
    <3> QED  BY <1>1, <1>5, <3>2, <3>3, <3>4 DEF Keys, SpeakerCalls
  <2> QED  BY <2>2, <2>3, <2>4, <2>5, <2>6, <2>7 DEF Keys, Uses
<1> QED  BY <1>3, <1>4, <1>5 DEF Kept

LEMMA DecryptOpusKept ==
  ASSUME IInv, Roles, Groups, DecryptOpus
  PROVE  Kept
<1>1. PICK x \in Ssrcs :
        IF proto = 0 \/ decryptors[x] # NoDecryptor \/ session = 0 \/ ssrcUsers[x] = None
          THEN UNCHANGED call
          ELSE ToDecryptor(Receiver, ssrcUsers[x], x)
  BY DEF DecryptOpus
<1>2. call[Receiver] = Idle /\ UNCHANGED keys /\ session' = session
  BY DEF DecryptOpus, Enter, keys, libdave, connection, controller
<1>3. CASE UNCHANGED call
  BY <1>2, <1>3 DEF Kept, Roles, SenderRole, ReceiverRole, ReaderRole, Plainly, Asking, Groups, keys,
     Keys, Uses, RatchetsCurrent, OwnRatchet, EncryptorCurrent, DecryptorsCurrent, Obtained,
     SpeakerCalls, SenderCalls, Pending, Renewed
<1>4. CASE session # 0 /\ ssrcUsers[x] # None /\ ToDecryptor(Receiver, ssrcUsers[x], x)
  <2>1. ssrcUsers[x] \in Others
    BY <1>4 DEF IInv, TypeOK
  <2>2. PICK c : GoTo(Receiver, c) /\ Needs(c, ssrcUsers[x], x)
    BY <1>4, ToDecryptorNeeds
  <2> QED  BY <1>2, <2>1, <2>2, NeedsKept DEF keys
<1> QED  BY <1>1, <1>3, <1>4

LEMMA HandleSpeakingUpdateKept ==
  ASSUME IInv, Roles, Groups, HandleSpeakingUpdate
  PROVE  Kept
<1>1. PICK u \in Others, x \in Ssrcs :
        /\ ssrcUsers[x] \in {u, None}
        /\ ssrcUsers' = [ssrcUsers EXCEPT ![x] = u]
        /\ IF decryptors[x] # NoDecryptor \/ session = 0
             THEN UNCHANGED call
             ELSE ToDecryptor(Reader, u, x)
  BY DEF HandleSpeakingUpdate
<1>2. /\ call[Reader] = Idle
      /\ UNCHANGED <<closed, session, epoch, members, ratchets, of, encryptor, encKey, outboundSet, decryptors>>
  BY DEF HandleSpeakingUpdate, Enter, libdave, connection
<1>3. /\ ssrcUsers'[x] = u /\ u # None /\ \A y \in Ssrcs : y # x => ssrcUsers'[y] = ssrcUsers[y]
      /\ \A y \in Ssrcs : ssrcUsers[y] = None \/ ssrcUsers'[y] = ssrcUsers[y]
  BY <1>1, DaveAssumption DEF IInv, TypeOK, Users
<1>4. CASE UNCHANGED call
  <2>1. Roles' /\ Groups'
    BY <1>2, <1>4 DEF Roles, SenderRole, ReceiverRole, ReaderRole, Plainly, Asking, Groups
  <2>2. ASSUME ~closed, Keys, Wary PROVE Keys'
    <3>1. \A v : ~Pending(v)' /\ ~Renewed(v)' /\ ~Pending(v) /\ ~Renewed(v)
      BY <1>2, <1>4, IdleFields, ReaderAtRest DEF Has, Pending, Renewed
    <3>2. RatchetsCurrent' /\ OwnRatchet' /\ EncryptorCurrent'
      BY <1>2, <1>4, <2>2, <3>1 DEF Keys, Uses, RatchetsCurrent, OwnRatchet, EncryptorCurrent
    <3>3. DecryptorsCurrent'
      BY <1>2, <1>3, <2>2, <3>1 DEF Keys, Uses, DecryptorsCurrent
    <3>4. Obtained' /\ SenderCalls'
      BY <1>2, <1>4, <2>2 DEF Keys, Obtained, SenderCalls
    <3>5. SpeakerCalls'
      <4>1. call[Receiver].pc # "Idle" => ssrcUsers' = ssrcUsers
        <5>1. call[Receiver].pc # "Idle" => Changing(Receiver)'
          BY <1>4 DEF Roles, ReceiverRole, Changing
        <5> QED  BY <2>2, <5>1 DEF Wary
      <4>2. call[Receiver].pc = "Idle" => call[Receiver].then = "Idle"
        BY DEF Roles, ReceiverRole, Plainly, Asking
      <4> QED  BY <1>2, <1>4, <2>2, <4>1, <4>2, IdleFields DEF Keys, SpeakerCalls, Has
    <3> QED  BY <3>2, <3>3, <3>4, <3>5 DEF Keys, Uses
  <2> QED  BY <1>2, <2>1, <2>2 DEF Kept
<1>5. CASE session # 0 /\ ToDecryptor(Reader, u, x)
  <2>1. PICK c : GoTo(Reader, c) /\ Needs(c, u, x)
    BY <1>5, ToDecryptorNeeds
  <2> QED  BY <1>2, <1>3, <2>1, NeedsKept
<1> QED  BY <1>1, <1>4, <1>5

LEMMA SameReader ==
  ASSUME call'[Reader] = call[Reader], UNCHANGED <<session, members>>
  PROVE  \A v : (Pending(v)' <=> Pending(v)) /\ (Renewed(v)' <=> Renewed(v))
BY DEF Pending, Renewed

\* The reader or the receiver makes a decryptor and stores it.
LEMMA DecryptorKept ==
  ASSUME IInv, Roles, Groups, NEW g \in Goroutines, NewDecryptor(g) \/ StoreDecryptor(g)
  PROVE  Kept
<1> DEFINE r == call[g]
           x == r.ssrc
           h == IF r.ratchet \in Open THEN r.ratchet ELSE NoRatchet
           d == [r EXCEPT !.pc = "StoreDecryptor", !.ratchet = IF @ \in Open THEN @ ELSE NoRatchet]
<1>1. /\ r.pc \in {"NewDecryptor", "StoreDecryptor"} /\ r \in CallRecord
      /\ UNCHANGED <<closed, session, epoch, members, ratchets, of, encryptor, encKey, outboundSet, ssrcUsers>>
  BY CallTypes DEF NewDecryptor, StoreDecryptor, At, connection, controller, libdave
<1>2. g \in {Reader, Receiver} /\ g # Sender /\ Reader # Receiver
  BY <1>1 DEF Roles, SenderRole, Reader, Sender, Receiver
<1>3. r.then = "Idle" /\ x \in Ssrcs /\ (g = Reader => r.want = {})
  BY <1>1, <1>2 DEF Roles, ReaderRole, ReceiverRole, Plainly, Asking
<1>4. PICK c : /\ GoTo(g, c) /\ c.then = "Idle" /\ (g = Reader => c.want = {})
               /\ \/ /\ r.pc = "NewDecryptor" /\ decryptors' = decryptors
                     /\ c.pc = "StoreDecryptor" /\ c.ssrc = x /\ c.ratchet = h
                  \/ /\ c.pc = "Idle"
                     /\ \/ decryptors' = [decryptors EXCEPT ![x] = r.ratchet]
                        \/ decryptors' = decryptors
  <2>1. CASE NewDecryptor(g)
    <3>1. /\ d.pc = "StoreDecryptor" /\ d.then = r.then /\ d.ssrc = x /\ d.ratchet = h /\ d.want = r.want
      BY <1>1 DEF CallRecord
    <3>2. GoTo(g, d) /\ decryptors' = decryptors /\ r.pc = "NewDecryptor"
      BY <2>1 DEF NewDecryptor, controller, At
    <3> HIDE DEF d, h, r, x
    <3> QED  BY <1>3, <3>1, <3>2
  <2>2. CASE StoreDecryptor(g)
    <3>1. GoTo(g, Idle) /\ (decryptors' = [decryptors EXCEPT ![x] = r.ratchet] \/ decryptors' = decryptors)
      BY <2>2 DEF StoreDecryptor, Return
    <3> HIDE DEF d, h, r, x
    <3> QED  BY <3>1, IdleFields DEF Has
  <2> QED  BY <2>1, <2>2
<1>5. call'[g] = c /\ \A i \in Goroutines : i # g => call'[i] = call[i]
  BY <1>4, CallsAfter
<1>6. Reader \in Goroutines /\ Sender \in Goroutines /\ Receiver \in Goroutines
  BY DEF Reader, Sender, Receiver
<1>7. Roles'
  <2>1. ReaderRole'
    BY <1>2, <1>3, <1>4, <1>5, <1>6 DEF Roles, ReaderRole, Plainly, Asking
  <2>2. ReceiverRole'
    BY <1>2, <1>3, <1>4, <1>5, <1>6 DEF Roles, ReceiverRole, Plainly, Asking
  <2>3. SenderRole'
    BY <1>2, <1>5, <1>6 DEF Roles, SenderRole, Plainly, Asking
  <2> QED  BY <2>1, <2>2, <2>3 DEF Roles
<1>8. Groups'
  <2>1. ~closed => \A i \in Goroutines :
          Asking(call'[i]) \/ call'[i].pc = "Refresh" => call'[i].session = session
    BY <1>4, <1>5 DEF Groups, Asking
  <2> QED  BY <1>1, <2>1 DEF Groups, Asking
<1>9. ASSUME ~closed, Keys PROVE Keys'
  <2>1. \A v : (Pending(v)' <=> Pending(v)) /\ (Renewed(v)' <=> Renewed(v))
    <3>1. CASE g = Reader
      <4>1. \A v : ~Pending(v) /\ ~Renewed(v)
        BY <1>1, <3>1, ReaderAtRest
      <4>2. \A v : ~Pending(v)' /\ ~Renewed(v)'
        BY <1>4, <1>5, <3>1 DEF Pending, Renewed
      <4> QED  BY <4>1, <4>2
    <3>2. CASE g # Reader
      BY <1>1, <1>5, <1>6, <3>2, SameReader
    <3> QED  BY <3>1, <3>2
  <2>2. /\ ssrcUsers[x] # None /\ r.ratchet = ratchets[ssrcUsers[x]] /\ r.ratchet # NoRatchet
        /\ r.ratchet \in Open
    <3>1. /\ ssrcUsers[x] # None /\ r.ratchet = ratchets[ssrcUsers[x]] /\ r.ratchet # NoRatchet
      BY <1>1, <1>2, <1>9 DEF Keys, SpeakerCalls
    <3>2. ssrcUsers[x] \in Users
      BY <1>3, <3>1 DEF IInv, TypeOK, Users
    <3> QED  BY <3>1, <3>2 DEF IInv, Owned
  <2> HIDE DEF r, x, d
  <2>3. RatchetsCurrent' /\ OwnRatchet'
    BY <1>1, <1>9, <2>1 DEF Keys, Uses, RatchetsCurrent, OwnRatchet
  <2>4. EncryptorCurrent'
    BY <1>1, <1>2, <1>5, <1>6, <1>9, <2>1 DEF Keys, Uses, EncryptorCurrent
  <2>5. DecryptorsCurrent'
    <3>1. ASSUME NEW y \in Ssrcs, decryptors'[y] # NoDecryptor
          PROVE  ssrcUsers[y] # None /\ (decryptors'[y] = ratchets[ssrcUsers[y]] \/ Renewed(ssrcUsers[y]))
      <4>1. \/ decryptors'[y] = decryptors[y]
            \/ y = x /\ decryptors'[y] = r.ratchet
        BY <1>3, <1>4 DEF IInv, TypeOK
      <4>2. decryptors[y] # NoDecryptor =>
              ssrcUsers[y] # None /\ (decryptors[y] = ratchets[ssrcUsers[y]] \/ Renewed(ssrcUsers[y]))
        BY <1>9 DEF Keys, Uses, DecryptorsCurrent
      <4> QED  BY <2>2, <3>1, <4>1, <4>2
    <3> QED  BY <1>1, <2>1, <3>1 DEF DecryptorsCurrent
  <2>6. Obtained'
    BY <1>1, <1>4, <1>5, <1>9 DEF Keys, Obtained
  <2>7. SenderCalls'
    BY <1>1, <1>2, <1>5, <1>6, <1>9 DEF Keys, SenderCalls
  <2>8. SpeakerCalls'
    <3>1. c.pc # "NewDecryptor" /\ c.then # "NewDecryptor"
      BY <1>4
    <3>2. c.pc = "StoreDecryptor" => c.ssrc = x /\ c.ratchet = r.ratchet
      BY <1>4, <2>2 DEF h
    <3>3. \A i \in {Reader, Receiver} : i # g => call'[i] = call[i]
      BY <1>5, <1>6
    <3> QED  BY <1>1, <1>5, <1>9, <2>2, <3>1, <3>2, <3>3 DEF Keys, SpeakerCalls
  <2> QED  BY <2>3, <2>4, <2>5, <2>6, <2>7, <2>8 DEF Keys, Uses
<1> QED  BY <1>1, <1>7, <1>8, <1>9 DEF Kept

\* The sender's steps, but for those that get and install a ratchet.
LEMMA SenderKept ==
  ASSUME IInv, Roles, Groups, NEW c, GoTo(Sender, c),
         c.pc \in {"Idle", "GetKeyRatchet", "NewEncryptor", "Flag", "SetKeyRatchet", "Encrypt"},
         Plainly(c),
         Asking(c) => c.user = Me /\ c.then \in {"NewEncryptor", "Flag"} /\ c.session = session,
         UNCHANGED <<closed, session, epoch, members, ratchets, of, ssrcUsers, decryptors>>,
         ~closed /\ Keys => EncryptorCurrent' /\ SenderCalls'
  PROVE  Kept
<1>1. /\ call'[Reader] = call[Reader] /\ call'[Sender] = c /\ call'[Receiver] = call[Receiver]
      /\ Reader \in Goroutines /\ Sender \in Goroutines /\ Receiver \in Goroutines
  BY CallsAfter DEF Reader, Sender, Receiver
<1>2. Roles'
  <2>1. SenderRole'
    BY <1>1 DEF SenderRole, Plainly, Asking
  <2>2. ReaderRole' /\ ReceiverRole'
    BY <1>1 DEF Roles, ReaderRole, ReceiverRole, Plainly, Asking
  <2> QED  BY <2>1, <2>2 DEF Roles
<1>3. \A i \in Goroutines : i = Sender \/ call'[i] = call[i]
  BY <1>1 DEF Reader, Sender, Receiver
<1>4. Groups'
  <2>1. ~closed => \A i \in Goroutines :
          Asking(call'[i]) \/ call'[i].pc = "Refresh" => call'[i].session = session
    BY <1>1, <1>3 DEF Groups, Asking
  <2> QED  BY <2>1 DEF Groups, Asking
<1>5. ASSUME ~closed, Keys PROVE Keys'
  <2>1. \A v : (Pending(v)' <=> Pending(v)) /\ (Renewed(v)' <=> Renewed(v))
    BY <1>1, SameReader
  <2>2. RatchetsCurrent' /\ OwnRatchet' /\ DecryptorsCurrent'
    BY <1>5, <2>1 DEF Keys, Uses, RatchetsCurrent, OwnRatchet, DecryptorsCurrent
  <2>3. Obtained'
    BY <1>1, <1>3, <1>5 DEF Keys, Obtained
  <2>4. SpeakerCalls'
    BY <1>1, <1>5 DEF Keys, SpeakerCalls
  <2> QED  BY <1>5, <2>2, <2>3, <2>4 DEF Keys, Uses
<1> QED  BY <1>2, <1>4, <1>5 DEF Kept

\* A step that leaves the calls and the keys alone.
LEMMA NothingKept ==
  ASSUME Roles, Groups, UNCHANGED <<keys, call, session>>
  PROVE  Kept
BY DEF Kept, Roles, SenderRole, ReceiverRole, ReaderRole, Plainly, Asking, Groups, keys,
   Keys, Uses, RatchetsCurrent, OwnRatchet, EncryptorCurrent, DecryptorsCurrent, Obtained,
   SpeakerCalls, SenderCalls, Pending, Renewed

LEMMA EncryptOpusKept ==
  ASSUME IInv, Roles, Groups, EncryptOpus
  PROVE  Kept
<1> DEFINE after == IF encryptor THEN "Flag" ELSE "NewEncryptor"
           c == [Idle EXCEPT !.pc = after, !.ratchet = ratchets[Me]]
           d == [Idle EXCEPT !.pc = "GetKeyRatchet", !.then = after, !.user = Me, !.session = session]
<1>1. /\ call[Sender] = Idle /\ UNCHANGED keys /\ session' = session
      /\ \/ UNCHANGED call
         \/ ratchets[Me] # NoRatchet /\ GoTo(Sender, c)
         \/ GoTo(Sender, d)
  BY DEF EncryptOpus, Enter, keys, libdave, connection, controller
<1>2. c.pc = after /\ c.then = "Idle" /\ c.ratchet = ratchets[Me]
  BY DEF Idle
<1>3. d.pc = "GetKeyRatchet" /\ d.then = after /\ d.user = Me /\ d.session = session
  BY DEF Idle
<1>4. after \in {"Flag", "NewEncryptor"} /\ (after = "Flag" => encryptor)
  OBVIOUS
<1> HIDE DEF after, c, d
<1>5. Idle.pc = "Idle" /\ Sender \in Goroutines
  BY IdleFields DEF Has
<1>6. CASE UNCHANGED call
  BY <1>1, <1>6, NothingKept
<1>7. CASE ratchets[Me] # NoRatchet /\ GoTo(Sender, c)
  <2>1. ASSUME Keys PROVE EncryptorCurrent' /\ SenderCalls'
    <3>1. call'[Sender] = c /\ call'[Reader] = call[Reader]
      BY <1>7, CallsAfter DEF Reader, Sender
    <3>2. EncryptorCurrent'
      BY <1>1, <1>5, <2>1, <3>1, SameReader DEF Keys, Uses, EncryptorCurrent, keys
    <3>3. SenderCalls'
      BY <1>1, <1>2, <1>4, <1>7, <3>1 DEF SenderCalls, keys
    <3> QED  BY <3>2, <3>3
  <2>2. Plainly(c) /\ ~Asking(c) /\ c.pc \in {"Flag", "NewEncryptor"}
    BY <1>2, <1>4 DEF Plainly, Asking
  <2> QED  BY <1>1, <1>7, <2>1, <2>2, SenderKept DEF keys
<1>8. CASE GoTo(Sender, d)
  <2>1. ASSUME Keys PROVE EncryptorCurrent' /\ SenderCalls'
    <3>1. call'[Sender] = d /\ call'[Reader] = call[Reader]
      BY <1>8, CallsAfter DEF Reader, Sender
    <3>2. EncryptorCurrent'
      BY <1>1, <1>5, <2>1, <3>1, SameReader DEF Keys, Uses, EncryptorCurrent, keys
    <3>3. SenderCalls'
      BY <1>1, <1>3, <1>4, <1>8, <3>1 DEF SenderCalls, keys
    <3> QED  BY <3>2, <3>3
  <2>2. Plainly(d) /\ d.pc = "GetKeyRatchet" /\ d.user = Me /\ d.then \in {"NewEncryptor", "Flag"}
    BY <1>3, <1>4 DEF Plainly, Asking
  <2> QED  BY <1>1, <1>3, <1>8, <2>1, <2>2, SenderKept DEF keys
<1> QED  BY <1>1, <1>6, <1>7, <1>8

\* From the new encryptor to the frame.
LEMMA FrameKept ==
  ASSUME IInv, Roles, Groups, NewEncryptor \/ FlagOutbound \/ SetKeyRatchet \/ Encrypt
  PROVE  Kept
<1> DEFINE r == call[Sender]
           flag == [r EXCEPT !.pc = "Flag"]
           set == [r EXCEPT !.pc = "SetKeyRatchet"]
           ready == [Idle EXCEPT !.pc = "Encrypt"]
<1>1. /\ r.pc \in {"NewEncryptor", "Flag", "SetKeyRatchet", "Encrypt"} /\ r \in CallRecord
      /\ Sender \in Goroutines
      /\ UNCHANGED <<closed, session, epoch, members, ratchets, of, ssrcUsers, decryptors>>
  BY CallTypes DEF NewEncryptor, FlagOutbound, SetKeyRatchet, Encrypt, At, connection, controller,
     libdave, Sender
<1>2. r.then = "Idle"
  BY <1>1 DEF Roles, SenderRole, Plainly, Asking
<1>3. flag.pc = "Flag" /\ flag.then = r.then /\ flag.ratchet = r.ratchet
  BY <1>1 DEF CallRecord
<1>4. set.pc = "SetKeyRatchet" /\ set.then = r.then /\ set.ratchet = r.ratchet
  BY <1>1 DEF CallRecord
<1>5. ready.pc = "Encrypt" /\ ready.then = "Idle"
  BY DEF Idle
<1> HIDE DEF flag, set, ready
<1>6. CASE NewEncryptor
  <2>1. /\ r.pc = "NewEncryptor" /\ GoTo(Sender, flag) /\ encryptor' = TRUE
        /\ UNCHANGED <<outboundSet, encKey>>
    BY <1>6 DEF NewEncryptor, At, Continue, libdave, flag
  <2>2. ASSUME Keys PROVE EncryptorCurrent' /\ SenderCalls'
    <3>1. call'[Sender] = flag /\ call'[Reader] = call[Reader]
      BY <2>1, CallsAfter DEF Reader, Sender
    <3>2. EncryptorCurrent'
      BY <1>1, <2>1, <2>2, <3>1, SameReader DEF Keys, Uses, EncryptorCurrent
    <3>3. SenderCalls'
      BY <1>1, <1>2, <1>3, <2>1, <2>2, <3>1 DEF Keys, SenderCalls
    <3> QED  BY <3>2, <3>3
  <2> QED  BY <1>1, <1>2, <1>3, <2>1, <2>2, SenderKept DEF Plainly, Asking
<1>7. CASE FlagOutbound
  <2>1. /\ r.pc = "Flag" /\ outboundSet' = TRUE /\ UNCHANGED <<encryptor, encKey>>
        /\ IF outboundSet THEN GoTo(Sender, ready) ELSE GoTo(Sender, set)
    BY <1>7 DEF FlagOutbound, At, Continue, libdave, set, ready
  <2>2. PICK c : /\ GoTo(Sender, c) /\ c.then = "Idle"
                 /\ \/ outboundSet /\ c.pc = "Encrypt"
                    \/ c.pc = "SetKeyRatchet" /\ c.ratchet = r.ratchet
    BY <1>2, <1>4, <1>5, <2>1
  <2>3. ASSUME Keys PROVE EncryptorCurrent' /\ SenderCalls'
    <3>1. call'[Sender] = c /\ call'[Reader] = call[Reader]
      BY <2>2, CallsAfter DEF Reader, Sender
    <3>2. EncryptorCurrent'
      BY <1>1, <2>1, <2>2, <2>3, <3>1, SameReader DEF Keys, Uses, EncryptorCurrent
    <3>3. SenderCalls'
      BY <1>1, <2>1, <2>2, <2>3, <3>1 DEF Keys, SenderCalls
    <3> QED  BY <3>2, <3>3
  <2> QED  BY <1>1, <2>1, <2>2, <2>3, SenderKept DEF Plainly, Asking
<1>8. CASE SetKeyRatchet
  <2>1. /\ r.pc = "SetKeyRatchet" /\ GoTo(Sender, ready) /\ UNCHANGED <<encryptor, outboundSet>>
        /\ encKey' = IF encryptor /\ r.ratchet \in Open THEN r.ratchet ELSE NoRatchet
    BY <1>8 DEF SetKeyRatchet, At, controller, ready
  <2>2. ASSUME Keys PROVE EncryptorCurrent' /\ SenderCalls'
    <3>1. call'[Sender] = ready /\ call'[Reader] = call[Reader]
      BY <2>1, CallsAfter DEF Reader, Sender
    <3>2. encryptor /\ r.ratchet # NoRatchet /\ r.ratchet = ratchets[Me]
      BY <2>1, <2>2 DEF Keys, SenderCalls
    <3>3. ratchets[Me] \in Open
      BY <3>2 DEF IInv, Owned, Users
    <3>4. EncryptorCurrent'
      BY <1>1, <2>1, <3>2, <3>3 DEF EncryptorCurrent
    <3>5. SenderCalls'
      BY <1>5, <2>1, <3>1 DEF SenderCalls
    <3> QED  BY <3>4, <3>5
  <2> QED  BY <1>1, <1>5, <2>1, <2>2, SenderKept DEF Plainly, Asking
<1>9. CASE Encrypt
  <2>1. /\ r.pc = "Encrypt" /\ GoTo(Sender, Idle) /\ UNCHANGED <<encryptor, encKey, outboundSet>>
    BY <1>9 DEF Encrypt, At, Return, controller, libdave
  <2>2. Idle.pc = "Idle" /\ Idle.then = "Idle"
    BY IdleFields DEF Has
  <2>3. ASSUME Keys PROVE EncryptorCurrent' /\ SenderCalls'
    <3>1. call'[Sender] = Idle /\ call'[Reader] = call[Reader]
      BY <2>1, CallsAfter DEF Reader, Sender
    <3>2. EncryptorCurrent'
      BY <1>1, <2>1, <2>3, <3>1, SameReader DEF Keys, Uses, EncryptorCurrent
    <3>3. SenderCalls'
      BY <2>2, <3>1 DEF SenderCalls
    <3> QED  BY <3>2, <3>3
  <2> QED  BY <1>1, <2>1, <2>2, <2>3, SenderKept DEF Plainly, Asking
<1> QED  BY <1>6, <1>7, <1>8, <1>9

\* A new ratchet is the group's; of a member, and a renewed user is one,
\* libdave has a ratchet.
LEMMA GetKeyRatchetKept ==
  ASSUME IInv, Roles, Groups, NEW g \in Goroutines, GetKeyRatchet(g)
  PROVE  Kept
<1> DEFINE r == call[g]
           next == Refreshing(r.session, r.want)
<1>1. /\ r.pc = "GetKeyRatchet" /\ r \in CallRecord /\ r.session \in Sessions /\ r.user \in Users
      /\ UNCHANGED <<closed, session, epoch, members, ratchets, encryptor, encKey, outboundSet,
                     ssrcUsers, decryptors>>
  BY CallTypes DEF GetKeyRatchet, At, Sensible, connection, controller
<1>2. /\ Reader \in Goroutines /\ Sender \in Goroutines /\ Receiver \in Goroutines
      /\ Reader # Sender /\ Reader # Receiver /\ Sender # Receiver
  BY DEF Reader, Sender, Receiver
<1>3. ~closed => /\ r.session = session /\ session # 0 /\ session \in Sessions /\ r.session \in live
  BY <1>1 DEF Groups, Asking, IInv, SessionInv
<1>4. CASE r.session \in live /\ r.user \in members[r.session]
  <2>1. PICK h \in Handles :
          /\ Fresh(h, r.user)
          /\ of' = [k \in Open \cup {h} |-> IF k = h THEN epoch[r.session] ELSE of[k]]
          /\ GoTo(g, [r EXCEPT !.pc = "InstallRatchet", !.ratchet = h])
    BY <1>4 DEF GetKeyRatchet
  <2> DEFINE c == [r EXCEPT !.pc = "InstallRatchet", !.ratchet = h]
  <2>2. /\ c.pc = "InstallRatchet" /\ c.ratchet = h /\ c.then = r.then /\ c.user = r.user
        /\ c.ssrc = r.ssrc /\ c.session = r.session /\ c.want = r.want
    BY <1>1 DEF CallRecord
  <2> HIDE DEF c
  <2>3. call'[g] = c /\ \A i \in Goroutines : i # g => call'[i] = call[i]
    BY <2>1, CallsAfter DEF c
  <2>4. of'[h] = epoch[r.session] /\ \A k \in Open : of'[k] = of[k]
    <3>1. h \notin Open
      BY <2>1 DEF Fresh, Referenced
    <3> QED  BY <2>1, <3>1
  <2> HIDE DEF r
  <2>5. Roles'
    <3>1. ReaderRole'
      BY <1>1, <1>2, <2>2, <2>3 DEF Roles, ReaderRole, Plainly, Asking, r
    <3>2. ReceiverRole'
      BY <1>1, <1>2, <2>2, <2>3 DEF Roles, ReceiverRole, Plainly, Asking, r
    <3>3. SenderRole'
      BY <1>1, <1>2, <2>2, <2>3 DEF Roles, SenderRole, Plainly, Asking, r
    <3> QED  BY <3>1, <3>2, <3>3 DEF Roles
  <2>6. Groups'
    <3>1. ~closed => \A i \in Goroutines :
            Asking(call'[i]) \/ call'[i].pc = "Refresh" => call'[i].session = session
      BY <1>3, <2>2, <2>3 DEF Groups, Asking
    <3> QED  BY <1>1, <3>1 DEF Groups, Asking
  <2>7. ASSUME ~closed, Keys PROVE Keys'
    <3>1. \A v : (Pending(v)' <=> Pending(v)) /\ (Renewed(v)' <=> Renewed(v))
      BY <1>1, <1>2, <2>2, <2>3 DEF Pending, Renewed, r
    <3>2. \A u \in Users : ratchets[u] # NoRatchet => of'[ratchets[u]] = of[ratchets[u]]
      BY <2>4 DEF IInv, Owned
    <3>3. RatchetsCurrent' /\ OwnRatchet'
      <4>1. \A u \in members[session] : session # 0 => u \in Users
        BY <1>3, <2>7 DEF IInv, TypeOK
      <4> QED  BY <1>1, <2>7, <3>1, <3>2, <4>1 DEF Keys, Uses, RatchetsCurrent, OwnRatchet
    <3>4. EncryptorCurrent'
      BY <1>1, <1>2, <2>3, <2>7, <3>1 DEF Keys, Uses, EncryptorCurrent, r
    <3>5. DecryptorsCurrent'
      BY <1>1, <2>7, <3>1 DEF Keys, Uses, DecryptorsCurrent
    <3>6. Obtained'
      <4>1. \A i \in Goroutines : call[i].pc = "InstallRatchet" => call[i].ratchet \in Open
        BY DEF IInv, Owned, Installing
      <4> QED  BY <1>1, <1>3, <2>2, <2>3, <2>4, <2>7, <4>1 DEF Keys, Obtained
    <3>7. SpeakerCalls'
      BY <1>1, <1>2, <2>2, <2>3, <2>7 DEF Keys, SpeakerCalls, r
    <3>8. SenderCalls'
      BY <1>1, <1>2, <2>2, <2>3, <2>7 DEF Keys, SenderCalls, r
    <3> QED  BY <3>3, <3>4, <3>5, <3>6, <3>7, <3>8 DEF Keys, Uses
  <2> QED  BY <1>1, <2>5, <2>6, <2>7 DEF Kept
<1>5. CASE ~(r.session \in live /\ r.user \in members[r.session])
  <2>1. PICK c : /\ GoTo(g, c) /\ c.then = "Idle"
                 /\ \/ r.then = "Refresh" /\ c.pc = "Refresh" /\ c.session = r.session /\ c.want = r.want
                    \/ r.then # "Refresh" /\ c.pc = "Idle" /\ c.want = {}
    <3>1. next.then = "Idle" /\ next.pc = "Refresh" /\ next.session = r.session /\ next.want = r.want
      BY DEF Refreshing, Idle
    <3>2. IF r.then = "Refresh" THEN GoTo(g, next) ELSE GoTo(g, Idle)
      BY <1>5 DEF GetKeyRatchet, Return
    <3> HIDE DEF next, r
    <3> QED  BY <3>1, <3>2, IdleFields DEF Has
  <2>2. of' = of
    BY <1>5 DEF GetKeyRatchet
  <2>3. call'[g] = c /\ \A i \in Goroutines : i # g => call'[i] = call[i]
    BY <2>1, CallsAfter
  <2> HIDE DEF r, next
  <2>4. r.then = "Refresh" => g = Reader
    BY <1>1, <1>2 DEF Roles, SenderRole, ReceiverRole, Asking, r
  <2>5. Roles'
    <3>1. ReaderRole'
      BY <1>2, <2>1, <2>3 DEF Roles, ReaderRole, Plainly, Asking
    <3>2. ReceiverRole'
      BY <1>2, <2>1, <2>3, <2>4 DEF Roles, ReceiverRole, Plainly, Asking
    <3>3. SenderRole'
      BY <1>2, <2>1, <2>3, <2>4 DEF Roles, SenderRole, Plainly, Asking
    <3> QED  BY <3>1, <3>2, <3>3 DEF Roles
  <2>6. Groups'
    <3>1. ~closed => \A i \in Goroutines :
            Asking(call'[i]) \/ call'[i].pc = "Refresh" => call'[i].session = session
      BY <1>3, <2>1, <2>3 DEF Groups, Asking
    <3> QED  BY <1>1, <3>1 DEF Groups, Asking
  <2>7. ASSUME ~closed, Keys PROVE Keys'
    <3>1. r.user \notin members[session]
      BY <1>3, <1>5, <2>7
    <3>2. \A v : v # r.user => (Pending(v)' <=> Pending(v))
      BY <1>1, <1>2, <2>1, <2>3 DEF Pending, Roles, ReaderRole, r
    <3>3. \A v : Renewed(v)' <=> Renewed(v)
      BY <1>1, <3>1, <3>2 DEF Renewed
    <3>4. RatchetsCurrent'
      BY <1>1, <2>2, <2>7, <3>1, <3>2 DEF Keys, Uses, RatchetsCurrent
    <3>5. OwnRatchet'
      <4>1. session # 0 /\ members[session] # {} => Me # r.user
        BY <1>3, <2>7, <3>1 DEF Groups
      <4> QED  BY <1>1, <2>7, <3>2, <4>1 DEF Keys, Uses, OwnRatchet
    <3>6. EncryptorCurrent'
      BY <1>1, <1>2, <2>3, <2>7, <3>3 DEF Keys, Uses, EncryptorCurrent, r
    <3>7. DecryptorsCurrent'
      BY <1>1, <2>7, <3>3 DEF Keys, Uses, DecryptorsCurrent
    <3>8. Obtained'
      BY <1>1, <2>1, <2>2, <2>3, <2>7 DEF Keys, Obtained
    <3>9. SpeakerCalls'
      BY <1>1, <1>2, <2>1, <2>3, <2>7 DEF Keys, SpeakerCalls
    <3>10. SenderCalls'
      BY <1>1, <1>2, <2>1, <2>3, <2>7 DEF Keys, SenderCalls
    <3> QED  BY <3>4, <3>5, <3>6, <3>7, <3>8, <3>9, <3>10 DEF Keys, Uses
  <2> QED  BY <1>1, <2>2, <2>5, <2>6, <2>7 DEF Kept
<1> QED  BY <1>4, <1>5

\* The new ratchet takes the old one's place wherever that was used.
LEMMA InstallRatchetKept ==
  ASSUME IInv, Roles, Groups, NEW g \in Goroutines, InstallRatchet(g)
  PROVE  Kept
<1> DEFINE r == call[g]
           u == r.user
           h == r.ratchet
           next == Refreshing(r.session, r.want)
           then == [r EXCEPT !.pc = r.then, !.then = "Idle", !.user = None, !.session = 0]
<1>1. /\ r.pc = "InstallRatchet" /\ r \in CallRecord /\ r.session \in Sessions /\ u \in Users
      /\ UNCHANGED <<closed, session, epoch, members, encryptor, encKey, ssrcUsers>>
  BY CallTypes DEF InstallRatchet, At, Sensible, connection
<1>2. /\ of' = Destroyed({ratchets[u]})
      /\ ratchets' = [ratchets EXCEPT ![u] = h]
      /\ outboundSet' = (outboundSet /\ u # Me)
      /\ decryptors' = [x \in Ssrcs |->
           IF ssrcUsers[x] = u /\ decryptors[x] # NoDecryptor THEN h ELSE decryptors[x]]
  BY DEF InstallRatchet
<1>3. /\ Reader \in Goroutines /\ Sender \in Goroutines /\ Receiver \in Goroutines
      /\ Reader # Sender /\ Reader # Receiver /\ Sender # Receiver
  BY DEF Reader, Sender, Receiver
<1>4. PICK c : /\ GoTo(g, c) /\ c.then = "Idle"
               /\ \/ r.then = "Idle" /\ c.pc = "Idle" /\ c.want = {}
                  \/ r.then = "Refresh" /\ c.pc = "Refresh" /\ c.session = r.session /\ c.want = r.want
                  \/ /\ r.then \notin {"Idle", "Refresh"} /\ c.pc = r.then /\ c.want = r.want
                     /\ c.ssrc = r.ssrc /\ c.ratchet = h
  <2>1. next.then = "Idle" /\ next.pc = "Refresh" /\ next.session = r.session /\ next.want = r.want
    BY DEF Refreshing, Idle
  <2>2. then.then = "Idle" /\ then.pc = r.then /\ then.want = r.want /\ then.ssrc = r.ssrc /\ then.ratchet = h
    BY <1>1 DEF CallRecord
  <2>3. /\ r.then = "Idle" => GoTo(g, Idle)
        /\ r.then = "Refresh" => GoTo(g, next)
        /\ r.then \notin {"Idle", "Refresh"} => GoTo(g, then)
    <3>1. CASE r.then = "Idle"
      BY <3>1 DEF InstallRatchet, Return
    <3>2. CASE r.then = "Refresh"
      BY <3>2 DEF InstallRatchet, Return
    <3>3. CASE r.then \notin {"Idle", "Refresh"}
      BY <3>3 DEF InstallRatchet, Return
    <3> QED  BY <3>1, <3>2, <3>3
  <2> HIDE DEF next, then, u, h, r
  <2> QED  BY <2>1, <2>2, <2>3, IdleFields DEF Has
<1> HIDE DEF next, then
<1>5. call'[g] = c /\ \A i \in Goroutines : i # g => call'[i] = call[i]
  BY <1>4, CallsAfter
<1>6. /\ h \in Open /\ h # NoRatchet /\ h # NoDecryptor
      /\ \A v \in Users : ratchets[v] # h
  <2>1. h \in Open /\ \A v \in Users : ratchets[v] # h
    BY <1>1 DEF IInv, Owned, Installing
  <2>2. h \in Handles
    BY <2>1 DEF IInv, TypeOK
  <2> QED  BY <2>1, <2>2, NoHandle
<1>7. /\ ratchets'[u] = h /\ \A v \in Users : v # u => ratchets'[v] = ratchets[v]
      /\ of'[h] = of[h] /\ \A k \in Open : k # ratchets[u] => of'[k] = of[k]
  <2>1. ratchets \in [Users -> Handles \cup {NoRatchet}]
    BY DEF IInv, TypeOK
  <2>2. \A k \in Open : k # ratchets[u] => of'[k] = of[k]
    BY <1>2 DEF Destroyed
  <2> QED  BY <1>1, <1>2, <1>6, <2>1, <2>2
<1>8. \A x \in Ssrcs :
        /\ decryptors'[x] # NoDecryptor <=> decryptors[x] # NoDecryptor
        /\ ssrcUsers[x] = u /\ decryptors[x] # NoDecryptor => decryptors'[x] = h
        /\ ssrcUsers[x] # u => decryptors'[x] = decryptors[x]
  BY <1>2, <1>6
<1> HIDE DEF r, u, h
<1>9. /\ g = Sender => u = Me /\ r.then \in {"NewEncryptor", "Flag"}
      /\ g = Receiver => u \in Others /\ r.then = "NewDecryptor" /\ r.ssrc \in Ssrcs
      /\ g = Reader => /\ r.then \in {"Idle", "Refresh", "NewDecryptor"}
                       /\ r.then = "NewDecryptor" => u \in Others /\ r.ssrc \in Ssrcs
                       /\ r.want # {} => r.then = "Refresh"
      /\ g \in {Sender, Receiver, Reader}
  BY <1>1, <1>3 DEF Roles, SenderRole, ReceiverRole, ReaderRole, Asking, r, u, Sender, Receiver, Reader
<1>10. Roles'
  <2>1. ReaderRole'
    BY <1>3, <1>4, <1>5, <1>9 DEF Roles, ReaderRole, Plainly, Asking
  <2>2. ReceiverRole'
    BY <1>3, <1>4, <1>5, <1>9 DEF Roles, ReceiverRole, Plainly, Asking
  <2>3. SenderRole'
    BY <1>3, <1>4, <1>5, <1>9 DEF Roles, SenderRole, Plainly, Asking
  <2> QED  BY <2>1, <2>2, <2>3 DEF Roles
<1>11. ~closed => r.session = session /\ session # 0 /\ session \in Sessions
  BY <1>1 DEF Groups, Asking, r
<1>12. Groups'
  <2>1. ~closed => \A i \in Goroutines :
          Asking(call'[i]) \/ call'[i].pc = "Refresh" => call'[i].session = session
    <3>1. ~Asking(c) /\ (c.pc = "Refresh" => c.session = r.session)
      BY <1>4, <1>9 DEF Asking
    <3> QED  BY <1>5, <1>11, <3>1 DEF Groups, Asking
  <2> QED  BY <1>1, <2>1 DEF Groups, Asking
<1>13. ASSUME ~closed, Alone, Keys PROVE Keys'
  <2>1. \A v : v # u => (Pending(v)' <=> Pending(v)) /\ (Renewed(v)' <=> Renewed(v))
    <3>1. \A v : v # u => (Pending(v)' <=> Pending(v))
      BY <1>1, <1>3, <1>4, <1>5, <1>9 DEF Pending, r, u
    <3> QED  BY <1>1, <3>1 DEF Renewed
  <2>2. \A v \in Users : v # u /\ ratchets[v] # NoRatchet => of'[ratchets[v]] = of[ratchets[v]]
    BY <1>1, <1>7 DEF IInv, Owned
  <2>3. of'[h] = epoch[session]
    BY <1>1, <1>7, <1>13 DEF Keys, Obtained, h, r
  <2>4. \A i \in Goroutines : i # g /\ call[i].pc = "InstallRatchet" =>
          of'[call[i].ratchet] = of[call[i].ratchet]
    BY <1>1, <1>7 DEF IInv, Owned, Installing
  <2>5. RatchetsCurrent'
    <3>1. \A v \in members[session] : session # 0 => v \in Users
      BY <1>11, <1>13 DEF IInv, TypeOK
    <3>2. ASSUME session # 0, NEW v \in members[session], ratchets'[v] # NoRatchet
          PROVE  of'[ratchets'[v]] = epoch[session] \/ Pending(v)'
      <4>1. CASE v = u
        BY <1>7, <2>3, <4>1
      <4>2. CASE v # u
        <5>1. ratchets'[v] = ratchets[v] /\ of'[ratchets[v]] = of[ratchets[v]]
          BY <1>7, <2>2, <3>1, <3>2, <4>2
        <5> QED  BY <1>13, <2>1, <3>2, <4>2, <5>1 DEF Keys, Uses, RatchetsCurrent
      <4> QED  BY <4>1, <4>2
    <3> QED  BY <1>1, <3>2 DEF RatchetsCurrent
  <2>6. OwnRatchet'
    <3>1. Me \in Users
      BY DEF Users
    <3> QED  BY <1>1, <1>6, <1>7, <1>13, <2>1, <3>1 DEF Keys, Uses, OwnRatchet
  <2>7. EncryptorCurrent'
    <3>1. Me \in Users
      BY DEF Users
    <3>2. CASE u = Me
      BY <1>2, <3>2 DEF EncryptorCurrent
    <3>3. CASE u # Me
      <4>1. g # Sender
        BY <1>9, <3>3
      <4> QED  BY <1>1, <1>2, <1>3, <1>5, <1>7, <1>13, <2>1, <3>1, <3>3, <4>1
                  DEF Keys, Uses, EncryptorCurrent
    <3> QED  BY <3>2, <3>3
  <2>8. DecryptorsCurrent'
    <3>1. \A x \in Ssrcs : ssrcUsers[x] # None => ssrcUsers[x] \in Users
      BY DEF IInv, TypeOK, Users
    <3>2. ASSUME NEW x \in Ssrcs, decryptors'[x] # NoDecryptor
          PROVE  /\ ssrcUsers[x] # None
                 /\ decryptors'[x] = ratchets'[ssrcUsers[x]] \/ Renewed(ssrcUsers[x])'
      <4>1. /\ ssrcUsers[x] # None
            /\ decryptors[x] = ratchets[ssrcUsers[x]] \/ Renewed(ssrcUsers[x])
        BY <1>8, <1>13, <3>2 DEF Keys, Uses, DecryptorsCurrent
      <4>2. CASE ssrcUsers[x] = u
        BY <1>7, <1>8, <3>2, <4>1, <4>2
      <4>3. CASE ssrcUsers[x] # u
        BY <1>1, <1>7, <1>8, <2>1, <3>1, <4>1, <4>3
      <4> QED  BY <4>2, <4>3
    <3> QED  BY <1>1, <3>2 DEF DecryptorsCurrent
  <2>9. Obtained'
    <3>1. c.pc # "InstallRatchet"
      BY <1>4, <1>9
    <3> QED  BY <1>1, <1>5, <1>13, <2>4, <3>1 DEF Keys, Obtained
  <2>10. SpeakerCalls'
    <3>1. ASSUME NEW i \in {Reader, Receiver}, i # g
          PROVE  /\ call'[i] = call[i]
                 /\ call[i].pc \in {"NewDecryptor", "StoreDecryptor"} =>
                      ratchets'[ssrcUsers[call[i].ssrc]] = ratchets[ssrcUsers[call[i].ssrc]]
      <4>1. call'[i] = call[i]
        BY <1>3, <1>5, <3>1
      <4>2. CASE g = Sender /\ i = Receiver
        <5>1. call[i].pc \in {"NewDecryptor", "StoreDecryptor"} => call[i].ssrc \in Ssrcs
          BY <4>2 DEF Roles, ReceiverRole
        <5>2. \A x \in Ssrcs : ssrcUsers[x] # None => ssrcUsers[x] \in Users /\ ssrcUsers[x] # u
          BY <1>9, <4>2, DaveAssumption DEF IInv, TypeOK, Users
        <5>3. call[i].pc \in {"NewDecryptor", "StoreDecryptor"} => ssrcUsers[call[i].ssrc] # None
          BY <1>13 DEF Keys, SpeakerCalls
        <5> QED  BY <1>7, <4>1, <5>1, <5>2, <5>3
      <4>3. CASE g = Reader
        <5>1. call[Receiver].pc = "Idle"
          BY <1>1, <1>13, <4>3, OthersAlone DEF r
        <5> QED  BY <3>1, <4>1, <4>3, <5>1
      <4>4. CASE i = Reader
        <5>1. call[Reader].pc \in {"Idle", "SetVersion", "Commit", "Welcome"}
          BY <1>1, <1>9, <1>13, <3>1, <4>4, ReaderAlone DEF r
        <5> QED  BY <4>1, <4>4, <5>1
      <4> QED  BY <1>9, <3>1, <4>2, <4>3, <4>4
    <3>2. c.then # "NewDecryptor" /\ c.pc # "StoreDecryptor"
      BY <1>4, <1>9
    <3>3. c.pc = "NewDecryptor" => u \in Others /\ c.ssrc = r.ssrc /\ c.ratchet = h /\ r.then = "NewDecryptor"
      BY <1>4, <1>9
    <3>4. r.then = "NewDecryptor" => g \in {Reader, Receiver} /\ ssrcUsers[r.ssrc] = u
      BY <1>9, <1>13 DEF Keys, SpeakerCalls, r, u
    <3>5. \A v \in Others : v # None
      BY DaveAssumption DEF Users
    <3>6. c.pc = "NewDecryptor" =>
            /\ ssrcUsers[c.ssrc] # None /\ c.ratchet # NoRatchet
            /\ c.ratchet = ratchets'[ssrcUsers[c.ssrc]]
      BY <1>6, <1>7, <3>3, <3>4, <3>5
    <3> QED  BY <1>1, <1>5, <1>13, <3>1, <3>2, <3>6 DEF Keys, SpeakerCalls
  <2>11. SenderCalls'
    <3>1. CASE g = Sender
      <4>1. r.then = "Flag" => encryptor
        BY <1>13, <3>1 DEF Keys, SenderCalls, r
      <4>2. c.pc = r.then /\ c.ratchet = h /\ u = Me
        BY <1>4, <1>9, <3>1
      <4> QED  BY <1>1, <1>4, <1>5, <1>6, <1>7, <1>9, <3>1, <4>1, <4>2 DEF SenderCalls
    <3>2. CASE g = Reader
      <4>1. call[Sender].pc \in {"Idle", "Encrypt"} /\ call[Sender].then = "Idle"
        BY <1>1, <1>13, <3>2, OthersAlone DEF r
      <4> QED  BY <1>3, <1>5, <3>2, <4>1 DEF SenderCalls
    <3>3. CASE g = Receiver
      <4>1. u # Me /\ Me \in Users
        BY <1>9, <3>3, DaveAssumption DEF Users
      <4> QED  BY <1>1, <1>3, <1>5, <1>7, <1>13, <3>3, <4>1 DEF Keys, SenderCalls
    <3> QED  BY <1>9, <3>1, <3>2, <3>3
  <2> QED  BY <2>5, <2>6, <2>7, <2>8, <2>9, <2>10, <2>11 DEF Keys, Uses
<1> QED  BY <1>1, <1>10, <1>12, <1>13 DEF Kept

LEMMA DetachKept ==
  ASSUME IInv, Roles, Groups, Detach
  PROVE  Kept
<1>1. UNCHANGED <<keys, call, session>>
  BY DEF Detach, keys, controller, libdave
<1> QED  BY <1>1, NothingKept

LEMMA CloseKept ==
  ASSUME IInv, Roles, Groups, Close
  PROVE  Kept
<1>1. closed' /\ UNCHANGED <<call, members, epoch>>
  BY DEF Close
<1>2. Roles' /\ Groups'
  BY <1>1 DEF Roles, SenderRole, ReceiverRole, ReaderRole, Plainly, Asking, Groups
<1> QED  BY <1>1, <1>2 DEF Kept

LEMMA InitKeys == Init => KInv
<1> SUFFICES ASSUME Init PROVE KInv
  OBVIOUS
<1>1. \A g \in Goroutines : call[g] = Idle
  BY DEF Init
<1>2. /\ Idle.pc = "Idle" /\ Idle.then = "Idle" /\ Idle.want = {}
      /\ Reader \in Goroutines /\ Sender \in Goroutines /\ Receiver \in Goroutines
  BY IdleFields DEF Has
<1>3. Roles
  BY <1>1, <1>2 DEF Roles, SenderRole, ReceiverRole, ReaderRole, Plainly, Asking
<1>4. Groups
  BY <1>1, <1>2 DEF Init, Groups, Asking
<1>5. Alone /\ Obtained /\ SpeakerCalls /\ SenderCalls
  BY <1>1, <1>2 DEF Alone, Changing, Obtained, SpeakerCalls, SenderCalls
<1>6. Uses
  BY DEF Init, Uses, RatchetsCurrent, OwnRatchet, EncryptorCurrent, DecryptorsCurrent
<1> QED  BY <1>3, <1>4, <1>5, <1>6 DEF KInv, Keys

LEMMA KeysNext == IInv /\ KInv /\ [Next]_vars => KInv'
<1> SUFFICES ASSUME IInv, Roles, Groups, settled /\ ~closed => Alone /\ Keys, [Next]_vars
             PROVE  Roles' /\ Groups' /\ (settled' /\ ~closed' => Alone' /\ Keys')
  BY DEF KInv
<1>1. CASE UNCHANGED vars
  <2>1. UNCHANGED <<keys, call, session, settled, closed>>
    BY <1>1 DEF vars, keys, controller, libdave, connection
  <2>2. Kept
    BY <2>1, NothingKept
  <2>3. Alone => Alone' /\ Wary
    BY <1>1 DEF Alone, Changing, Wary, Forgets, vars, controller
  <2> QED  BY <2>1, <2>2, <2>3 DEF Kept
<1>2. CASE Next
  <2>1. settled' => (settled \/ Renewing) /\ Wary /\ Alone'
    BY <1>2, WatchFacts DEF Next, Wary
  <2>2. closed => closed'
    <3>1. Messages \/ Frames \/ Ratchets \/ Detach => closed' = closed
      BY DEF Messages, PrepareTransition, SetVersion, Negotiate, HandleMLSCommitTransition,
             HandleMLSWelcome, EnsureSession, Reject, IgnoreCommit, Process, Refresh, Refreshed,
             EnsureOutboundRatchet, ClientDisconnected, HandleSpeakingUpdate, connection,
             Frames, DecryptOpus, EncryptOpus, NewEncryptor, FlagOutbound, SetKeyRatchet, Encrypt,
             Ratchets, GetKeyRatchet, InstallRatchet, NewDecryptor, StoreDecryptor, Detach
    <3> QED  BY <1>2, <3>1 DEF Next, Close
  <2>3. Kept => Roles' /\ Groups' /\ (settled' /\ ~closed' => Alone' /\ Keys')
    <3>1. epoch' = epoch => ~Renewing
      BY DEF Renewing
    <3> QED  BY <2>1, <2>2, <3>1 DEF Kept
  <2>4. CASE Messages
    <3>1. CASE Process
      <4>1. /\ Roles' /\ Groups'
            /\ ~closed' /\ ((Alone /\ Keys) \/ Renewing) /\ Wary => Keys'
        BY <3>1, ProcessKept
      <4> QED  BY <2>1, <2>2, <4>1
    <3>2. CASE Refresh \/ ClientDisconnected \/ HandleSpeakingUpdate
      BY <2>3, <3>2, RefreshKept, ClientDisconnectedKept, HandleSpeakingUpdateKept
    <3>3. CASE ~(Process \/ Refresh \/ ClientDisconnected \/ HandleSpeakingUpdate)
      BY <2>3, <2>4, <3>3, RestKept DEF Messages
    <3> QED  BY <3>1, <3>2, <3>3
  <2>5. CASE Frames
    BY <2>3, <2>5, DecryptOpusKept, EncryptOpusKept, FrameKept DEF Frames
  <2>6. CASE Ratchets
    BY <2>3, <2>6, GetKeyRatchetKept, InstallRatchetKept, DecryptorKept DEF Ratchets
  <2>7. CASE Detach \/ Close
    BY <2>3, <2>7, DetachKept, CloseKept
  <2> QED  BY <1>2, <2>4, <2>5, <2>6, <2>7 DEF Next
<1> QED  BY <1>1, <1>2

\* Between calls, unless calls overlapped since an epoch that renewed every key,
\* the members' ratchets are of the current epoch, the encryptor marked as set
\* uses ours, and each decryptor its user's.
THEOREM KeysCurrent == Spec => []Current
<1>1. IInv /\ KInv => Current
  <2> SUFFICES ASSUME KInv, settled, Quiet, ~closed
               PROVE  /\ session # 0 => \A u \in members[session] :
                           ratchets[u] # NoRatchet => of[ratchets[u]] = epoch[session]
                      /\ (session # 0 /\ members[session] # {}) => ratchets[Me] # NoRatchet
                      /\ outboundSet => encryptor /\ encKey = ratchets[Me]
                      /\ \A x \in Ssrcs : decryptors[x] # NoDecryptor =>
                           ssrcUsers[x] # None /\ decryptors[x] = ratchets[ssrcUsers[x]]
    BY DEF Current
  <2>1. call[Reader] = Idle /\ call[Sender] = Idle
    BY DEF Quiet, Reader, Sender
  <2>2. /\ call[Reader].pc = "Idle" /\ call[Sender].pc = "Idle"
        /\ call[Reader].then = "Idle" /\ call[Reader].want = {}
    BY <2>1, IdleFields DEF Has
  <2>3. \A u : ~Pending(u) /\ ~Renewed(u)
    BY <2>2 DEF Pending, Renewed
  <2>4. Uses
    BY DEF KInv, Keys
  <2>5. (session # 0 => \A u \in members[session] :
           ratchets[u] # NoRatchet => of[ratchets[u]] = epoch[session])
    BY <2>3, <2>4 DEF Uses, RatchetsCurrent
  <2>6. (session # 0 /\ members[session] # {}) => ratchets[Me] # NoRatchet
    BY <2>3, <2>4 DEF Uses, OwnRatchet
  <2>7. outboundSet => encryptor /\ encKey = ratchets[Me]
    BY <2>2, <2>3, <2>4 DEF Uses, EncryptorCurrent
  <2>8. \A x \in Ssrcs : decryptors[x] # NoDecryptor =>
          ssrcUsers[x] # None /\ decryptors[x] = ratchets[ssrcUsers[x]]
    BY <2>3, <2>4 DEF Uses, DecryptorsCurrent
  <2> QED  BY <2>5, <2>6, <2>7, <2>8
<1> QED  BY <1>1, InitKeys, KeysNext, Inductive, PTL DEF Spec
===============================================================================
