---------------------------- MODULE GatewayResume ----------------------------
(* What a session resumes from.  Gateway.tla is about the websocket and the   *)
(* goroutines of a Session; this module follows the two values that survive a *)
(* websocket, s.sequence and s.sessionID, against Discord's numbered          *)
(* dispatches: what Open sends (wsapi.go:50-215), what onEvent stores         *)
(* (669-671) and clears (637-641), and which dispatches are handled not at    *)
(* all or twice.                                                              *)
(*                                                                            *)
(* Discord keeps a log of each session.  It answers Identify with dispatch 1, *)
(* READY, of a new session, and Resume with the dispatches after the number   *)
(* it is given, then RESUMED, which has a number of its own; or it refuses    *)
(* with Op 9.  It goes on dispatching while the client is away.               *)
(*                                                                            *)
(* s.resumeGatewayURL is set and cleared with s.sessionID and left out, and   *)
(* so are the packets that touch neither value (Op 1, 10, 11).                *)
EXTENDS Integers, Sequences, FiniteSets, SequencesExt

CONSTANTS Calls,        \* what the application calls after its first Open: "open", "close"
          MaxDials,     \* bound: websockets dialled
          MaxSequence   \* bound: dispatches of a session

ASSUME ResumeAssumption ==
  Calls \subseteq {"open", "close"} /\ MaxDials \in Nat /\ MaxSequence \in Nat \ {0}

Conns == 1..MaxDials
Sessions == 1..MaxDials         \* a session needs an Identify, an Identify a websocket
NoConn == 0
NoSession == 0                  \* s.sessionID == ""

listen(c) == <<"listen", c>>
heartbeat(c) == <<"heartbeat", c>>
app == <<"app", NoConn>>
Procs == {app} \cup {listen(c) : c \in Conns} \cup {heartbeat(c) : c \in Conns}
Nobody == <<"nobody", NoConn>>

Dispatch(k, n) == [op |-> "dispatch", session |-> k, number |-> n]
Invalid(resumable) == [op |-> "invalid", session |-> NoSession, number |-> IF resumable THEN 1 ELSE 0]
Reconnect == [op |-> "reconnect", session |-> NoSession, number |-> 0]
Nothing == [op |-> "none", session |-> NoSession, number |-> 0]
Packets == {Dispatch(k, n) : k \in Sessions, n \in 1..MaxSequence}
           \cup {Invalid(TRUE), Invalid(FALSE), Reconnect, Nothing}

VARIABLES
  lock,         \* who holds the Session's mutex
  wsConn,       \* s.wsConn
  stopped,      \* the websockets whose listening channel is closed
  sequence,     \* *s.sequence
  sessionID,    \* s.sessionID
  loaded,       \* the sequence Open loaded before it dialled
  pc,           \* what each goroutine does next
  hand,         \* the packet each listen goroutine has read
  inbox,        \* the packets on their way on each websocket
  down,         \* the websockets that are closed or broken
  serves,       \* the session Discord serves on each websocket
  dialled,      \* websockets dialled so far
  alive,        \* the sessions Discord would resume
  sent,         \* the number of each session's last dispatch
  handled,      \* how often each dispatch was handled
  origin,       \* history: the session of the packet sequence was stored from
  loadedFrom,   \* history: origin when loaded was read
  mixed,        \* history: a Resume joined one session's id with another's number
  late          \* history: the dispatches stored for a websocket that was replaced

values == <<sequence, sessionID, origin>>
opening == <<loaded, loadedFrom, mixed>>
discord == <<serves, alive, sent>>
vars == <<lock, wsConn, stopped, values, opening, pc, hand, inbox, down, discord,
          dialled, handled, late>>

Goto(p, label) == pc' = [pc EXCEPT ![p] = label]
Loaded(number, k) == loaded' = number /\ loadedFrom' = k

\* A websocket that is closed or broken: what was on its way is not read.
Down(cs) ==
  /\ down' = down \cup cs
  /\ inbox' = [c \in Conns |-> IF c \in cs THEN <<>> ELSE inbox[c]]

-------------------------------------------------------------------------------
(* Open, called by the application and, in a loop, by reconnect.              *)

\* Mutant: resumes from one dispatch before the last one.
OpenBeginOneBehind(p) ==
  /\ pc[p] = "open" /\ lock = Nobody
  /\ IF wsConn # NoConn
       THEN Goto(p, "off") /\ UNCHANGED <<lock, loaded, loadedFrom>>
       ELSE /\ lock' = p
            /\ Loaded(IF sequence = 0 THEN 0 ELSE sequence - 1, origin)
            /\ Goto(p, "dial")
  /\ UNCHANGED <<wsConn, stopped, values, mixed, hand, inbox, down, discord, dialled, handled, late>>

OpenBegin(p) ==
  /\ pc[p] = "open" /\ lock = Nobody
  /\ IF wsConn # NoConn
       THEN Goto(p, "off") /\ UNCHANGED <<lock, loaded, loadedFrom>>
       ELSE /\ lock' = p
            /\ Loaded(sequence, origin)
            /\ Goto(p, "dial")
  /\ UNCHANGED <<wsConn, stopped, values, mixed, hand, inbox, down, discord, dialled, handled, late>>

Dial(p) ==
  /\ pc[p] = "dial" /\ dialled < MaxDials
  /\ dialled' = dialled + 1
  /\ wsConn' = dialled + 1
  /\ Goto(p, "identify")
  /\ UNCHANGED <<lock, stopped, values, opening, hand, inbox, down, discord, handled, late>>

\* An error in the handshake: the application gets it, reconnect tries again.
OpenFails(p) ==
  /\ pc[p] \in {"dial", "identify", "first"}
  /\ Down({wsConn} \ {NoConn})
  /\ wsConn' = NoConn
  /\ lock' = Nobody
  /\ Loaded(0, NoSession)
  /\ Goto(p, IF p = app THEN "off" ELSE "open")
  /\ UNCHANGED <<stopped, values, mixed, hand, discord, dialled, handled, late>>

Identify(p) ==
  /\ pc[p] = "identify"
  /\ sessionID = NoSession /\ loaded = 0
  /\ \E k \in Sessions :
       /\ sent[k] = 0 /\ \A j \in Sessions : sent[j] = 0 => k <= j
       /\ sent' = [sent EXCEPT ![k] = 1]
       /\ alive' = alive \cup {k}
       /\ serves' = [serves EXCEPT ![wsConn] = k]
       /\ inbox' = [inbox EXCEPT ![wsConn] = <<Dispatch(k, 1)>>]
  /\ Loaded(0, NoSession)
  /\ Goto(p, "first")
  /\ UNCHANGED <<lock, wsConn, stopped, values, mixed, hand, down, dialled, handled, late>>

\* Discord resumes a session it knows from a number it has sent.
Resume(p) ==
  /\ pc[p] = "identify"
  /\ ~(sessionID = NoSession /\ loaded = 0)
  /\ mixed' = (mixed \/ loadedFrom # sessionID)
  /\ \/ LET k == sessionID IN
        /\ k \in alive /\ loaded <= sent[k] /\ sent[k] < MaxSequence
        /\ sent' = [sent EXCEPT ![k] = @ + 1]
        /\ inbox' = [inbox EXCEPT ![wsConn] = [i \in 1..(sent[k] + 1 - loaded) |-> Dispatch(k, loaded + i)]]
        /\ serves' = [c \in Conns |-> IF c = wsConn THEN k ELSE IF serves[c] = k THEN NoSession ELSE serves[c]]
        /\ UNCHANGED alive
     \/ /\ inbox' = [inbox EXCEPT ![wsConn] = <<Invalid(FALSE)>>]
        /\ alive' = alive \ {sessionID}
        /\ UNCHANGED <<sent, serves>>
  /\ Loaded(0, NoSession)
  /\ Goto(p, "first")
  /\ UNCHANGED <<lock, wsConn, stopped, values, hand, down, dialled, handled, late>>

\* The first packet is handled inside Open; READY brings the session's id.
\* The goroutines of the websocket start.
FirstPacket(p) ==
  LET d == inbox[wsConn][1] IN
  /\ pc[p] = "first" /\ wsConn \notin down /\ inbox[wsConn] # <<>>
  /\ d.op = "dispatch"
  /\ sequence' = d.number /\ origin' = d.session
  /\ sessionID' = IF d.number = 1 THEN d.session ELSE sessionID
  /\ handled' = [handled EXCEPT ![d.session][d.number] = @ + 1]
  /\ inbox' = [inbox EXCEPT ![wsConn] = Tail(@)]
  /\ lock' = Nobody
  /\ pc' = [pc EXCEPT ![p] = "off", ![listen(wsConn)] = "read", ![heartbeat(wsConn)] = "beat"]
  /\ UNCHANGED <<wsConn, stopped, opening, hand, down, discord, dialled, late>>

\* onEvent closes the session for Op 9 and Op 7, and waits for the lock Open
\* holds (InvalidSessionAnswered in Gateway): nothing follows.
FirstPacketHangs(p) ==
  /\ pc[p] = "first" /\ wsConn \notin down /\ inbox[wsConn] # <<>>
  /\ inbox[wsConn][1].op # "dispatch"
  /\ Goto(p, "hangs")
  /\ UNCHANGED <<lock, wsConn, stopped, values, opening, hand, inbox, down, discord, dialled, handled, late>>

-------------------------------------------------------------------------------
(* CloseWithCode, from the application, a read error, a failed heartbeat,     *)
(* Op 7 and Op 9.                                                             *)

AfterClose(p) ==
  CASE p = app -> "off"
    [] p # app /\ pc[p] = "close" -> "open"
    [] p # app /\ pc[p] = "forget" -> "forgetID"

\* Mutant: no look whether there is a websocket.
CloseWithCodeUnchecked(p) ==
  /\ pc[p] \in {"close", "forget"} /\ lock = Nobody
  /\ stopped' = stopped \cup {wsConn}
  /\ Down({wsConn} \ {NoConn})
  /\ wsConn' = NoConn
  /\ Goto(p, AfterClose(p))
  /\ UNCHANGED <<lock, values, opening, hand, discord, dialled, handled, late>>

CloseWithCode(p) ==
  /\ pc[p] \in {"close", "forget"} /\ lock = Nobody
  /\ stopped' = stopped \cup ({wsConn} \ {NoConn})
  /\ Down({wsConn} \ {NoConn})
  /\ wsConn' = NoConn
  /\ Goto(p, AfterClose(p))
  /\ UNCHANGED <<lock, values, opening, hand, discord, dialled, handled, late>>

\* Op 9, not resumable: two assignments without the lock.
ForgetID(p) ==
  /\ pc[p] = "forgetID"
  /\ sessionID' = NoSession
  /\ Goto(p, "forgetSequence")
  /\ UNCHANGED <<lock, wsConn, stopped, sequence, origin, opening, hand, inbox, down, discord, dialled, handled, late>>

ForgetSequence(p) ==
  /\ pc[p] = "forgetSequence"
  /\ sequence' = 0 /\ origin' = NoSession
  /\ Goto(p, "open")
  /\ UNCHANGED <<lock, wsConn, stopped, sessionID, opening, hand, inbox, down, discord, dialled, handled, late>>

-------------------------------------------------------------------------------
(* listen and heartbeat.                                                      *)

\* Mutant: the number is stored before the select.
ReadStores(c) ==
  /\ pc[listen(c)] = "read" /\ c \notin down /\ inbox[c] # <<>>
  /\ hand' = [hand EXCEPT ![c] = Head(inbox[c])]
  /\ inbox' = [inbox EXCEPT ![c] = Tail(@)]
  /\ Goto(listen(c), "select")
  /\ sequence' = IF Head(inbox[c]).op = "dispatch" THEN Head(inbox[c]).number ELSE sequence
  /\ origin' = IF Head(inbox[c]).op = "dispatch" THEN Head(inbox[c]).session ELSE origin
  /\ UNCHANGED <<lock, wsConn, stopped, sessionID, opening, down, discord, dialled, handled, late>>

Read(c) ==
  /\ pc[listen(c)] = "read" /\ c \notin down /\ inbox[c] # <<>>
  /\ hand' = [hand EXCEPT ![c] = Head(inbox[c])]
  /\ inbox' = [inbox EXCEPT ![c] = Tail(@)]
  /\ Goto(listen(c), "select")
  /\ UNCHANGED <<lock, wsConn, stopped, values, opening, down, discord, dialled, handled, late>>

ReadError(c) ==
  /\ pc[listen(c)] = "read" /\ c \in down
  /\ Goto(listen(c), IF wsConn = c THEN "close" ELSE "off")
  /\ UNCHANGED <<lock, wsConn, stopped, values, opening, hand, inbox, down, discord, dialled, handled, late>>

Select(c) ==
  /\ pc[listen(c)] = "select"
  /\ Goto(listen(c), CASE c \in stopped -> "off"
                       [] c \notin stopped /\ hand[c].op = "dispatch"  -> "store"
                       [] c \notin stopped /\ hand[c] = Invalid(FALSE) -> "forget"
                       [] OTHER -> "close")
  /\ hand' = IF c \notin stopped /\ hand[c].op = "dispatch" THEN hand ELSE [hand EXCEPT ![c] = Nothing]
  /\ UNCHANGED <<lock, wsConn, stopped, values, opening, inbox, down, discord, dialled, handled, late>>

\* onEvent stores the number of any dispatch, whatever happened to the
\* websocket since the select; then the handlers run.
Store(c) ==
  /\ pc[listen(c)] = "store"
  /\ sequence' = hand[c].number /\ origin' = hand[c].session
  /\ late' = IF wsConn = c THEN late ELSE late \cup {hand[c]}
  /\ Goto(listen(c), "handle")
  /\ UNCHANGED <<lock, wsConn, stopped, sessionID, opening, hand, inbox, down, discord, dialled, handled>>

\* READY again (a Resume from 0) sets the id again.
Handle(c) ==
  LET d == hand[c] IN
  /\ pc[listen(c)] = "handle"
  /\ handled' = [handled EXCEPT ![d.session][d.number] = @ + 1]
  /\ sessionID' = IF d.number = 1 THEN d.session ELSE sessionID
  /\ hand' = [hand EXCEPT ![c] = Nothing]
  /\ Goto(listen(c), "read")
  /\ UNCHANGED <<lock, wsConn, stopped, sequence, origin, opening, inbox, down, discord, dialled, late>>

\* A write that fails, or acknowledgements that stay out.
BeatError(c) ==
  /\ pc[heartbeat(c)] = "beat"
  /\ Goto(heartbeat(c), "close")
  /\ UNCHANGED <<lock, wsConn, stopped, values, opening, hand, inbox, down, discord, dialled, handled, late>>

Stopped(c) ==
  /\ pc[heartbeat(c)] = "beat" /\ c \in stopped
  /\ Goto(heartbeat(c), "off")
  /\ UNCHANGED <<lock, wsConn, stopped, values, opening, hand, inbox, down, discord, dialled, handled, late>>

-------------------------------------------------------------------------------
(* The application, the network and Discord.                                  *)

Application ==
  /\ pc[app] = "off"
  /\ \E call \in Calls : Goto(app, call)
  /\ UNCHANGED <<lock, wsConn, stopped, values, opening, hand, inbox, down, discord, dialled, handled, late>>

Breaks ==
  /\ wsConn # NoConn /\ wsConn \notin down
  /\ Down({wsConn})
  /\ UNCHANGED <<lock, wsConn, stopped, values, opening, pc, hand, discord, dialled, handled, late>>

Send(c, packet) ==
  inbox' = IF c \in down THEN inbox ELSE [inbox EXCEPT ![c] = Append(@, packet)]

Dispatches(c) ==
  LET k == serves[c] IN
  /\ k \in alive /\ sent[k] < MaxSequence
  /\ sent' = [sent EXCEPT ![k] = @ + 1]
  /\ Send(c, Dispatch(k, sent[k] + 1))
  /\ UNCHANGED <<lock, wsConn, stopped, values, opening, pc, hand, down, serves, alive, dialled, handled, late>>

\* Op 7, and Op 9 with and without leave to resume: the last packet.
Dismisses(c) ==
  /\ serves[c] \in alive
  /\ \E packet \in {Reconnect, Invalid(TRUE), Invalid(FALSE)} :
       /\ Send(c, packet)
       /\ alive' = IF packet = Invalid(FALSE) THEN alive \ {serves[c]} ELSE alive
  /\ serves' = [serves EXCEPT ![c] = NoSession]
  /\ UNCHANGED <<lock, wsConn, stopped, values, opening, pc, hand, down, sent, dialled, handled, late>>

-------------------------------------------------------------------------------

Init ==
  /\ lock = Nobody /\ wsConn = NoConn /\ stopped = {}
  /\ sequence = 0 /\ sessionID = NoSession /\ origin = NoSession
  /\ loaded = 0 /\ loadedFrom = NoSession /\ mixed = FALSE
  /\ pc = [p \in Procs |-> IF p = app THEN "open" ELSE "off"]
  /\ hand = [c \in Conns |-> Nothing]
  /\ inbox = [c \in Conns |-> <<>>]
  /\ down = {} /\ dialled = 0
  /\ serves = [c \in Conns |-> NoSession]
  /\ alive = {} /\ sent = [k \in Sessions |-> 0]
  /\ handled = [k \in Sessions |-> [n \in 1..MaxSequence |-> 0]]
  /\ late = {}

Opens(p) ==
  \/ OpenBegin(p) \/ Dial(p) \/ OpenFails(p) \/ Identify(p) \/ Resume(p)
  \/ FirstPacket(p) \/ FirstPacketHangs(p)
  \/ CloseWithCode(p) \/ ForgetID(p) \/ ForgetSequence(p)

Loops(c) ==
  \/ Read(c) \/ ReadError(c) \/ Select(c) \/ Store(c) \/ Handle(c)
  \/ BeatError(c) \/ Stopped(c)

Environment == Application \/ Breaks \/ \E c \in Conns : Dispatches(c) \/ Dismisses(c)

Next ==
  \/ \E p \in Procs : Opens(p)
  \/ \E c \in Conns : Loops(c)
  \/ Environment

Spec == Init /\ [][Next]_vars

-------------------------------------------------------------------------------
(* Properties.                                                                *)

\* The state has its type, and no dispatch is on its way that was never sent.
TypeOK ==
  /\ lock \in Procs \cup {Nobody} /\ wsConn \in 0..dialled /\ dialled \in 0..MaxDials
  /\ stopped \subseteq 1..dialled /\ down \subseteq 1..dialled
  /\ sequence \in 0..MaxSequence /\ loaded \in 0..MaxSequence
  /\ {sessionID, origin, loadedFrom} \subseteq Sessions \cup {NoSession}
  /\ alive \subseteq {k \in Sessions : sent[k] > 0}
  /\ \A c \in Conns : \A d \in ToSet(inbox[c]) \cup {hand[c]} :
       d \in Packets /\ (d.op = "dispatch" => d.number <= sent[d.session])

InHand(k, n) == \E c \in Conns : pc[listen(c)] = "handle" /\ hand[c] = Dispatch(k, n)

\* A reconnect loses nothing: as long as every Resume named the session its
\* number came from, each dispatch up to the number the client would resume
\* from has been handled or is about to be, however the goroutines of the old
\* and the new websocket interleave.
NothingLost ==
  ~mixed /\ sessionID # NoSession /\ origin = sessionID =>
    \A n \in 1..sequence : handled[sessionID][n] > 0 \/ InHand(sessionID, n)

\* A dispatch is handled twice only because a listen goroutine of a replaced
\* websocket, past its select, stored and handled it or an earlier one late.
TwiceOnlyLate ==
  ~mixed => \A k \in Sessions : \A n \in 1..MaxSequence :
    handled[k][n] > 1 => \E m \in 1..n : Dispatch(k, m) \in late

\* wsapi.go:130-131: "Now we send either an Op 2 Identity if this is a brand
\* new connection or Op 6 Resume if we are resuming an existing connection": a
\* Resume has the id and the number of one session.
ResumesOneSession == ~mixed

===============================================================================
