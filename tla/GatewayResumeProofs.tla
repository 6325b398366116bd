------------------------- MODULE GatewayResumeProofs -------------------------
(* Theorems about GatewayResume, for any number of websockets and dispatches  *)
(* and any calls of the application: the types, that a reconnect loses no     *)
(* dispatch and that none is handled twice but by a goroutine that was late.  *)
EXTENDS GatewayResume, SequenceTheorems, TLAPS

-------------------------------------------------------------------------------
(* The inductive invariant: first what holds of every run.                    *)

Labels == {"off", "open", "dial", "identify", "first", "hangs", "close", "forget",
           "forgetID", "forgetSequence", "read", "select", "store", "handle", "beat"}
Opening == {"dial", "identify", "first", "hangs"}

TypeSession ==
  /\ lock \in Procs \cup {Nobody} /\ mixed \in BOOLEAN
  /\ sequence \in 0..MaxSequence /\ loaded \in 0..MaxSequence
  /\ sessionID \in Sessions \cup {NoSession} /\ origin \in Sessions \cup {NoSession}
  /\ loadedFrom \in Sessions \cup {NoSession}
TypeSockets ==
  /\ dialled \in 0..MaxDials /\ wsConn \in 0..dialled
  /\ stopped \subseteq down /\ down \subseteq 1..dialled
TypeLabels == pc \in [Procs -> Labels]
TypePackets == hand \in [Conns -> Packets] /\ inbox \in [Conns -> Seq(Packets)]
TypeDiscord ==
  /\ serves \in [Conns -> Sessions \cup {NoSession}]
  /\ alive \subseteq Sessions /\ sent \in [Sessions -> 0..MaxSequence]
  /\ handled \in [Sessions -> [1..MaxSequence -> Nat]]
Types == TypeSession /\ TypeSockets /\ TypeLabels /\ TypePackets /\ TypeDiscord

\* The Session's mutex is held by the goroutine in Open.
Locking == \A p \in Procs : lock = p <=> pc[p] \in Opening

Unstarted(c) == hand[c] = Nothing /\ pc[listen(c)] = "off" /\ pc[heartbeat(c)] = "off"

\* A websocket is fresh, or s.wsConn, or down; until its first packet nobody
\* listens to it; and a number is loaded only while Open dials and identifies.
Fresh == \A c \in Conns : c > dialled => inbox[c] = <<>> /\ serves[c] = NoSession /\ Unstarted(c)
OldDown == \A c \in 1..dialled : c # wsConn => c \in down
BeforeFirst == \A p \in Procs :
  /\ pc[p] = "dial" => wsConn = NoConn
  /\ pc[p] \in {"identify", "first"} => wsConn # NoConn /\ Unstarted(wsConn)
  /\ pc[p] = "identify" => serves[wsConn] = NoSession
LoadedInOpen == loadedFrom # NoSession => lock # Nobody /\ pc[lock] \in {"dial", "identify"}
Websockets == Fresh /\ OldDown /\ BeforeFirst /\ LoadedInOpen

Hands == \A c \in Conns :
  /\ pc[listen(c)] \in {"store", "handle"} => hand[c].op = "dispatch"
  /\ pc[listen(c)] \notin {"select", "store", "handle"} => hand[c] = Nothing

\* No number is on its way, or was handled, that Discord has not sent.
Known(d, numbers) == d.op = "dispatch" => d.number <= numbers[d.session]

KnownPackets == \A c \in Conns : Known(hand[c], sent) /\ \A i \in 1..Len(inbox[c]) : Known(inbox[c][i], sent)
KnownHandled == \A k \in Sessions : \A n \in 1..MaxSequence : handled[k][n] > 0 => n <= sent[k]
Served ==
  /\ \A k \in alive : sent[k] > 0
  /\ \A c \in Conns : serves[c] # NoSession =>
       sent[serves[c]] > 0 /\ \A d \in Conns : serves[d] = serves[c] => d = c
Numbered == KnownPackets /\ KnownHandled /\ Served

\* On a websocket the dispatches come in the order of their numbers, up to the
\* last one of the session it serves.
Follows(d, e) ==
  e.op = "dispatch" => d.op = "dispatch" /\ d.session = e.session /\ e.number = d.number + 1

InOrder == \A c \in Conns :
  /\ \A i \in 1..Len(inbox[c]) - 1 : Follows(inbox[c][i], inbox[c][i + 1])
  /\ inbox[c] # <<>> /\ hand[c].op = "dispatch" => Follows(hand[c], inbox[c][1])

Tip == \A c \in Conns \ down : serves[c] # NoSession =>
  /\ inbox[c] # <<>> => inbox[c][Len(inbox[c])] = Dispatch(serves[c], sent[serves[c]])
  /\ inbox[c] = <<>> /\ hand[c].op = "dispatch" => hand[c] = Dispatch(serves[c], sent[serves[c]])

-------------------------------------------------------------------------------
(* Then what holds while no Resume mixed two sessions.                        *)

\* Handled, or being handled; and all of a session's first n dispatches are.
Doing(k, n) == handled[k][n] > 0 \/ InHand(k, n)
Covered(k, n) == \A i \in 1..n : Doing(k, i)

\* What comes before the next dispatch of a websocket is covered, or it is in
\* the hand of its listen; and so is what the client would resume from.
ToCome == \A c \in Conns \ down :
  inbox[c] # <<>> /\ inbox[c][1].op = "dispatch" /\ hand[c].op # "dispatch"
    => Covered(inbox[c][1].session, inbox[c][1].number - 1)
CaughtUp == \A c \in Conns \ down :
  serves[c] # NoSession /\ inbox[c] = <<>> /\ hand[c].op # "dispatch"
    => Covered(serves[c], sent[serves[c]])
Held == \A c \in Conns : hand[c].op = "dispatch" => Covered(hand[c].session, hand[c].number - 1)
Stored == origin # NoSession => Covered(origin, sequence)
Carried == loadedFrom # NoSession => Covered(loadedFrom, loaded)
Whole == ToCome /\ CaughtUp /\ Held /\ Stored /\ Carried

\* A dispatch up to n was stored late; and from n on only such are handled.
Late(k, n) == \E m \in 1..n : Dispatch(k, m) \in late
NewFrom(k, n) == \A m \in n..MaxSequence : Doing(k, m) => Late(k, m)

\* Two goroutines with one dispatch, or one that was handled before.
Twice == \A k \in Sessions : \A n \in 1..MaxSequence :
  /\ handled[k][n] > 1 => Late(k, n)
  /\ handled[k][n] > 0 /\ InHand(k, n) => Late(k, n)
  /\ \A c, d \in Conns :
       /\ c # d /\ pc[listen(c)] = "handle" /\ pc[listen(d)] = "handle"
       /\ hand[c] = Dispatch(k, n) /\ hand[d] = Dispatch(k, n)
       => Late(k, n)

\* What is still to come on s.wsConn, and what a Resume would bring, is new.
NewToCome ==
  wsConn # NoConn /\ wsConn \notin down /\ inbox[wsConn] # <<>> /\ inbox[wsConn][1].op = "dispatch"
    => NewFrom(inbox[wsConn][1].session, inbox[wsConn][1].number)
NewInHand ==
  wsConn # NoConn /\ pc[listen(wsConn)] \in {"select", "store"} /\ hand[wsConn].op = "dispatch"
    => NewFrom(hand[wsConn].session, hand[wsConn].number)
NewAfter == origin # NoSession => NewFrom(origin, sequence + 1)
NewCarried == loadedFrom # NoSession => NewFrom(loadedFrom, loaded + 1)
News == NewToCome /\ NewInHand /\ NewAfter /\ NewCarried

Structure == Types /\ Locking /\ Websockets /\ Hands
Streams == Numbered /\ InOrder /\ Tip
Unmixed == ~mixed => Whole /\ Twice /\ News
IInv == Structure /\ Streams /\ Unmixed

-------------------------------------------------------------------------------
(* Lemmas about the goroutines and the packets.                               *)

LEMMA ProcFacts ==
  /\ app \in Procs /\ Nobody \notin Procs
  /\ \A c \in Conns : /\ listen(c) \in Procs /\ heartbeat(c) \in Procs
                      /\ listen(c) # app /\ heartbeat(c) # app
  /\ \A c, d \in Conns : /\ listen(c) # heartbeat(d)
                         /\ listen(c) = listen(d) => c = d
                         /\ heartbeat(c) = heartbeat(d) => c = d
BY DEF Procs, app, Nobody, listen, heartbeat

LEMMA DispatchFacts ==
  /\ \A k, n : /\ Dispatch(k, n).op = "dispatch"
               /\ Dispatch(k, n).session = k /\ Dispatch(k, n).number = n
  /\ \A k \in Sessions, n \in 1..MaxSequence : Dispatch(k, n) \in Packets
<1>1. \A k, n : /\ Dispatch(k, n).op = "dispatch"
                /\ Dispatch(k, n).session = k /\ Dispatch(k, n).number = n
  BY DEF Dispatch
<1>2. \A k \in Sessions, n \in 1..MaxSequence : Dispatch(k, n) \in Packets
  BY DEF Packets, Invalid
<1> QED  BY <1>1, <1>2

LEMMA NothingFacts == Nothing.op = "none" /\ Nothing \in Packets
BY DEF Nothing, Packets, Invalid

LEMMA OtherFacts ==
  /\ Invalid(TRUE).op = "invalid" /\ Invalid(FALSE).op = "invalid"
  /\ Reconnect.op = "reconnect" /\ Nothing.op = "none"
  /\ {Invalid(TRUE), Invalid(FALSE), Reconnect, Nothing} \subseteq Packets
BY DEF Invalid, Reconnect, Nothing, Packets

LEMMA PacketFacts ==
  ASSUME NEW d \in Packets, d.op = "dispatch"
  PROVE  d.session \in Sessions /\ d.number \in 1..MaxSequence /\ d = Dispatch(d.session, d.number)
<1>1. PICK k \in Sessions, n \in 1..MaxSequence : d = Dispatch(k, n)
  BY OtherFacts DEF Packets, Invalid
<1> QED  BY <1>1, DispatchFacts

LEMMA Places ==
  /\ NoConn = 0 /\ NoSession = 0 /\ MaxDials \in Nat /\ MaxSequence \in Nat
  /\ \A c : c \in Conns <=> c \in Nat /\ 1 <= c /\ c <= MaxDials
  /\ \A k : k \in Sessions <=> k \in Nat /\ 1 <= k /\ k <= MaxDials
BY ResumeAssumption DEF NoConn, NoSession, Conns, Sessions

\* No goroutine comes to a handler or leaves one.
Quiet ==
  /\ handled' = handled /\ late' = late
  /\ \A c \in Conns : pc[listen(c)] = "handle" \/ pc'[listen(c)] = "handle"
       => pc'[listen(c)] = pc[listen(c)] /\ hand'[c] = hand[c]

LEMMA QuietKeeps ==
  ASSUME Quiet
  PROVE  /\ \A k, n : Doing(k, n)' <=> Doing(k, n)
         /\ \A k, n : Covered(k, n)' <=> Covered(k, n)
         /\ \A k, n : NewFrom(k, n)' <=> NewFrom(k, n)
         /\ Twice => Twice'
<1>1. \A k, n : InHand(k, n)' <=> InHand(k, n)
  BY DEF Quiet, InHand
<1>2. \A k, n : Doing(k, n)' <=> Doing(k, n)
  BY <1>1 DEF Quiet, Doing
<1>3. \A k, n : Late(k, n)' <=> Late(k, n)
  BY DEF Quiet, Late
<1>4. \A k, n : Covered(k, n)' <=> Covered(k, n)
  BY <1>2 DEF Covered
<1>5. \A k, n : NewFrom(k, n)' <=> NewFrom(k, n)
  BY <1>2, <1>3 DEF NewFrom
<1>6. Twice => Twice'
  <2>1. \A c \in Conns : pc'[listen(c)] = "handle" => pc[listen(c)] = "handle" /\ hand'[c] = hand[c]
    BY DEF Quiet
  <2> QED  BY <1>1, <1>3, <2>1 DEF Twice, Quiet
<1> QED  BY <1>2, <1>4, <1>5, <1>6

LEMMA NewFromNext ==
  ASSUME NEW k, NEW n \in Nat, NewFrom(k, n)
  PROVE  NewFrom(k, n + 1)
BY Places DEF NewFrom

\* A packet is read from a websocket.
LEMMA TailFacts ==
  ASSUME Types, NEW c \in Conns, inbox[c] # <<>>, inbox' = [inbox EXCEPT ![c] = Tail(@)]
  PROVE  /\ Head(inbox[c]) = inbox[c][1] /\ inbox[c][1] \in Packets
         /\ Len(inbox[c]) \in Nat \ {0} /\ inbox'[c] \in Seq(Packets)
         /\ Len(inbox'[c]) = Len(inbox[c]) - 1
         /\ \A i \in 1..Len(inbox'[c]) : inbox'[c][i] = inbox[c][i + 1] /\ i + 1 \in 1..Len(inbox[c])
         /\ inbox'[c] = <<>> <=> Len(inbox[c]) = 1
         /\ \A d \in Conns : d # c => inbox'[d] = inbox[d]
<1>1. inbox \in [Conns -> Seq(Packets)] /\ inbox[c] \in Seq(Packets)
  BY DEF Types, TypePackets
<1>2. inbox'[c] = Tail(inbox[c]) /\ \A d \in Conns : d # c => inbox'[d] = inbox[d]
  BY <1>1
<1>3. Len(inbox[c]) \in Nat \ {0} /\ Head(inbox[c]) = inbox[c][1] /\ inbox[c][1] \in Packets
  BY <1>1
<1>4. /\ inbox'[c] \in Seq(Packets) /\ Len(inbox'[c]) = Len(inbox[c]) - 1
      /\ \A i \in 1..Len(inbox'[c]) : inbox'[c][i] = inbox[c][i + 1]
  BY <1>1, <1>2, HeadTailProperties
<1>5. \A i \in 1..Len(inbox'[c]) : i + 1 \in 1..Len(inbox[c])
  BY <1>3, <1>4
<1>6. inbox'[c] = <<>> <=> Len(inbox[c]) = 1
  <2>1. \A s \in Seq(Packets) : s = <<>> <=> Len(s) = 0
    OBVIOUS
  <2>2. inbox'[c] = <<>> <=> Len(inbox'[c]) = 0
    <3>1. inbox'[c] \in Seq(Packets)
      BY <1>4
    <3> QED  BY <2>1, <3>1
  <2> QED  BY <1>3, <1>4, <2>2
<1> QED  BY <1>2, <1>3, <1>4, <1>5, <1>6

\* A packet is put on a websocket that is not down.
LEMMA AppendFacts ==
  ASSUME Types, NEW c \in Conns, c \notin down, NEW d \in Packets,
         inbox' = [inbox EXCEPT ![c] = Append(@, d)]
  PROVE  /\ inbox'[c] \in Seq(Packets) /\ Len(inbox[c]) \in Nat
         /\ Len(inbox'[c]) = Len(inbox[c]) + 1 /\ inbox'[c] # <<>>
         /\ inbox[c] = <<>> <=> Len(inbox[c]) = 0
         /\ inbox'[c][Len(inbox[c]) + 1] = d
         /\ \A i \in 1..Len(inbox[c]) : inbox'[c][i] = inbox[c][i]
         /\ \A e \in Conns : e # c => inbox'[e] = inbox[e]
<1>1. inbox \in [Conns -> Seq(Packets)] /\ inbox[c] \in Seq(Packets)
  BY DEF Types, TypePackets
<1>2. inbox'[c] = Append(inbox[c], d) /\ \A e \in Conns : e # c => inbox'[e] = inbox[e]
  BY <1>1
<1>3. /\ inbox'[c] \in Seq(Packets) /\ Len(inbox[c]) \in Nat
      /\ Len(inbox'[c]) = Len(inbox[c]) + 1
  BY <1>1, <1>2
<1>4. /\ inbox'[c][Len(inbox[c]) + 1] = d
      /\ \A i \in 1..Len(inbox[c]) : inbox'[c][i] = inbox[c][i]
  BY <1>1, <1>2
<1>5. inbox[c] = <<>> <=> Len(inbox[c]) = 0
  BY <1>1
<1>6. inbox'[c] # <<>>
  <2>1. \A s \in Seq(Packets) : s = <<>> => Len(s) = 0
    OBVIOUS
  <2> QED  BY <1>3, <2>1
<1> QED  BY <1>2, <1>3, <1>4, <1>5, <1>6

\* What is known stays known when Discord sends more.
LEMMA KnownKept ==
  ASSUME Types, TypeDiscord', KnownPackets, KnownHandled, hand' = hand, handled' = handled,
         \A k \in Sessions : sent[k] <= sent'[k],
         \A c \in Conns : \A i \in 1..Len(inbox'[c]) :
           \/ \E j \in 1..Len(inbox[c]) : inbox'[c][i] = inbox[c][j]
           \/ Known(inbox'[c][i], sent')
  PROVE  KnownPackets' /\ KnownHandled'
<1>1. ASSUME NEW d \in Packets, Known(d, sent)
      PROVE  Known(d, sent')
  <2>1. SUFFICES ASSUME d.op = "dispatch" PROVE d.number <= sent'[d.session]
    BY DEF Known
  <2>2. d.session \in Sessions /\ d.number \in Nat /\ d.number <= sent[d.session]
    BY <1>1, <2>1, PacketFacts DEF Known
  <2> QED  BY <2>2, Places DEF Types, TypeDiscord
<1>2. \A c \in Conns : Known(hand'[c], sent')
  BY <1>1 DEF KnownPackets, Types, TypePackets
<1>3. \A c \in Conns : \A i \in 1..Len(inbox'[c]) : Known(inbox'[c][i], sent')
  <2>1. \A c \in Conns : \A j \in 1..Len(inbox[c]) : inbox[c][j] \in Packets /\ Known(inbox[c][j], sent)
    BY DEF KnownPackets, Types, TypePackets
  <2> QED  BY <1>1, <2>1
<1>4. KnownHandled'
  BY Places DEF KnownHandled, Types, TypeDiscord
<1> QED  BY <1>2, <1>3, <1>4 DEF KnownPackets

\* Nothing was handled that Discord has not sent.
LEMMA DoingSent ==
  ASSUME Types, Hands, Numbered
  PROVE  \A k \in Sessions : \A n \in 1..MaxSequence : Doing(k, n) => n <= sent[k]
<1>1. ASSUME NEW k \in Sessions, NEW n \in 1..MaxSequence, NEW c \in Conns, hand[c] = Dispatch(k, n)
      PROVE  n <= sent[k]
  BY <1>1, DispatchFacts DEF Numbered, KnownPackets, Known
<1> QED  BY <1>1 DEF Doing, InHand, Numbered, KnownHandled

\* A step after which dispatch n of session k is handled, or being handled.
LEMMA DoingGrows ==
  ASSUME NEW k \in Sessions, NEW n \in 1..MaxSequence,
         \A j \in Sessions : \A i \in 1..MaxSequence :
           Doing(j, i)' <=> Doing(j, i) \/ (j = k /\ i = n),
         \A j \in Sessions : \A i \in 1..MaxSequence : Late(j, i) => Late(j, i)'
  PROVE  /\ \A j \in Sessions : \A i \in 0..MaxSequence : Covered(j, i) => Covered(j, i)'
         /\ Covered(k, n - 1) => Covered(k, n)'
         /\ NewFrom(k, n) => NewFrom(k, n + 1)'
         /\ Late(k, n)' => NewFrom(k, n + 1)'
         /\ Late(k, n)' => \A j \in Sessions : \A i \in Nat : i > 0 /\ NewFrom(j, i) => NewFrom(j, i)'
<1>1. \A j \in Sessions : \A i \in 0..MaxSequence : Covered(j, i) => Covered(j, i)'
  BY Places DEF Covered
<1>2. Covered(k, n - 1) => Covered(k, n)'
  <2>1. \A i \in 1..n : i \in 1..MaxSequence /\ (i = n \/ i \in 1..(n - 1))
    BY Places
  <2> QED  BY <2>1 DEF Covered
<1>3. NewFrom(k, n) => NewFrom(k, n + 1)'
  <2>1. \A i \in (n + 1)..MaxSequence : i \in n..MaxSequence /\ i \in 1..MaxSequence /\ i # n
    BY Places
  <2> QED  BY <2>1 DEF NewFrom
<1>4. Late(k, n)' => \A i \in n..MaxSequence : Late(k, i)'
  BY Places DEF Late
<1>5. Late(k, n)' => NewFrom(k, n + 1)'
  <2>1. \A i \in (n + 1)..MaxSequence : i \in n..MaxSequence
    BY Places
  <2> QED  BY <1>4, <2>1 DEF NewFrom
<1>6. ASSUME Late(k, n)', NEW j \in Sessions, NEW i \in Nat, i > 0, NewFrom(j, i)
      PROVE  NewFrom(j, i)'
  <2>1. \A m \in i..MaxSequence : m \in 1..MaxSequence
    BY <1>6, Places
  <2> QED  BY <1>6, <2>1 DEF NewFrom
<1> QED  BY <1>1, <1>2, <1>3, <1>5, <1>6

\* The sessions and numbers of packets, of Discord and of the client.
LEMMA Ranges ==
  ASSUME Types
  PROVE  /\ \A c \in Conns : hand[c].op = "dispatch"
              => hand[c].session \in Sessions /\ hand[c].number \in 1..MaxSequence
         /\ \A c \in Conns : inbox[c] # <<>> /\ inbox[c][1].op = "dispatch"
              => inbox[c][1].session \in Sessions /\ inbox[c][1].number \in 1..MaxSequence
         /\ \A c \in Conns : serves[c] # NoSession
              => serves[c] \in Sessions /\ sent[serves[c]] \in 0..MaxSequence
         /\ origin # NoSession => origin \in Sessions /\ sequence \in 0..MaxSequence
         /\ loadedFrom # NoSession => loadedFrom \in Sessions /\ loaded \in 0..MaxSequence
         /\ wsConn # NoConn => wsConn \in Conns
<1>1. \A c \in Conns : hand[c].op = "dispatch"
        => hand[c].session \in Sessions /\ hand[c].number \in 1..MaxSequence
  BY PacketFacts DEF Types, TypePackets
<1>2. \A c \in Conns : inbox[c] # <<>> /\ inbox[c][1].op = "dispatch"
        => inbox[c][1].session \in Sessions /\ inbox[c][1].number \in 1..MaxSequence
  <2>1. \A c \in Conns : inbox[c] # <<>> => inbox[c][1] \in Packets
    BY DEF Types, TypePackets
  <2> QED  BY <2>1, PacketFacts
<1>3. \A c \in Conns : serves[c] # NoSession
        => serves[c] \in Sessions /\ sent[serves[c]] \in 0..MaxSequence
  BY DEF Types, TypeDiscord
<1>4. /\ origin # NoSession => origin \in Sessions /\ sequence \in 0..MaxSequence
      /\ loadedFrom # NoSession => loadedFrom \in Sessions /\ loaded \in 0..MaxSequence
  BY DEF Types, TypeSession
<1>5. wsConn # NoConn => wsConn \in Conns
  BY Places DEF Types, TypeSockets
<1> QED  BY <1>1, <1>2, <1>3, <1>4, <1>5

\* Discord resumes the session, or refuses.
Accepted(p) ==
  LET k == sessionID IN
  /\ pc[p] = "identify" /\ mixed' = (mixed \/ loadedFrom # k)
  /\ k \in alive /\ loaded <= sent[k] /\ sent[k] < MaxSequence
  /\ sent' = [sent EXCEPT ![k] = @ + 1]
  /\ inbox' = [inbox EXCEPT ![wsConn] = [i \in 1..(sent[k] + 1 - loaded) |-> Dispatch(k, loaded + i)]]
  /\ serves' = [c \in Conns |-> IF c = wsConn THEN k ELSE IF serves[c] = k THEN NoSession ELSE serves[c]]
  /\ Loaded(0, NoSession) /\ Goto(p, "first")
  /\ UNCHANGED <<alive, lock, wsConn, stopped, values, hand, down, dialled, handled, late>>

Refused(p) ==
  /\ pc[p] = "identify" /\ mixed' = (mixed \/ loadedFrom # sessionID)
  /\ inbox' = [inbox EXCEPT ![wsConn] = <<Invalid(FALSE)>>]
  /\ alive' = alive \ {sessionID}
  /\ Loaded(0, NoSession) /\ Goto(p, "first")
  /\ UNCHANGED <<sent, serves, lock, wsConn, stopped, values, hand, down, dialled, handled, late>>

LEMMA ResumeCases == \A p : Resume(p) => Accepted(p) \/ Refused(p)
BY DEF Resume, Accepted, Refused

LEMMA OpenBeginKeeps ==
  ASSUME IInv, NEW p \in Procs, OpenBegin(p)
  PROVE  IInv'
<1>0. Types /\ Locking /\ Websockets /\ Hands /\ Numbered /\ InOrder /\ Tip
      /\ (~mixed => Whole /\ Twice /\ News)
  BY DEF IInv, Structure, Streams, Unmixed
<1>u. UNCHANGED <<wsConn, stopped, sequence, sessionID, origin, mixed,
                    hand, inbox, down, serves, alive, sent, dialled,
                    handled, late>>
  BY DEF OpenBegin, Goto, Loaded, values, discord
<1>a. \/ /\ wsConn # NoConn /\ pc' = [pc EXCEPT ![p] = "off"]
         /\ lock' = lock /\ loaded' = loaded /\ loadedFrom' = loadedFrom
      \/ /\ wsConn = NoConn /\ pc' = [pc EXCEPT ![p] = "dial"]
         /\ lock' = p /\ loaded' = sequence /\ loadedFrom' = origin
  BY DEF OpenBegin, Goto, Loaded
<1>1. TypeSession'
  BY <1>0, <1>u, ProcFacts, DispatchFacts, NothingFacts, Places, <1>a
  DEF Types, TypeSession, TypeSockets, TypeLabels, TypePackets,
      TypeDiscord, Websockets, Fresh, OldDown, BeforeFirst, LoadedInOpen,
      Unstarted, Hands, Labels, OpenBegin, Goto, Loaded, values, discord
<1>2. TypeSockets'
  BY <1>0, <1>u DEF Types, TypeSockets
<1>3. TypeLabels'
  <2>1. pc' = [pc EXCEPT ![p] = "off"] \/ pc' = [pc EXCEPT ![p] = "dial"]
    BY <1>a
  <2> QED  BY <1>0, <2>1 DEF Types, TypeLabels, Labels
<1>4. TypePackets'
  BY <1>0, <1>u DEF Types, TypePackets
<1>5. TypeDiscord'
  BY <1>0, <1>u DEF Types, TypeDiscord
<1>6. Locking'
  BY <1>0, <1>u, ProcFacts, DispatchFacts, NothingFacts, Places, <1>a
  DEF Types, TypeSession, TypeSockets, TypeLabels, TypePackets,
      TypeDiscord, Websockets, Fresh, OldDown, BeforeFirst, LoadedInOpen,
      Unstarted, Hands, Locking, Opening, OpenBegin, Goto, Loaded, values,
      discord
<1>7. Fresh'
  BY <1>0, <1>u, ProcFacts, DispatchFacts, NothingFacts, Places, <1>a
  DEF Types, TypeSession, TypeSockets, TypeLabels, TypePackets,
      TypeDiscord, Websockets, Fresh, OldDown, BeforeFirst, LoadedInOpen,
      Unstarted, Hands, OpenBegin, Goto, Loaded, values, discord
<1>8. OldDown'
  BY <1>0, <1>u DEF Websockets, OldDown
<1>9. BeforeFirst'
  BY <1>0, <1>u, ProcFacts, DispatchFacts, NothingFacts, Places, <1>a
  DEF Types, TypeSession, TypeSockets, TypeLabels, TypePackets,
      TypeDiscord, Websockets, Fresh, OldDown, BeforeFirst, LoadedInOpen,
      Unstarted, Hands, Locking, Opening, OpenBegin, Goto, Loaded, values,
      discord
<1>10. LoadedInOpen'
  BY <1>0, <1>u, ProcFacts, DispatchFacts, NothingFacts, Places, <1>a
  DEF Types, TypeSession, TypeSockets, TypeLabels, TypePackets,
      TypeDiscord, Websockets, Fresh, OldDown, BeforeFirst, LoadedInOpen,
      Unstarted, Hands, Locking, Opening, OpenBegin, Goto, Loaded, values,
      discord
<1>11. Hands'
  BY <1>0, <1>u, ProcFacts, DispatchFacts, NothingFacts, Places, <1>a
  DEF Types, TypeSession, TypeSockets, TypeLabels, TypePackets,
      TypeDiscord, Websockets, Fresh, OldDown, BeforeFirst, LoadedInOpen,
      Unstarted, Hands, OpenBegin, Goto, Loaded, values, discord
<1>12. KnownPackets'
  BY <1>0, <1>u DEF Numbered, KnownPackets, Known
<1>13. KnownHandled'
  BY <1>0, <1>u DEF Numbered, KnownHandled
<1>14. Served'
  BY <1>0, <1>u DEF Numbered, Served
<1>15. InOrder'
  BY <1>0, <1>u DEF InOrder, Follows
<1>16. Tip'
  BY <1>0, <1>u DEF Tip
<1>q. Quiet
  BY <1>0, <1>u, ProcFacts, <1>a DEF Quiet, Types, TypeSession, TypeSockets, TypeLabels,
     TypePackets, TypeDiscord, Hands, OpenBegin, Goto
<1>17. ~mixed' => Whole'
  BY <1>0, <1>u, <1>q, QuietKeeps, ProcFacts, DispatchFacts, NothingFacts, Places, <1>a
  DEF Types, TypeSession, TypeSockets, TypeLabels, TypePackets,
      TypeDiscord, Websockets, Fresh, OldDown, BeforeFirst, LoadedInOpen,
      Unstarted, Hands, Whole, ToCome, CaughtUp, Held, Stored, Carried,
      OpenBegin, Goto, Loaded, values, discord
<1>18. ~mixed' => News'
  <2>1. CASE wsConn # NoConn
    <3>1. pc[listen(wsConn)] = pc'[listen(wsConn)] \/ pc'[listen(wsConn)] = "off"
      BY <1>0, <1>a, <2>1, ProcFacts, Places DEF Types, TypeLabels, TypeSockets
    <3> QED  BY <1>0, <1>u, <1>a, <1>q, QuietKeeps, <2>1, <3>1
             DEF News, NewToCome, NewInHand, NewAfter, NewCarried
  <2>2. CASE wsConn = NoConn
    BY <1>0, <1>u, <1>a, <1>q, QuietKeeps, <2>2
       DEF News, NewToCome, NewInHand, NewAfter, NewCarried
  <2> QED  BY <2>1, <2>2
<1> QED
  BY <1>0, <1>u, <1>q, QuietKeeps, <1>1, <1>2, <1>3, <1>4, <1>5, <1>6, <1>7, <1>8, <1>9,
     <1>10, <1>11,
     <1>12, <1>13, <1>14, <1>15, <1>16, <1>17, <1>18
  DEF IInv, Structure, Streams, Unmixed, Types, Websockets, Numbered

LEMMA DialKeeps ==
  ASSUME IInv, NEW p \in Procs, Dial(p)
  PROVE  IInv'
<1>0. Types /\ Locking /\ Websockets /\ Hands /\ Numbered /\ InOrder /\ Tip
      /\ (~mixed => Whole /\ Twice /\ News)
  BY DEF IInv, Structure, Streams, Unmixed
<1>u. UNCHANGED <<lock, stopped, sequence, sessionID, origin, loaded,
                    loadedFrom, mixed, hand, inbox, down, serves, alive,
                    sent, handled, late>>
  BY DEF Dial, Goto, values, opening, discord
<1>a. /\ dialled + 1 \in Conns /\ Unstarted(dialled + 1)
      /\ inbox[dialled + 1] = <<>> /\ serves[dialled + 1] = NoSession
  BY <1>0, Places DEF Dial, Types, TypeSockets, Websockets, Fresh
<1>b. \A r \in Procs : r # p => pc'[r] = pc[r] /\ pc[r] \notin Opening
  BY <1>0 DEF Dial, Goto, Locking, Opening, Types, TypeLabels
<1>c. /\ pc'[listen(dialled + 1)] = "off" /\ pc'[heartbeat(dialled + 1)] = "off"
      /\ hand'[dialled + 1] = Nothing
  BY <1>0, <1>a, <1>b, <1>u, ProcFacts DEF Dial, Goto, Unstarted, Types, TypeLabels
<1>1. TypeSession'
  BY <1>0, <1>u DEF Types, TypeSession
<1>2. TypeSockets'
  BY <1>0, <1>u, ProcFacts, DispatchFacts, NothingFacts, Places
  DEF Types, TypeSession, TypeSockets, TypeLabels, TypePackets,
      TypeDiscord, Websockets, Fresh, OldDown, BeforeFirst, LoadedInOpen,
      Unstarted, Hands, Dial, Goto, values, opening, discord
<1>3. TypeLabels'
  BY <1>0, <1>u, ProcFacts, DispatchFacts, NothingFacts, Places
  DEF Types, TypeSession, TypeSockets, TypeLabels, TypePackets,
      TypeDiscord, Websockets, Fresh, OldDown, BeforeFirst, LoadedInOpen,
      Unstarted, Hands, Labels, Dial, Goto, values, opening, discord
<1>4. TypePackets'
  BY <1>0, <1>u DEF Types, TypePackets
<1>5. TypeDiscord'
  BY <1>0, <1>u DEF Types, TypeDiscord
<1>6. Locking'
  BY <1>0, <1>u, ProcFacts, DispatchFacts, NothingFacts, Places
  DEF Types, TypeSession, TypeSockets, TypeLabels, TypePackets,
      TypeDiscord, Websockets, Fresh, OldDown, BeforeFirst, LoadedInOpen,
      Unstarted, Hands, Locking, Opening, Dial, Goto, values, opening,
      discord
<1>7. Fresh'
  BY <1>0, <1>u, ProcFacts, DispatchFacts, NothingFacts, Places
  DEF Types, TypeSession, TypeSockets, TypeLabels, TypePackets,
      TypeDiscord, Websockets, Fresh, OldDown, BeforeFirst, LoadedInOpen,
      Unstarted, Hands, Dial, Goto, values, opening, discord
<1>8. OldDown'
  BY <1>0, <1>u, ProcFacts, DispatchFacts, NothingFacts, Places
  DEF Types, TypeSession, TypeSockets, TypeLabels, TypePackets,
      TypeDiscord, Websockets, Fresh, OldDown, BeforeFirst, LoadedInOpen,
      Unstarted, Hands, Dial, Goto, values, opening, discord
<1>9. BeforeFirst'
  BY <1>0, <1>a, <1>b, <1>c, <1>u, Places
  DEF BeforeFirst, Unstarted, Opening, Dial, Goto, Types, TypeLabels
<1>10. LoadedInOpen'
  BY <1>0, <1>u, ProcFacts, DispatchFacts, NothingFacts, Places
  DEF Types, TypeSession, TypeSockets, TypeLabels, TypePackets,
      TypeDiscord, Websockets, Fresh, OldDown, BeforeFirst, LoadedInOpen,
      Unstarted, Hands, Locking, Opening, Dial, Goto, values, opening,
      discord
<1>11. Hands'
  BY <1>0, <1>u, ProcFacts, DispatchFacts, NothingFacts, Places
  DEF Types, TypeSession, TypeSockets, TypeLabels, TypePackets,
      TypeDiscord, Websockets, Fresh, OldDown, BeforeFirst, LoadedInOpen,
      Unstarted, Hands, Dial, Goto, values, opening, discord
<1>12. KnownPackets'
  BY <1>0, <1>u DEF Numbered, KnownPackets, Known
<1>13. KnownHandled'
  BY <1>0, <1>u DEF Numbered, KnownHandled
<1>14. Served'
  BY <1>0, <1>u DEF Numbered, Served
<1>15. InOrder'
  BY <1>0, <1>u DEF InOrder, Follows
<1>16. Tip'
  BY <1>0, <1>u DEF Tip
<1>q. Quiet
  BY <1>0, <1>u, ProcFacts DEF Quiet, Types, TypeSession, TypeSockets, TypeLabels,
     TypePackets, TypeDiscord, Hands, Dial, Goto
<1>17. ~mixed' => Whole'
  BY <1>0, <1>u, <1>q, QuietKeeps DEF Whole, ToCome, CaughtUp, Held, Stored, Carried
<1>18. ~mixed' => News'
  BY <1>0, <1>a, <1>b, <1>c, <1>u, <1>q, QuietKeeps
     DEF News, NewToCome, NewInHand, NewAfter, NewCarried, Dial
<1> QED
  BY <1>0, <1>u, <1>q, QuietKeeps, <1>1, <1>2, <1>3, <1>4, <1>5, <1>6, <1>7, <1>8, <1>9,
     <1>10, <1>11,
     <1>12, <1>13, <1>14, <1>15, <1>16, <1>17, <1>18
  DEF IInv, Structure, Streams, Unmixed, Types, Websockets, Numbered

LEMMA OpenFailsKeeps ==
  ASSUME IInv, NEW p \in Procs, OpenFails(p)
  PROVE  IInv'
<1>0. Types /\ Locking /\ Websockets /\ Hands /\ Numbered /\ InOrder /\ Tip
      /\ (~mixed => Whole /\ Twice /\ News)
  BY DEF IInv, Structure, Streams, Unmixed
<1>u. UNCHANGED <<stopped, sequence, sessionID, origin, mixed, hand,
                    serves, alive, sent, dialled, handled, late>>
  BY DEF OpenFails, Goto, Loaded, Down, values, discord
<1>1. TypeSession'
  BY <1>0, <1>u, ProcFacts, DispatchFacts, NothingFacts, Places
  DEF Types, TypeSession, TypeSockets, TypeLabels, TypePackets,
      TypeDiscord, Websockets, Fresh, OldDown, BeforeFirst, LoadedInOpen,
      Unstarted, Hands, Labels, OpenFails, Goto, Loaded, Down, values,
      discord
<1>2. TypeSockets'
  BY <1>0, <1>u, ProcFacts, DispatchFacts, NothingFacts, Places
  DEF Types, TypeSession, TypeSockets, TypeLabels, TypePackets,
      TypeDiscord, Websockets, Fresh, OldDown, BeforeFirst, LoadedInOpen,
      Unstarted, Hands, OpenFails, Goto, Loaded, Down, values, discord
<1>3. TypeLabels'
  BY <1>0, <1>u, ProcFacts, DispatchFacts, NothingFacts, Places
  DEF Types, TypeSession, TypeSockets, TypeLabels, TypePackets,
      TypeDiscord, Websockets, Fresh, OldDown, BeforeFirst, LoadedInOpen,
      Unstarted, Hands, Labels, OpenFails, Goto, Loaded, Down, values,
      discord
<1>4. TypePackets'
  BY <1>0, <1>u, ProcFacts, DispatchFacts, NothingFacts, Places
  DEF Types, TypeSession, TypeSockets, TypeLabels, TypePackets,
      TypeDiscord, Websockets, Fresh, OldDown, BeforeFirst, LoadedInOpen,
      Unstarted, Hands, OpenFails, Goto, Loaded, Down, values, discord
<1>5. TypeDiscord'
  BY <1>0, <1>u DEF Types, TypeDiscord
<1>6. Locking'
  BY <1>0, <1>u, ProcFacts, DispatchFacts, NothingFacts, Places
  DEF Types, TypeSession, TypeSockets, TypeLabels, TypePackets,
      TypeDiscord, Websockets, Fresh, OldDown, BeforeFirst, LoadedInOpen,
      Unstarted, Hands, Locking, Opening, OpenFails, Goto, Loaded, Down,
      values, discord
<1>7. Fresh'
  BY <1>0, <1>u, ProcFacts, DispatchFacts, NothingFacts, Places
  DEF Types, TypeSession, TypeSockets, TypeLabels, TypePackets,
      TypeDiscord, Websockets, Fresh, OldDown, BeforeFirst, LoadedInOpen,
      Unstarted, Hands, OpenFails, Goto, Loaded, Down, values, discord
<1>8. OldDown'
  BY <1>0, <1>u, ProcFacts, DispatchFacts, NothingFacts, Places
  DEF Types, TypeSession, TypeSockets, TypeLabels, TypePackets,
      TypeDiscord, Websockets, Fresh, OldDown, BeforeFirst, LoadedInOpen,
      Unstarted, Hands, OpenFails, Goto, Loaded, Down, values, discord
<1>9. BeforeFirst'
  BY <1>0, <1>u, ProcFacts, DispatchFacts, NothingFacts, Places
  DEF Types, TypeSession, TypeSockets, TypeLabels, TypePackets,
      TypeDiscord, Websockets, Fresh, OldDown, BeforeFirst, LoadedInOpen,
      Unstarted, Hands, Locking, Opening, OpenFails, Goto, Loaded, Down,
      values, discord
<1>10. LoadedInOpen'
  BY <1>0, <1>u, ProcFacts, DispatchFacts, NothingFacts, Places
  DEF Types, TypeSession, TypeSockets, TypeLabels, TypePackets,
      TypeDiscord, Websockets, Fresh, OldDown, BeforeFirst, LoadedInOpen,
      Unstarted, Hands, Locking, Opening, OpenFails, Goto, Loaded, Down,
      values, discord
<1>11. Hands'
  BY <1>0, <1>u, ProcFacts, DispatchFacts, NothingFacts, Places
  DEF Types, TypeSession, TypeSockets, TypeLabels, TypePackets,
      TypeDiscord, Websockets, Fresh, OldDown, BeforeFirst, LoadedInOpen,
      Unstarted, Hands, OpenFails, Goto, Loaded, Down, values, discord
<1>12. KnownPackets'
  BY <1>0, <1>u, ProcFacts, DispatchFacts, NothingFacts, Places
  DEF Types, TypeSession, TypeSockets, TypeLabels, TypePackets,
      TypeDiscord, Websockets, Fresh, OldDown, BeforeFirst, LoadedInOpen,
      Unstarted, Hands, Numbered, KnownPackets, Known, OpenFails, Goto,
      Loaded, Down, values, discord
<1>13. KnownHandled'
  BY <1>0, <1>u DEF Numbered, KnownHandled
<1>14. Served'
  BY <1>0, <1>u DEF Numbered, Served
<1>15. InOrder'
  BY <1>0, <1>u, ProcFacts, DispatchFacts, NothingFacts, Places
  DEF Types, TypeSession, TypeSockets, TypeLabels, TypePackets,
      TypeDiscord, Websockets, Fresh, OldDown, BeforeFirst, LoadedInOpen,
      Unstarted, Hands, InOrder, Follows, OpenFails, Goto, Loaded, Down,
      values, discord
<1>16. Tip'
  BY <1>0, <1>u, ProcFacts, DispatchFacts, NothingFacts, Places
  DEF Types, TypeSession, TypeSockets, TypeLabels, TypePackets,
      TypeDiscord, Websockets, Fresh, OldDown, BeforeFirst, LoadedInOpen,
      Unstarted, Hands, Tip, OpenFails, Goto, Loaded, Down, values,
      discord
<1>q. Quiet
  BY <1>0, <1>u, ProcFacts DEF Quiet, Types, TypeSession, TypeSockets, TypeLabels,
     TypePackets, TypeDiscord, Hands, OpenFails, Goto
<1>17. ~mixed' => Whole'
  BY <1>0, <1>u, <1>q, QuietKeeps, ProcFacts, DispatchFacts, NothingFacts, Places
  DEF Types, TypeSession, TypeSockets, TypeLabels, TypePackets,
      TypeDiscord, Websockets, Fresh, OldDown, BeforeFirst, LoadedInOpen,
      Unstarted, Hands, Whole, ToCome, CaughtUp, Held, Stored, Carried,
      OpenFails, Goto, Loaded, Down, values, discord
<1>18. ~mixed' => News'
  BY <1>0, <1>u, <1>q, QuietKeeps, ProcFacts, DispatchFacts, NothingFacts, Places
  DEF Types, TypeSession, TypeSockets, TypeLabels, TypePackets,
      TypeDiscord, Websockets, Fresh, OldDown, BeforeFirst, LoadedInOpen,
      Unstarted, Hands, News, NewToCome, NewInHand, NewAfter, NewCarried,
      Locking, Opening, OpenFails, Goto, Loaded, Down, values, discord
<1> QED
  BY <1>0, <1>u, <1>q, QuietKeeps, <1>1, <1>2, <1>3, <1>4, <1>5, <1>6, <1>7, <1>8, <1>9,
     <1>10, <1>11,
     <1>12, <1>13, <1>14, <1>15, <1>16, <1>17, <1>18
  DEF IInv, Structure, Streams, Unmixed, Types, Websockets, Numbered

LEMMA FirstPacketHangsKeeps ==
  ASSUME IInv, NEW p \in Procs, FirstPacketHangs(p)
  PROVE  IInv'
<1>0. Types /\ Locking /\ Websockets /\ Hands /\ Numbered /\ InOrder /\ Tip
      /\ (~mixed => Whole /\ Twice /\ News)
  BY DEF IInv, Structure, Streams, Unmixed
<1>u. UNCHANGED <<lock, wsConn, stopped, sequence, sessionID, origin,
                    loaded, loadedFrom, mixed, hand, inbox, down, serves,
                    alive, sent, dialled, handled, late>>
  BY DEF FirstPacketHangs, Goto, values, opening, discord
<1>1. TypeSession'
  BY <1>0, <1>u DEF Types, TypeSession
<1>2. TypeSockets'
  BY <1>0, <1>u DEF Types, TypeSockets
<1>3. TypeLabels'
  BY <1>0, <1>u, ProcFacts, DispatchFacts, NothingFacts, Places
  DEF Types, TypeSession, TypeSockets, TypeLabels, TypePackets,
      TypeDiscord, Websockets, Fresh, OldDown, BeforeFirst, LoadedInOpen,
      Unstarted, Hands, Labels, FirstPacketHangs, Goto, values, opening,
      discord
<1>4. TypePackets'
  BY <1>0, <1>u DEF Types, TypePackets
<1>5. TypeDiscord'
  BY <1>0, <1>u DEF Types, TypeDiscord
<1>6. Locking'
  BY <1>0, <1>u, ProcFacts, DispatchFacts, NothingFacts, Places
  DEF Types, TypeSession, TypeSockets, TypeLabels, TypePackets,
      TypeDiscord, Websockets, Fresh, OldDown, BeforeFirst, LoadedInOpen,
      Unstarted, Hands, Locking, Opening, FirstPacketHangs, Goto, values,
      opening, discord
<1>7. Fresh'
  BY SMTT(20), <1>0, <1>u, ProcFacts, DispatchFacts, NothingFacts, Places
  DEF Types, TypeSession, TypeSockets, TypeLabels, TypePackets,
      TypeDiscord, Websockets, Fresh, OldDown, BeforeFirst, LoadedInOpen,
      Unstarted, Hands, FirstPacketHangs, Goto, values, opening, discord
<1>8. OldDown'
  BY <1>0, <1>u DEF Websockets, OldDown
<1>9. BeforeFirst'
  BY <1>0, <1>u, ProcFacts, DispatchFacts, NothingFacts, Places
  DEF Types, TypeSession, TypeSockets, TypeLabels, TypePackets,
      TypeDiscord, Websockets, Fresh, OldDown, BeforeFirst, LoadedInOpen,
      Unstarted, Hands, Locking, Opening, FirstPacketHangs, Goto, values,
      opening, discord
<1>10. LoadedInOpen'
  BY <1>0, <1>u, ProcFacts, DispatchFacts, NothingFacts, Places
  DEF Types, TypeSession, TypeSockets, TypeLabels, TypePackets,
      TypeDiscord, Websockets, Fresh, OldDown, BeforeFirst, LoadedInOpen,
      Unstarted, Hands, Locking, Opening, FirstPacketHangs, Goto, values,
      opening, discord
<1>11. Hands'
  BY SMTT(20), <1>0, <1>u, ProcFacts, DispatchFacts, NothingFacts, Places
  DEF Types, TypeSession, TypeSockets, TypeLabels, TypePackets,
      TypeDiscord, Websockets, Fresh, OldDown, BeforeFirst, LoadedInOpen,
      Unstarted, Hands, FirstPacketHangs, Goto, values, opening, discord
<1>12. KnownPackets'
  BY <1>0, <1>u DEF Numbered, KnownPackets, Known
<1>13. KnownHandled'
  BY <1>0, <1>u DEF Numbered, KnownHandled
<1>14. Served'
  BY <1>0, <1>u DEF Numbered, Served
<1>15. InOrder'
  BY <1>0, <1>u DEF InOrder, Follows
<1>16. Tip'
  BY <1>0, <1>u DEF Tip
<1>q. Quiet
  BY <1>0, <1>u, ProcFacts DEF Quiet, Types, TypeSession, TypeSockets, TypeLabels,
     TypePackets, TypeDiscord, Hands, FirstPacketHangs, Goto
<1>17. ~mixed' => Whole'
  BY <1>0, <1>u, <1>q, QuietKeeps DEF Whole, ToCome, CaughtUp, Held, Stored, Carried
<1>18. ~mixed' => News'
  BY <1>0, <1>u, <1>q, QuietKeeps, ProcFacts, DispatchFacts, NothingFacts, Places
  DEF Types, TypeSession, TypeSockets, TypeLabels, TypePackets,
      TypeDiscord, Websockets, Fresh, OldDown, BeforeFirst, LoadedInOpen,
      Unstarted, Hands, News, NewToCome, NewInHand, NewAfter, NewCarried,
      Locking, Opening, FirstPacketHangs, Goto, values, opening, discord
<1> QED
  BY <1>0, <1>u, <1>q, QuietKeeps, <1>1, <1>2, <1>3, <1>4, <1>5, <1>6, <1>7, <1>8, <1>9,
     <1>10, <1>11,
     <1>12, <1>13, <1>14, <1>15, <1>16, <1>17, <1>18
  DEF IInv, Structure, Streams, Unmixed, Types, Websockets, Numbered

LEMMA CloseWithCodeKeeps ==
  ASSUME IInv, NEW p \in Procs, CloseWithCode(p)
  PROVE  IInv'
<1>0. Types /\ Locking /\ Websockets /\ Hands /\ Numbered /\ InOrder /\ Tip
      /\ (~mixed => Whole /\ Twice /\ News)
  BY DEF IInv, Structure, Streams, Unmixed
<1>u. UNCHANGED <<lock, sequence, sessionID, origin, loaded, loadedFrom,
                    mixed, hand, serves, alive, sent, dialled, handled,
                    late>>
  BY DEF CloseWithCode, Goto, Down, values, opening, discord
<1>a. AfterClose(p) \in {"off", "open", "forgetID"}
  BY DEF AfterClose, CloseWithCode
<1>1. TypeSession'
  BY <1>0, <1>u DEF Types, TypeSession
<1>2. TypeSockets'
  BY <1>0, <1>u, ProcFacts, DispatchFacts, NothingFacts, Places, <1>a
  DEF Types, TypeSession, TypeSockets, TypeLabels, TypePackets,
      TypeDiscord, Websockets, Fresh, OldDown, BeforeFirst, LoadedInOpen,
      Unstarted, Hands, CloseWithCode, Goto, Down, values, opening,
      discord
<1>3. TypeLabels'
  BY <1>0, <1>u, ProcFacts, DispatchFacts, NothingFacts, Places, <1>a
  DEF Types, TypeSession, TypeSockets, TypeLabels, TypePackets,
      TypeDiscord, Websockets, Fresh, OldDown, BeforeFirst, LoadedInOpen,
      Unstarted, Hands, Labels, CloseWithCode, Goto, Down, values, opening,
      discord
<1>4. TypePackets'
  BY <1>0, <1>u, ProcFacts, DispatchFacts, NothingFacts, Places, <1>a
  DEF Types, TypeSession, TypeSockets, TypeLabels, TypePackets,
      TypeDiscord, Websockets, Fresh, OldDown, BeforeFirst, LoadedInOpen,
      Unstarted, Hands, CloseWithCode, Goto, Down, values, opening,
      discord
<1>5. TypeDiscord'
  BY <1>0, <1>u DEF Types, TypeDiscord
<1>6. Locking'
  BY <1>0, <1>u, ProcFacts, DispatchFacts, NothingFacts, Places, <1>a
  DEF Types, TypeSession, TypeSockets, TypeLabels, TypePackets,
      TypeDiscord, Websockets, Fresh, OldDown, BeforeFirst, LoadedInOpen,
      Unstarted, Hands, Locking, Opening, CloseWithCode, Goto, Down,
      values, opening, discord
<1>7. Fresh'
  BY <1>0, <1>u, ProcFacts, DispatchFacts, NothingFacts, Places, <1>a
  DEF Types, TypeSession, TypeSockets, TypeLabels, TypePackets,
      TypeDiscord, Websockets, Fresh, OldDown, BeforeFirst, LoadedInOpen,
      Unstarted, Hands, CloseWithCode, Goto, Down, values, opening,
      discord
<1>8. OldDown'
  BY <1>0, <1>u, ProcFacts, DispatchFacts, NothingFacts, Places, <1>a
  DEF Types, TypeSession, TypeSockets, TypeLabels, TypePackets,
      TypeDiscord, Websockets, Fresh, OldDown, BeforeFirst, LoadedInOpen,
      Unstarted, Hands, CloseWithCode, Goto, Down, values, opening,
      discord
<1>9. BeforeFirst'
  BY <1>0, <1>u, ProcFacts, DispatchFacts, NothingFacts, Places, <1>a
  DEF Types, TypeSession, TypeSockets, TypeLabels, TypePackets,
      TypeDiscord, Websockets, Fresh, OldDown, BeforeFirst, LoadedInOpen,
      Unstarted, Hands, Locking, Opening, CloseWithCode, Goto, Down,
      values, opening, discord
<1>10. LoadedInOpen'
  BY <1>0, <1>u, ProcFacts, DispatchFacts, NothingFacts, Places, <1>a
  DEF Types, TypeSession, TypeSockets, TypeLabels, TypePackets,
      TypeDiscord, Websockets, Fresh, OldDown, BeforeFirst, LoadedInOpen,
      Unstarted, Hands, Locking, Opening, CloseWithCode, Goto, Down,
      values, opening, discord
<1>11. Hands'
  BY <1>0, <1>u, ProcFacts, DispatchFacts, NothingFacts, Places, <1>a
  DEF Types, TypeSession, TypeSockets, TypeLabels, TypePackets,
      TypeDiscord, Websockets, Fresh, OldDown, BeforeFirst, LoadedInOpen,
      Unstarted, Hands, CloseWithCode, Goto, Down, values, opening,
      discord
<1>12. KnownPackets'
  BY <1>0, <1>u, ProcFacts, DispatchFacts, NothingFacts, Places, <1>a
  DEF Types, TypeSession, TypeSockets, TypeLabels, TypePackets,
      TypeDiscord, Websockets, Fresh, OldDown, BeforeFirst, LoadedInOpen,
      Unstarted, Hands, Numbered, KnownPackets, Known, CloseWithCode, Goto,
      Down, values, opening, discord
<1>13. KnownHandled'
  BY <1>0, <1>u DEF Numbered, KnownHandled
<1>14. Served'
  BY <1>0, <1>u DEF Numbered, Served
<1>15. InOrder'
  BY <1>0, <1>u, ProcFacts, DispatchFacts, NothingFacts, Places, <1>a
  DEF Types, TypeSession, TypeSockets, TypeLabels, TypePackets,
      TypeDiscord, Websockets, Fresh, OldDown, BeforeFirst, LoadedInOpen,
      Unstarted, Hands, InOrder, Follows, CloseWithCode, Goto, Down,
      values, opening, discord
<1>16. Tip'
  BY <1>0, <1>u, ProcFacts, DispatchFacts, NothingFacts, Places, <1>a
  DEF Types, TypeSession, TypeSockets, TypeLabels, TypePackets,
      TypeDiscord, Websockets, Fresh, OldDown, BeforeFirst, LoadedInOpen,
      Unstarted, Hands, Tip, CloseWithCode, Goto, Down, values, opening,
      discord
<1>q. Quiet
  BY <1>0, <1>u, ProcFacts, <1>a DEF Quiet, Types, TypeSession, TypeSockets, TypeLabels,
     TypePackets, TypeDiscord, Hands, CloseWithCode, Goto
<1>17. ~mixed' => Whole'
  BY <1>0, <1>u, <1>q, QuietKeeps, ProcFacts, DispatchFacts, NothingFacts, Places, <1>a
  DEF Types, TypeSession, TypeSockets, TypeLabels, TypePackets,
      TypeDiscord, Websockets, Fresh, OldDown, BeforeFirst, LoadedInOpen,
      Unstarted, Hands, Whole, ToCome, CaughtUp, Held, Stored, Carried,
      CloseWithCode, Goto, Down, values, opening, discord
<1>18. ~mixed' => News'
  BY <1>0, <1>u, <1>q, QuietKeeps, ProcFacts, DispatchFacts, NothingFacts, Places, <1>a
  DEF Types, TypeSession, TypeSockets, TypeLabels, TypePackets,
      TypeDiscord, Websockets, Fresh, OldDown, BeforeFirst, LoadedInOpen,
      Unstarted, Hands, News, NewToCome, NewInHand, NewAfter, NewCarried,
      Locking, Opening, CloseWithCode, Goto, Down, values, opening,
      discord
<1> QED
  BY <1>0, <1>u, <1>q, QuietKeeps, <1>1, <1>2, <1>3, <1>4, <1>5, <1>6, <1>7, <1>8, <1>9,
     <1>10, <1>11,
     <1>12, <1>13, <1>14, <1>15, <1>16, <1>17, <1>18
  DEF IInv, Structure, Streams, Unmixed, Types, Websockets, Numbered

LEMMA ForgetIDKeeps ==
  ASSUME IInv, NEW p \in Procs, ForgetID(p)
  PROVE  IInv'
<1>0. Types /\ Locking /\ Websockets /\ Hands /\ Numbered /\ InOrder /\ Tip
      /\ (~mixed => Whole /\ Twice /\ News)
  BY DEF IInv, Structure, Streams, Unmixed
<1>u. UNCHANGED <<lock, wsConn, stopped, sequence, origin, loaded,
                    loadedFrom, mixed, hand, inbox, down, serves, alive,
                    sent, dialled, handled, late>>
  BY DEF ForgetID, Goto, opening, discord
<1>1. TypeSession'
  BY <1>0, <1>u, ProcFacts, DispatchFacts, NothingFacts, Places
  DEF Types, TypeSession, TypeSockets, TypeLabels, TypePackets,
      TypeDiscord, Websockets, Fresh, OldDown, BeforeFirst, LoadedInOpen,
      Unstarted, Hands, Labels, ForgetID, Goto, opening, discord
<1>2. TypeSockets'
  BY <1>0, <1>u DEF Types, TypeSockets
<1>3. TypeLabels'
  BY <1>0, <1>u, ProcFacts, DispatchFacts, NothingFacts, Places
  DEF Types, TypeSession, TypeSockets, TypeLabels, TypePackets,
      TypeDiscord, Websockets, Fresh, OldDown, BeforeFirst, LoadedInOpen,
      Unstarted, Hands, Labels, ForgetID, Goto, opening, discord
<1>4. TypePackets'
  BY <1>0, <1>u DEF Types, TypePackets
<1>5. TypeDiscord'
  BY <1>0, <1>u DEF Types, TypeDiscord
<1>6. Locking'
  BY <1>0, <1>u, ProcFacts, DispatchFacts, NothingFacts, Places
  DEF Types, TypeSession, TypeSockets, TypeLabels, TypePackets,
      TypeDiscord, Websockets, Fresh, OldDown, BeforeFirst, LoadedInOpen,
      Unstarted, Hands, Locking, Opening, ForgetID, Goto, opening, discord
<1>7. Fresh'
  BY <1>0, <1>u, ProcFacts, DispatchFacts, NothingFacts, Places
  DEF Types, TypeSession, TypeSockets, TypeLabels, TypePackets,
      TypeDiscord, Websockets, Fresh, OldDown, BeforeFirst, LoadedInOpen,
      Unstarted, Hands, ForgetID, Goto, opening, discord
<1>8. OldDown'
  BY <1>0, <1>u DEF Websockets, OldDown
<1>9. BeforeFirst'
  BY <1>0, <1>u, ProcFacts, DispatchFacts, NothingFacts, Places
  DEF Types, TypeSession, TypeSockets, TypeLabels, TypePackets,
      TypeDiscord, Websockets, Fresh, OldDown, BeforeFirst, LoadedInOpen,
      Unstarted, Hands, Locking, Opening, ForgetID, Goto, opening, discord
<1>10. LoadedInOpen'
  BY <1>0, <1>u, ProcFacts, DispatchFacts, NothingFacts, Places
  DEF Types, TypeSession, TypeSockets, TypeLabels, TypePackets,
      TypeDiscord, Websockets, Fresh, OldDown, BeforeFirst, LoadedInOpen,
      Unstarted, Hands, Locking, Opening, ForgetID, Goto, opening, discord
<1>11. Hands'
  BY <1>0, <1>u, ProcFacts, DispatchFacts, NothingFacts, Places
  DEF Types, TypeSession, TypeSockets, TypeLabels, TypePackets,
      TypeDiscord, Websockets, Fresh, OldDown, BeforeFirst, LoadedInOpen,
      Unstarted, Hands, ForgetID, Goto, opening, discord
<1>12. KnownPackets'
  BY <1>0, <1>u DEF Numbered, KnownPackets, Known
<1>13. KnownHandled'
  BY <1>0, <1>u DEF Numbered, KnownHandled
<1>14. Served'
  BY <1>0, <1>u DEF Numbered, Served
<1>15. InOrder'
  BY <1>0, <1>u DEF InOrder, Follows
<1>16. Tip'
  BY <1>0, <1>u DEF Tip
<1>q. Quiet
  BY <1>0, <1>u, ProcFacts DEF Quiet, Types, TypeSession, TypeSockets, TypeLabels,
     TypePackets, TypeDiscord, Hands, ForgetID, Goto
<1>17. ~mixed' => Whole'
  BY <1>0, <1>u, <1>q, QuietKeeps DEF Whole, ToCome, CaughtUp, Held, Stored, Carried
<1>18. ~mixed' => News'
  BY <1>0, <1>u, <1>q, QuietKeeps, ProcFacts, DispatchFacts, NothingFacts, Places
  DEF Types, TypeSession, TypeSockets, TypeLabels, TypePackets,
      TypeDiscord, Websockets, Fresh, OldDown, BeforeFirst, LoadedInOpen,
      Unstarted, Hands, News, NewToCome, NewInHand, NewAfter, NewCarried,
      Locking, Opening, ForgetID, Goto, opening, discord
<1> QED
  BY <1>0, <1>u, <1>q, QuietKeeps, <1>1, <1>2, <1>3, <1>4, <1>5, <1>6, <1>7, <1>8, <1>9,
     <1>10, <1>11,
     <1>12, <1>13, <1>14, <1>15, <1>16, <1>17, <1>18
  DEF IInv, Structure, Streams, Unmixed, Types, Websockets, Numbered

LEMMA ForgetSequenceKeeps ==
  ASSUME IInv, NEW p \in Procs, ForgetSequence(p)
  PROVE  IInv'
<1>0. Types /\ Locking /\ Websockets /\ Hands /\ Numbered /\ InOrder /\ Tip
      /\ (~mixed => Whole /\ Twice /\ News)
  BY DEF IInv, Structure, Streams, Unmixed
<1>u. UNCHANGED <<lock, wsConn, stopped, sessionID, loaded, loadedFrom,
                    mixed, hand, inbox, down, serves, alive, sent, dialled,
                    handled, late>>
  BY DEF ForgetSequence, Goto, opening, discord
<1>1. TypeSession'
  BY <1>0, <1>u, ProcFacts, DispatchFacts, NothingFacts, Places
  DEF Types, TypeSession, TypeSockets, TypeLabels, TypePackets,
      TypeDiscord, Websockets, Fresh, OldDown, BeforeFirst, LoadedInOpen,
      Unstarted, Hands, Labels, ForgetSequence, Goto, opening, discord
<1>2. TypeSockets'
  BY <1>0, <1>u DEF Types, TypeSockets
<1>3. TypeLabels'
  BY <1>0, <1>u, ProcFacts, DispatchFacts, NothingFacts, Places
  DEF Types, TypeSession, TypeSockets, TypeLabels, TypePackets,
      TypeDiscord, Websockets, Fresh, OldDown, BeforeFirst, LoadedInOpen,
      Unstarted, Hands, Labels, ForgetSequence, Goto, opening, discord
<1>4. TypePackets'
  BY <1>0, <1>u DEF Types, TypePackets
<1>5. TypeDiscord'
  BY <1>0, <1>u DEF Types, TypeDiscord
<1>6. Locking'
  BY <1>0, <1>u, ProcFacts, DispatchFacts, NothingFacts, Places
  DEF Types, TypeSession, TypeSockets, TypeLabels, TypePackets,
      TypeDiscord, Websockets, Fresh, OldDown, BeforeFirst, LoadedInOpen,
      Unstarted, Hands, Locking, Opening, ForgetSequence, Goto, opening,
      discord
<1>7. Fresh'
  BY <1>0, <1>u, ProcFacts, DispatchFacts, NothingFacts, Places
  DEF Types, TypeSession, TypeSockets, TypeLabels, TypePackets,
      TypeDiscord, Websockets, Fresh, OldDown, BeforeFirst, LoadedInOpen,
      Unstarted, Hands, ForgetSequence, Goto, opening, discord
<1>8. OldDown'
  BY <1>0, <1>u DEF Websockets, OldDown
<1>9. BeforeFirst'
  BY <1>0, <1>u, ProcFacts, DispatchFacts, NothingFacts, Places
  DEF Types, TypeSession, TypeSockets, TypeLabels, TypePackets,
      TypeDiscord, Websockets, Fresh, OldDown, BeforeFirst, LoadedInOpen,
      Unstarted, Hands, Locking, Opening, ForgetSequence, Goto, opening,
      discord
<1>10. LoadedInOpen'
  BY <1>0, <1>u, ProcFacts, DispatchFacts, NothingFacts, Places
  DEF Types, TypeSession, TypeSockets, TypeLabels, TypePackets,
      TypeDiscord, Websockets, Fresh, OldDown, BeforeFirst, LoadedInOpen,
      Unstarted, Hands, Locking, Opening, ForgetSequence, Goto, opening,
      discord
<1>11. Hands'
  BY <1>0, <1>u, ProcFacts, DispatchFacts, NothingFacts, Places
  DEF Types, TypeSession, TypeSockets, TypeLabels, TypePackets,
      TypeDiscord, Websockets, Fresh, OldDown, BeforeFirst, LoadedInOpen,
      Unstarted, Hands, ForgetSequence, Goto, opening, discord
<1>12. KnownPackets'
  BY <1>0, <1>u DEF Numbered, KnownPackets, Known
<1>13. KnownHandled'
  BY <1>0, <1>u DEF Numbered, KnownHandled
<1>14. Served'
  BY <1>0, <1>u DEF Numbered, Served
<1>15. InOrder'
  BY <1>0, <1>u DEF InOrder, Follows
<1>16. Tip'
  BY <1>0, <1>u DEF Tip
<1>q. Quiet
  BY <1>0, <1>u, ProcFacts DEF Quiet, Types, TypeSession, TypeSockets, TypeLabels,
     TypePackets, TypeDiscord, Hands, ForgetSequence, Goto
<1>17. ~mixed' => Whole'
  BY <1>0, <1>u, <1>q, QuietKeeps, ProcFacts, DispatchFacts, NothingFacts, Places
  DEF Types, TypeSession, TypeSockets, TypeLabels, TypePackets,
      TypeDiscord, Websockets, Fresh, OldDown, BeforeFirst, LoadedInOpen,
      Unstarted, Hands, Whole, ToCome, CaughtUp, Held, Stored, Carried,
      ForgetSequence, Goto, opening, discord
<1>18. ~mixed' => News'
  BY <1>0, <1>u, <1>q, QuietKeeps, ProcFacts, DispatchFacts, NothingFacts, Places
  DEF Types, TypeSession, TypeSockets, TypeLabels, TypePackets,
      TypeDiscord, Websockets, Fresh, OldDown, BeforeFirst, LoadedInOpen,
      Unstarted, Hands, News, NewToCome, NewInHand, NewAfter, NewCarried,
      Locking, Opening, ForgetSequence, Goto, opening, discord
<1> QED
  BY <1>0, <1>u, <1>q, QuietKeeps, <1>1, <1>2, <1>3, <1>4, <1>5, <1>6, <1>7, <1>8, <1>9,
     <1>10, <1>11,
     <1>12, <1>13, <1>14, <1>15, <1>16, <1>17, <1>18
  DEF IInv, Structure, Streams, Unmixed, Types, Websockets, Numbered

LEMMA ReadKeeps ==
  ASSUME IInv, NEW c \in Conns, Read(c)
  PROVE  IInv'
<1>0. Types /\ Locking /\ Websockets /\ Hands /\ Numbered /\ InOrder /\ Tip
      /\ (~mixed => Whole /\ Twice /\ News)
  BY DEF IInv, Structure, Streams, Unmixed
<1>u. UNCHANGED <<lock, wsConn, stopped, sequence, sessionID, origin,
                    loaded, loadedFrom, mixed, down, serves, alive, sent,
                    dialled, handled, late>>
  BY DEF Read, Goto, values, opening, discord
<1>a. /\ hand'[c] = inbox[c][1] /\ inbox' = [inbox EXCEPT ![c] = Tail(@)] /\ inbox[c] # <<>>
      /\ \A d \in Conns : d # c => hand'[d] = hand[d]
  BY <1>0, TailFacts DEF Read, Types, TypePackets
<1>t. /\ inbox[c][1] \in Packets /\ Len(inbox[c]) \in Nat \ {0}
      /\ Len(inbox'[c]) = Len(inbox[c]) - 1
      /\ \A i \in 1..Len(inbox'[c]) : inbox'[c][i] = inbox[c][i + 1] /\ i + 1 \in 1..Len(inbox[c])
      /\ inbox'[c] = <<>> <=> Len(inbox[c]) = 1
      /\ \A d \in Conns : d # c => inbox'[d] = inbox[d]
  BY <1>0, <1>a, TailFacts
<1>b. hand[c] = Nothing /\ hand[c].op # "dispatch" /\ c \notin down
  BY <1>0, NothingFacts DEF Read, Hands
<1>1. TypeSession'
  BY <1>0, <1>u DEF Types, TypeSession
<1>2. TypeSockets'
  BY <1>0, <1>u DEF Types, TypeSockets
<1>3. TypeLabels'
  BY <1>0, <1>u, ProcFacts, DispatchFacts, NothingFacts, Places
  DEF Types, TypeSession, TypeSockets, TypeLabels, TypePackets,
      TypeDiscord, Websockets, Fresh, OldDown, BeforeFirst, LoadedInOpen,
      Unstarted, Hands, Labels, Read, Goto, values, opening, discord
<1>4. TypePackets'
  BY SMTT(20), <1>0, <1>u, ProcFacts, DispatchFacts, NothingFacts, Places
  DEF Types, TypeSession, TypeSockets, TypeLabels, TypePackets,
      TypeDiscord, Websockets, Fresh, OldDown, BeforeFirst, LoadedInOpen,
      Unstarted, Hands, Read, Goto, values, opening, discord
<1>5. TypeDiscord'
  BY <1>0, <1>u DEF Types, TypeDiscord
<1>6. Locking'
  BY <1>0, <1>u, ProcFacts, DispatchFacts, NothingFacts, Places
  DEF Types, TypeSession, TypeSockets, TypeLabels, TypePackets,
      TypeDiscord, Websockets, Fresh, OldDown, BeforeFirst, LoadedInOpen,
      Unstarted, Hands, Locking, Opening, Read, Goto, values, opening,
      discord
<1>7. Fresh'
  BY SMTT(20), <1>0, <1>u, ProcFacts, DispatchFacts, NothingFacts, Places
  DEF Types, TypeSession, TypeSockets, TypeLabels, TypePackets,
      TypeDiscord, Websockets, Fresh, OldDown, BeforeFirst, LoadedInOpen,
      Unstarted, Hands, Read, Goto, values, opening, discord
<1>8. OldDown'
  BY <1>0, <1>u DEF Websockets, OldDown
<1>9. BeforeFirst'
  BY <1>0, <1>u, ProcFacts, DispatchFacts, NothingFacts, Places
  DEF Types, TypeSession, TypeSockets, TypeLabels, TypePackets,
      TypeDiscord, Websockets, Fresh, OldDown, BeforeFirst, LoadedInOpen,
      Unstarted, Hands, Locking, Opening, Read, Goto, values, opening,
      discord
<1>10. LoadedInOpen'
  BY <1>0, <1>u, ProcFacts, DispatchFacts, NothingFacts, Places
  DEF Types, TypeSession, TypeSockets, TypeLabels, TypePackets,
      TypeDiscord, Websockets, Fresh, OldDown, BeforeFirst, LoadedInOpen,
      Unstarted, Hands, Locking, Opening, Read, Goto, values, opening,
      discord
<1>11. Hands'
  BY SMTT(20), <1>0, <1>u, ProcFacts, DispatchFacts, NothingFacts, Places
  DEF Types, TypeSession, TypeSockets, TypeLabels, TypePackets,
      TypeDiscord, Websockets, Fresh, OldDown, BeforeFirst, LoadedInOpen,
      Unstarted, Hands, Read, Goto, values, opening, discord
<1>12. KnownPackets'
  <2>1. Known(inbox[c][1], sent) /\ \A i \in 1..Len(inbox'[c]) : Known(inbox'[c][i], sent)
    BY SMTT(20), <1>0, <1>t DEF Numbered, KnownPackets
  <2>2. \A d \in Conns : d # c => hand'[d] = hand[d] /\ inbox'[d] = inbox[d]
    BY <1>0, <1>a, <1>t
  <2>3. \A d \in Conns : Known(hand'[d], sent) /\ \A i \in 1..Len(inbox'[d]) : Known(inbox'[d][i], sent)
    BY <1>0, <1>a, <2>1, <2>2 DEF Numbered, KnownPackets
  <2> QED  BY <1>0, <1>u, <2>3 DEF KnownPackets, Known
<1>13. KnownHandled'
  BY <1>0, <1>u DEF Numbered, KnownHandled
<1>14. Served'
  BY <1>0, <1>u DEF Numbered, Served
<1>15. InOrder'
  BY SMTT(20), <1>0, <1>u, ProcFacts, DispatchFacts, NothingFacts, Places
  DEF Types, TypeSession, TypeSockets, TypeLabels, TypePackets,
      TypeDiscord, Websockets, Fresh, OldDown, BeforeFirst, LoadedInOpen,
      Unstarted, Hands, InOrder, Follows, Read, Goto, values, opening,
      discord
<1>16. Tip'
  <2>1. ASSUME NEW d \in Conns \ down, serves[d] # NoSession, d # c
        PROVE  /\ inbox'[d] # <<>> => inbox'[d][Len(inbox'[d])] = Dispatch(serves[d], sent[serves[d]])
               /\ inbox'[d] = <<>> /\ hand'[d].op = "dispatch" => hand'[d] = Dispatch(serves[d], sent[serves[d]])
    BY <1>0, <1>a, <2>1, <1>t DEF Tip
  <2>2. ASSUME serves[c] # NoSession
        PROVE  /\ inbox'[c] # <<>> => inbox'[c][Len(inbox'[c])] = Dispatch(serves[c], sent[serves[c]])
               /\ inbox'[c] = <<>> => hand'[c] = Dispatch(serves[c], sent[serves[c]])
    <3>1. inbox[c][Len(inbox[c])] = Dispatch(serves[c], sent[serves[c]])
      BY <1>0, <1>a, <1>b, <2>2 DEF Tip
    <3>2. CASE Len(inbox[c]) = 1
      BY <1>0, <1>a, <3>1, <3>2, <1>t
    <3>3. CASE Len(inbox[c]) # 1
      <4>1. Len(inbox'[c]) \in 1..Len(inbox'[c]) /\ Len(inbox'[c]) + 1 = Len(inbox[c]) /\ inbox'[c] # <<>>
        BY <1>0, <1>a, <3>3, <1>t
      <4> QED  BY <1>0, <1>a, <3>1, <4>1, <1>t
    <3> QED  BY <3>2, <3>3
  <2> QED  BY <1>u, <2>1, <2>2 DEF Tip
<1>q. Quiet
  BY <1>0, <1>u, ProcFacts DEF Quiet, Types, TypeSession, TypeSockets, TypeLabels,
     TypePackets, TypeDiscord, Hands, Read, Goto
<1>17. ~mixed' => Whole'
  <2>0. SUFFICES ASSUME ~mixed PROVE Whole'
    BY <1>u
  <2>1. hand'[c].op = "dispatch" => Covered(hand'[c].session, hand'[c].number - 1)
    BY <1>0, <1>a, <1>b, <2>0 DEF Whole, ToCome, CaughtUp, Held, Stored, Carried
  <2>2. inbox'[c] # <<>> /\ inbox'[c][1].op = "dispatch" => hand'[c].op = "dispatch"
    <3>1. inbox'[c] # <<>> => inbox'[c][1] = inbox[c][2] /\ 1 \in 1..Len(inbox[c]) - 1
      BY <1>0, <1>a, <1>t
    <3> QED  BY <1>0, <1>a, <3>1 DEF InOrder, Follows
  <2>3. serves[c] # NoSession /\ inbox'[c] = <<>> => hand'[c].op = "dispatch"
    <3>1. inbox'[c] = <<>> => inbox[c][1] = inbox[c][Len(inbox[c])]
      BY <1>0, <1>a, <1>t
    <3> QED  BY <1>0, <1>a, <1>b, <3>1, DispatchFacts DEF Tip
  <2>4. \A d \in Conns : d # c => hand'[d] = hand[d] /\ inbox'[d] = inbox[d]
    BY <1>0, <1>a, <1>t
  <2> QED  BY <1>0, <1>u, <1>q, QuietKeeps, <2>0, <2>1, <2>2, <2>3, <2>4
           DEF Whole, ToCome, CaughtUp, Held, Stored, Carried
<1>18. ~mixed' => News'
  <2>0. SUFFICES ASSUME ~mixed PROVE News'
    BY <1>u
  <2>1. \A d \in Conns : d # c => hand'[d] = hand[d] /\ inbox'[d] = inbox[d] /\ pc'[listen(d)] = pc[listen(d)]
    BY <1>0, <1>a, <1>t, ProcFacts DEF Read, Goto, Types, TypeLabels
  <2>2. wsConn = c /\ hand'[c].op = "dispatch" => NewFrom(hand'[c].session, hand'[c].number)
    BY <1>0, <1>a, <1>b, <2>0, Places DEF News, NewToCome, NewInHand, NewAfter, NewCarried
  <2>3. wsConn = c /\ inbox'[c] # <<>> /\ inbox'[c][1].op = "dispatch"
          => NewFrom(inbox'[c][1].session, inbox'[c][1].number)
    <3>1. SUFFICES ASSUME wsConn = c, inbox'[c] # <<>>, inbox'[c][1].op = "dispatch"
                   PROVE  NewFrom(inbox'[c][1].session, inbox'[c][1].number)
      OBVIOUS
    <3>2. inbox'[c][1] = inbox[c][2] /\ 1 \in 1..Len(inbox[c]) - 1
      BY <1>0, <1>a, <3>1, <1>t
    <3>3. Follows(inbox[c][1], inbox[c][2])
      BY <1>0, <3>2 DEF InOrder
    <3>4. hand'[c].op = "dispatch" /\ inbox'[c][1].session = hand'[c].session
          /\ inbox'[c][1].number = hand'[c].number + 1
      BY <1>a, <3>1, <3>2, <3>3 DEF Follows
    <3>5. hand'[c].number \in Nat
      BY <1>0, <1>a, <3>4, <1>t, PacketFacts
    <3> QED  BY <2>2, <3>1, <3>4, <3>5, NewFromNext
  <2>4. wsConn # NoConn => wsConn \in Conns
    BY <1>0, Places DEF Types, TypeSockets
  <2> QED  BY <1>0, <1>u, <1>q, QuietKeeps, <2>0, <2>1, <2>2, <2>3, <2>4
           DEF News, NewToCome, NewInHand, NewAfter, NewCarried
<1> QED
  BY <1>0, <1>u, <1>q, QuietKeeps, <1>1, <1>2, <1>3, <1>4, <1>5, <1>6, <1>7, <1>8, <1>9,
     <1>10, <1>11,
     <1>12, <1>13, <1>14, <1>15, <1>16, <1>17, <1>18
  DEF IInv, Structure, Streams, Unmixed, Types, Websockets, Numbered

LEMMA ReadErrorKeeps ==
  ASSUME IInv, NEW c \in Conns, ReadError(c)
  PROVE  IInv'
<1>0. Types /\ Locking /\ Websockets /\ Hands /\ Numbered /\ InOrder /\ Tip
      /\ (~mixed => Whole /\ Twice /\ News)
  BY DEF IInv, Structure, Streams, Unmixed
<1>u. UNCHANGED <<lock, wsConn, stopped, sequence, sessionID, origin,
                    loaded, loadedFrom, mixed, hand, inbox, down, serves,
                    alive, sent, dialled, handled, late>>
  BY DEF ReadError, Goto, values, opening, discord
<1>1. TypeSession'
  BY <1>0, <1>u DEF Types, TypeSession
<1>2. TypeSockets'
  BY <1>0, <1>u DEF Types, TypeSockets
<1>3. TypeLabels'
  BY <1>0, <1>u, ProcFacts, DispatchFacts, NothingFacts, Places
  DEF Types, TypeSession, TypeSockets, TypeLabels, TypePackets,
      TypeDiscord, Websockets, Fresh, OldDown, BeforeFirst, LoadedInOpen,
      Unstarted, Hands, Labels, ReadError, Goto, values, opening, discord
<1>4. TypePackets'
  BY <1>0, <1>u DEF Types, TypePackets
<1>5. TypeDiscord'
  BY <1>0, <1>u DEF Types, TypeDiscord
<1>6. Locking'
  BY <1>0, <1>u, ProcFacts, DispatchFacts, NothingFacts, Places
  DEF Types, TypeSession, TypeSockets, TypeLabels, TypePackets,
      TypeDiscord, Websockets, Fresh, OldDown, BeforeFirst, LoadedInOpen,
      Unstarted, Hands, Locking, Opening, ReadError, Goto, values, opening,
      discord
<1>7. Fresh'
  BY <1>0, <1>u, ProcFacts, DispatchFacts, NothingFacts, Places
  DEF Types, TypeSession, TypeSockets, TypeLabels, TypePackets,
      TypeDiscord, Websockets, Fresh, OldDown, BeforeFirst, LoadedInOpen,
      Unstarted, Hands, ReadError, Goto, values, opening, discord
<1>8. OldDown'
  BY <1>0, <1>u DEF Websockets, OldDown
<1>9. BeforeFirst'
  BY <1>0, <1>u, ProcFacts, DispatchFacts, NothingFacts, Places
  DEF Types, TypeSession, TypeSockets, TypeLabels, TypePackets,
      TypeDiscord, Websockets, Fresh, OldDown, BeforeFirst, LoadedInOpen,
      Unstarted, Hands, Locking, Opening, ReadError, Goto, values, opening,
      discord
<1>10. LoadedInOpen'
  BY <1>0, <1>u, ProcFacts, DispatchFacts, NothingFacts, Places
  DEF Types, TypeSession, TypeSockets, TypeLabels, TypePackets,
      TypeDiscord, Websockets, Fresh, OldDown, BeforeFirst, LoadedInOpen,
      Unstarted, Hands, Locking, Opening, ReadError, Goto, values, opening,
      discord
<1>11. Hands'
  BY <1>0, <1>u, ProcFacts, DispatchFacts, NothingFacts, Places
  DEF Types, TypeSession, TypeSockets, TypeLabels, TypePackets,
      TypeDiscord, Websockets, Fresh, OldDown, BeforeFirst, LoadedInOpen,
      Unstarted, Hands, ReadError, Goto, values, opening, discord
<1>12. KnownPackets'
  BY <1>0, <1>u DEF Numbered, KnownPackets, Known
<1>13. KnownHandled'
  BY <1>0, <1>u DEF Numbered, KnownHandled
<1>14. Served'
  BY <1>0, <1>u DEF Numbered, Served
<1>15. InOrder'
  BY <1>0, <1>u DEF InOrder, Follows
<1>16. Tip'
  BY <1>0, <1>u DEF Tip
<1>q. Quiet
  BY <1>0, <1>u, ProcFacts DEF Quiet, Types, TypeSession, TypeSockets, TypeLabels,
     TypePackets, TypeDiscord, Hands, ReadError, Goto
<1>17. ~mixed' => Whole'
  BY <1>0, <1>u, <1>q, QuietKeeps DEF Whole, ToCome, CaughtUp, Held, Stored, Carried
<1>18. ~mixed' => News'
  BY <1>0, <1>u, <1>q, QuietKeeps, ProcFacts, DispatchFacts, NothingFacts, Places
  DEF Types, TypeSession, TypeSockets, TypeLabels, TypePackets,
      TypeDiscord, Websockets, Fresh, OldDown, BeforeFirst, LoadedInOpen,
      Unstarted, Hands, News, NewToCome, NewInHand, NewAfter, NewCarried,
      Locking, Opening, ReadError, Goto, values, opening, discord
<1> QED
  BY <1>0, <1>u, <1>q, QuietKeeps, <1>1, <1>2, <1>3, <1>4, <1>5, <1>6, <1>7, <1>8, <1>9,
     <1>10, <1>11,
     <1>12, <1>13, <1>14, <1>15, <1>16, <1>17, <1>18
  DEF IInv, Structure, Streams, Unmixed, Types, Websockets, Numbered

LEMMA SelectKeeps ==
  ASSUME IInv, NEW c \in Conns, Select(c)
  PROVE  IInv'
<1>0. Types /\ Locking /\ Websockets /\ Hands /\ Numbered /\ InOrder /\ Tip
      /\ (~mixed => Whole /\ Twice /\ News)
  BY DEF IInv, Structure, Streams, Unmixed
<1>u. UNCHANGED <<lock, wsConn, stopped, sequence, sessionID, origin,
                    loaded, loadedFrom, mixed, inbox, down, serves, alive,
                    sent, dialled, handled, late>>
  BY DEF Select, Goto, values, opening, discord, Invalid
<1>1. TypeSession'
  BY <1>0, <1>u DEF Types, TypeSession
<1>2. TypeSockets'
  BY <1>0, <1>u DEF Types, TypeSockets
<1>3. TypeLabels'
  BY <1>0, <1>u, ProcFacts, DispatchFacts, NothingFacts, Places
  DEF Types, TypeSession, TypeSockets, TypeLabels, TypePackets,
      TypeDiscord, Websockets, Fresh, OldDown, BeforeFirst, LoadedInOpen,
      Unstarted, Hands, Labels, Select, Goto, values, opening, discord,
      Invalid
<1>4. TypePackets'
  BY <1>0, <1>u, ProcFacts, DispatchFacts, NothingFacts, Places
  DEF Types, TypeSession, TypeSockets, TypeLabels, TypePackets,
      TypeDiscord, Websockets, Fresh, OldDown, BeforeFirst, LoadedInOpen,
      Unstarted, Hands, Select, Goto, values, opening, discord, Invalid
<1>5. TypeDiscord'
  BY <1>0, <1>u DEF Types, TypeDiscord
<1>6. Locking'
  BY <1>0, <1>u, ProcFacts, DispatchFacts, NothingFacts, Places
  DEF Types, TypeSession, TypeSockets, TypeLabels, TypePackets,
      TypeDiscord, Websockets, Fresh, OldDown, BeforeFirst, LoadedInOpen,
      Unstarted, Hands, Locking, Opening, Select, Goto, values, opening,
      discord, Invalid
<1>7. Fresh'
  BY SMTT(20), <1>0, <1>u, ProcFacts, DispatchFacts, NothingFacts, Places
  DEF Types, TypeSession, TypeSockets, TypeLabels, TypePackets,
      TypeDiscord, Websockets, Fresh, OldDown, BeforeFirst, LoadedInOpen,
      Unstarted, Hands, Select, Goto, values, opening, discord, Invalid
<1>8. OldDown'
  BY <1>0, <1>u DEF Websockets, OldDown
<1>9. BeforeFirst'
  BY <1>0, <1>u, ProcFacts, DispatchFacts, NothingFacts, Places
  DEF Types, TypeSession, TypeSockets, TypeLabels, TypePackets,
      TypeDiscord, Websockets, Fresh, OldDown, BeforeFirst, LoadedInOpen,
      Unstarted, Hands, Locking, Opening, Select, Goto, values, opening,
      discord, Invalid
<1>10. LoadedInOpen'
  BY <1>0, <1>u, ProcFacts, DispatchFacts, NothingFacts, Places
  DEF Types, TypeSession, TypeSockets, TypeLabels, TypePackets,
      TypeDiscord, Websockets, Fresh, OldDown, BeforeFirst, LoadedInOpen,
      Unstarted, Hands, Locking, Opening, Select, Goto, values, opening,
      discord, Invalid
<1>11. Hands'
  BY SMTT(20), <1>0, <1>u, ProcFacts, DispatchFacts, NothingFacts, Places
  DEF Types, TypeSession, TypeSockets, TypeLabels, TypePackets,
      TypeDiscord, Websockets, Fresh, OldDown, BeforeFirst, LoadedInOpen,
      Unstarted, Hands, Select, Goto, values, opening, discord, Invalid
<1>12. KnownPackets'
  BY SMTT(20), <1>0, <1>u, ProcFacts, DispatchFacts, NothingFacts, Places
  DEF Types, TypeSession, TypeSockets, TypeLabels, TypePackets,
      TypeDiscord, Websockets, Fresh, OldDown, BeforeFirst, LoadedInOpen,
      Unstarted, Hands, Numbered, KnownPackets, Known, Select, Goto,
      values, opening, discord, Invalid
<1>13. KnownHandled'
  BY <1>0, <1>u DEF Numbered, KnownHandled
<1>14. Served'
  BY <1>0, <1>u DEF Numbered, Served
<1>15. InOrder'
  BY SMTT(20), <1>0, <1>u, ProcFacts, DispatchFacts, NothingFacts, Places
  DEF Types, TypeSession, TypeSockets, TypeLabels, TypePackets,
      TypeDiscord, Websockets, Fresh, OldDown, BeforeFirst, LoadedInOpen,
      Unstarted, Hands, InOrder, Follows, Select, Goto, values, opening,
      discord, Invalid
<1>16. Tip'
  BY SMTT(20), <1>0, <1>u, ProcFacts, DispatchFacts, NothingFacts, Places
  DEF Types, TypeSession, TypeSockets, TypeLabels, TypePackets,
      TypeDiscord, Websockets, Fresh, OldDown, BeforeFirst, LoadedInOpen,
      Unstarted, Hands, Tip, Select, Goto, values, opening, discord,
      Invalid
<1>q. Quiet
  BY <1>0, <1>u, ProcFacts DEF Quiet, Types, TypeSession, TypeSockets, TypeLabels,
     TypePackets, TypeDiscord, Hands, Select, Goto
<1>17. ~mixed' => Whole'
  BY <1>0, <1>u, <1>q, QuietKeeps, ProcFacts, DispatchFacts, NothingFacts, Places
  DEF Types, TypeSession, TypeSockets, TypeLabels, TypePackets,
      TypeDiscord, Websockets, Fresh, OldDown, BeforeFirst, LoadedInOpen,
      Unstarted, Hands, Whole, ToCome, CaughtUp, Held, Stored, Carried,
      Select, Goto, values, opening, discord, Invalid
<1>18. ~mixed' => News'
  BY <1>0, <1>u, <1>q, QuietKeeps, ProcFacts, DispatchFacts, NothingFacts, Places
  DEF Types, TypeSession, TypeSockets, TypeLabels, TypePackets,
      TypeDiscord, Websockets, Fresh, OldDown, BeforeFirst, LoadedInOpen,
      Unstarted, Hands, News, NewToCome, NewInHand, NewAfter, NewCarried,
      Locking, Opening, Select, Goto, values, opening, discord, Invalid
<1> QED
  BY <1>0, <1>u, <1>q, QuietKeeps, <1>1, <1>2, <1>3, <1>4, <1>5, <1>6, <1>7, <1>8, <1>9,
     <1>10, <1>11,
     <1>12, <1>13, <1>14, <1>15, <1>16, <1>17, <1>18
  DEF IInv, Structure, Streams, Unmixed, Types, Websockets, Numbered

LEMMA BeatErrorKeeps ==
  ASSUME IInv, NEW c \in Conns, BeatError(c)
  PROVE  IInv'
<1>0. Types /\ Locking /\ Websockets /\ Hands /\ Numbered /\ InOrder /\ Tip
      /\ (~mixed => Whole /\ Twice /\ News)
  BY DEF IInv, Structure, Streams, Unmixed
<1>u. UNCHANGED <<lock, wsConn, stopped, sequence, sessionID, origin,
                    loaded, loadedFrom, mixed, hand, inbox, down, serves,
                    alive, sent, dialled, handled, late>>
  BY DEF BeatError, Goto, values, opening, discord
<1>1. TypeSession'
  BY <1>0, <1>u DEF Types, TypeSession
<1>2. TypeSockets'
  BY <1>0, <1>u DEF Types, TypeSockets
<1>3. TypeLabels'
  BY <1>0, <1>u, ProcFacts, DispatchFacts, NothingFacts, Places
  DEF Types, TypeSession, TypeSockets, TypeLabels, TypePackets,
      TypeDiscord, Websockets, Fresh, OldDown, BeforeFirst, LoadedInOpen,
      Unstarted, Hands, Labels, BeatError, Goto, values, opening, discord
<1>4. TypePackets'
  BY <1>0, <1>u DEF Types, TypePackets
<1>5. TypeDiscord'
  BY <1>0, <1>u DEF Types, TypeDiscord
<1>6. Locking'
  BY <1>0, <1>u, ProcFacts, DispatchFacts, NothingFacts, Places
  DEF Types, TypeSession, TypeSockets, TypeLabels, TypePackets,
      TypeDiscord, Websockets, Fresh, OldDown, BeforeFirst, LoadedInOpen,
      Unstarted, Hands, Locking, Opening, BeatError, Goto, values, opening,
      discord
<1>7. Fresh'
  BY <1>0, <1>u, ProcFacts, DispatchFacts, NothingFacts, Places
  DEF Types, TypeSession, TypeSockets, TypeLabels, TypePackets,
      TypeDiscord, Websockets, Fresh, OldDown, BeforeFirst, LoadedInOpen,
      Unstarted, Hands, BeatError, Goto, values, opening, discord
<1>8. OldDown'
  BY <1>0, <1>u DEF Websockets, OldDown
<1>9. BeforeFirst'
  BY <1>0, <1>u, ProcFacts, DispatchFacts, NothingFacts, Places
  DEF Types, TypeSession, TypeSockets, TypeLabels, TypePackets,
      TypeDiscord, Websockets, Fresh, OldDown, BeforeFirst, LoadedInOpen,
      Unstarted, Hands, Locking, Opening, BeatError, Goto, values, opening,
      discord
<1>10. LoadedInOpen'
  BY <1>0, <1>u, ProcFacts, DispatchFacts, NothingFacts, Places
  DEF Types, TypeSession, TypeSockets, TypeLabels, TypePackets,
      TypeDiscord, Websockets, Fresh, OldDown, BeforeFirst, LoadedInOpen,
      Unstarted, Hands, Locking, Opening, BeatError, Goto, values, opening,
      discord
<1>11. Hands'
  BY <1>0, <1>u, ProcFacts, DispatchFacts, NothingFacts, Places
  DEF Types, TypeSession, TypeSockets, TypeLabels, TypePackets,
      TypeDiscord, Websockets, Fresh, OldDown, BeforeFirst, LoadedInOpen,
      Unstarted, Hands, BeatError, Goto, values, opening, discord
<1>12. KnownPackets'
  BY <1>0, <1>u DEF Numbered, KnownPackets, Known
<1>13. KnownHandled'
  BY <1>0, <1>u DEF Numbered, KnownHandled
<1>14. Served'
  BY <1>0, <1>u DEF Numbered, Served
<1>15. InOrder'
  BY <1>0, <1>u DEF InOrder, Follows
<1>16. Tip'
  BY <1>0, <1>u DEF Tip
<1>q. Quiet
  BY <1>0, <1>u, ProcFacts DEF Quiet, Types, TypeSession, TypeSockets, TypeLabels,
     TypePackets, TypeDiscord, Hands, BeatError, Goto
<1>17. ~mixed' => Whole'
  BY <1>0, <1>u, <1>q, QuietKeeps DEF Whole, ToCome, CaughtUp, Held, Stored, Carried
<1>18. ~mixed' => News'
  BY <1>0, <1>u, <1>q, QuietKeeps, ProcFacts, DispatchFacts, NothingFacts, Places
  DEF Types, TypeSession, TypeSockets, TypeLabels, TypePackets,
      TypeDiscord, Websockets, Fresh, OldDown, BeforeFirst, LoadedInOpen,
      Unstarted, Hands, News, NewToCome, NewInHand, NewAfter, NewCarried,
      Locking, Opening, BeatError, Goto, values, opening, discord
<1> QED
  BY <1>0, <1>u, <1>q, QuietKeeps, <1>1, <1>2, <1>3, <1>4, <1>5, <1>6, <1>7, <1>8, <1>9,
     <1>10, <1>11,
     <1>12, <1>13, <1>14, <1>15, <1>16, <1>17, <1>18
  DEF IInv, Structure, Streams, Unmixed, Types, Websockets, Numbered

LEMMA StoppedKeeps ==
  ASSUME IInv, NEW c \in Conns, Stopped(c)
  PROVE  IInv'
<1>0. Types /\ Locking /\ Websockets /\ Hands /\ Numbered /\ InOrder /\ Tip
      /\ (~mixed => Whole /\ Twice /\ News)
  BY DEF IInv, Structure, Streams, Unmixed
<1>u. UNCHANGED <<lock, wsConn, stopped, sequence, sessionID, origin,
                    loaded, loadedFrom, mixed, hand, inbox, down, serves,
                    alive, sent, dialled, handled, late>>
  BY DEF Stopped, Goto, values, opening, discord
<1>1. TypeSession'
  BY <1>0, <1>u DEF Types, TypeSession
<1>2. TypeSockets'
  BY <1>0, <1>u DEF Types, TypeSockets
<1>3. TypeLabels'
  BY <1>0, <1>u, ProcFacts, DispatchFacts, NothingFacts, Places
  DEF Types, TypeSession, TypeSockets, TypeLabels, TypePackets,
      TypeDiscord, Websockets, Fresh, OldDown, BeforeFirst, LoadedInOpen,
      Unstarted, Hands, Labels, Stopped, Goto, values, opening, discord
<1>4. TypePackets'
  BY <1>0, <1>u DEF Types, TypePackets
<1>5. TypeDiscord'
  BY <1>0, <1>u DEF Types, TypeDiscord
<1>6. Locking'
  BY <1>0, <1>u, ProcFacts, DispatchFacts, NothingFacts, Places
  DEF Types, TypeSession, TypeSockets, TypeLabels, TypePackets,
      TypeDiscord, Websockets, Fresh, OldDown, BeforeFirst, LoadedInOpen,
      Unstarted, Hands, Locking, Opening, Stopped, Goto, values, opening,
      discord
<1>7. Fresh'
  BY <1>0, <1>u, ProcFacts, DispatchFacts, NothingFacts, Places
  DEF Types, TypeSession, TypeSockets, TypeLabels, TypePackets,
      TypeDiscord, Websockets, Fresh, OldDown, BeforeFirst, LoadedInOpen,
      Unstarted, Hands, Stopped, Goto, values, opening, discord
<1>8. OldDown'
  BY <1>0, <1>u DEF Websockets, OldDown
<1>9. BeforeFirst'
  BY <1>0, <1>u, ProcFacts, DispatchFacts, NothingFacts, Places
  DEF Types, TypeSession, TypeSockets, TypeLabels, TypePackets,
      TypeDiscord, Websockets, Fresh, OldDown, BeforeFirst, LoadedInOpen,
      Unstarted, Hands, Locking, Opening, Stopped, Goto, values, opening,
      discord
<1>10. LoadedInOpen'
  BY <1>0, <1>u, ProcFacts, DispatchFacts, NothingFacts, Places
  DEF Types, TypeSession, TypeSockets, TypeLabels, TypePackets,
      TypeDiscord, Websockets, Fresh, OldDown, BeforeFirst, LoadedInOpen,
      Unstarted, Hands, Locking, Opening, Stopped, Goto, values, opening,
      discord
<1>11. Hands'
  BY <1>0, <1>u, ProcFacts, DispatchFacts, NothingFacts, Places
  DEF Types, TypeSession, TypeSockets, TypeLabels, TypePackets,
      TypeDiscord, Websockets, Fresh, OldDown, BeforeFirst, LoadedInOpen,
      Unstarted, Hands, Stopped, Goto, values, opening, discord
<1>12. KnownPackets'
  BY <1>0, <1>u DEF Numbered, KnownPackets, Known
<1>13. KnownHandled'
  BY <1>0, <1>u DEF Numbered, KnownHandled
<1>14. Served'
  BY <1>0, <1>u DEF Numbered, Served
<1>15. InOrder'
  BY <1>0, <1>u DEF InOrder, Follows
<1>16. Tip'
  BY <1>0, <1>u DEF Tip
<1>q. Quiet
  BY <1>0, <1>u, ProcFacts DEF Quiet, Types, TypeSession, TypeSockets, TypeLabels,
     TypePackets, TypeDiscord, Hands, Stopped, Goto
<1>17. ~mixed' => Whole'
  BY <1>0, <1>u, <1>q, QuietKeeps DEF Whole, ToCome, CaughtUp, Held, Stored, Carried
<1>18. ~mixed' => News'
  BY <1>0, <1>u, <1>q, QuietKeeps, ProcFacts, DispatchFacts, NothingFacts, Places
  DEF Types, TypeSession, TypeSockets, TypeLabels, TypePackets,
      TypeDiscord, Websockets, Fresh, OldDown, BeforeFirst, LoadedInOpen,
      Unstarted, Hands, News, NewToCome, NewInHand, NewAfter, NewCarried,
      Locking, Opening, Stopped, Goto, values, opening, discord
<1> QED
  BY <1>0, <1>u, <1>q, QuietKeeps, <1>1, <1>2, <1>3, <1>4, <1>5, <1>6, <1>7, <1>8, <1>9,
     <1>10, <1>11,
     <1>12, <1>13, <1>14, <1>15, <1>16, <1>17, <1>18
  DEF IInv, Structure, Streams, Unmixed, Types, Websockets, Numbered

LEMMA ApplicationKeeps ==
  ASSUME IInv, Application
  PROVE  IInv'
<1>0. Types /\ Locking /\ Websockets /\ Hands /\ Numbered /\ InOrder /\ Tip
      /\ (~mixed => Whole /\ Twice /\ News)
  BY DEF IInv, Structure, Streams, Unmixed
<1>u. UNCHANGED <<lock, wsConn, stopped, sequence, sessionID, origin,
                    loaded, loadedFrom, mixed, hand, inbox, down, serves,
                    alive, sent, dialled, handled, late>>
  BY DEF Application, Goto, values, opening, discord
<1>a. PICK call \in {"open", "close"} : pc' = [pc EXCEPT ![app] = call]
  BY ResumeAssumption DEF Application, Goto
<1>1. TypeSession'
  BY <1>0, <1>u DEF Types, TypeSession
<1>2. TypeSockets'
  BY <1>0, <1>u DEF Types, TypeSockets
<1>3. TypeLabels'
  BY <1>0, <1>u, ProcFacts, DispatchFacts, NothingFacts, Places, <1>a
  DEF Types, TypeSession, TypeSockets, TypeLabels, TypePackets,
      TypeDiscord, Websockets, Fresh, OldDown, BeforeFirst, LoadedInOpen,
      Unstarted, Hands, Labels, Application, Goto, values, opening,
      discord
<1>4. TypePackets'
  BY <1>0, <1>u DEF Types, TypePackets
<1>5. TypeDiscord'
  BY <1>0, <1>u DEF Types, TypeDiscord
<1>6. Locking'
  BY <1>0, <1>u, ProcFacts, DispatchFacts, NothingFacts, Places, <1>a
  DEF Types, TypeSession, TypeSockets, TypeLabels, TypePackets,
      TypeDiscord, Websockets, Fresh, OldDown, BeforeFirst, LoadedInOpen,
      Unstarted, Hands, Locking, Opening, Application, Goto, values,
      opening, discord
<1>7. Fresh'
  BY <1>0, <1>u, ProcFacts, DispatchFacts, NothingFacts, Places, <1>a
  DEF Types, TypeSession, TypeSockets, TypeLabels, TypePackets,
      TypeDiscord, Websockets, Fresh, OldDown, BeforeFirst, LoadedInOpen,
      Unstarted, Hands, Application, Goto, values, opening, discord
<1>8. OldDown'
  BY <1>0, <1>u DEF Websockets, OldDown
<1>9. BeforeFirst'
  <2>1. \A q \in Procs : pc'[q] = pc[q] \/ pc'[q] \in {"open", "close"}
    BY <1>0, <1>a, ProcFacts DEF Types, TypeLabels
  <2>2. wsConn # NoConn => pc'[listen(wsConn)] = pc[listen(wsConn)] /\ pc'[heartbeat(wsConn)] = pc[heartbeat(wsConn)]
    BY <1>0, <1>a, ProcFacts, Places DEF Types, TypeLabels, TypeSockets
  <2> QED  BY <1>0, <1>u, <2>1, <2>2 DEF Websockets, BeforeFirst, Unstarted
<1>10. LoadedInOpen'
  BY <1>0, <1>u, ProcFacts, DispatchFacts, NothingFacts, Places, <1>a
  DEF Types, TypeSession, TypeSockets, TypeLabels, TypePackets,
      TypeDiscord, Websockets, Fresh, OldDown, BeforeFirst, LoadedInOpen,
      Unstarted, Hands, Locking, Opening, Application, Goto, values,
      opening, discord
<1>11. Hands'
  BY <1>0, <1>u, ProcFacts, DispatchFacts, NothingFacts, Places, <1>a
  DEF Types, TypeSession, TypeSockets, TypeLabels, TypePackets,
      TypeDiscord, Websockets, Fresh, OldDown, BeforeFirst, LoadedInOpen,
      Unstarted, Hands, Application, Goto, values, opening, discord
<1>12. KnownPackets'
  BY <1>0, <1>u DEF Numbered, KnownPackets, Known
<1>13. KnownHandled'
  BY <1>0, <1>u DEF Numbered, KnownHandled
<1>14. Served'
  BY <1>0, <1>u DEF Numbered, Served
<1>15. InOrder'
  BY <1>0, <1>u DEF InOrder, Follows
<1>16. Tip'
  BY <1>0, <1>u DEF Tip
<1>q. Quiet
  BY <1>0, <1>u, ProcFacts, <1>a DEF Quiet, Types, TypeSession, TypeSockets, TypeLabels,
     TypePackets, TypeDiscord, Hands, Application, Goto
<1>17. ~mixed' => Whole'
  BY <1>0, <1>u, <1>q, QuietKeeps DEF Whole, ToCome, CaughtUp, Held, Stored, Carried
<1>18. ~mixed' => News'
  BY <1>0, <1>u, <1>q, QuietKeeps, ProcFacts, DispatchFacts, NothingFacts, Places, <1>a
  DEF Types, TypeSession, TypeSockets, TypeLabels, TypePackets,
      TypeDiscord, Websockets, Fresh, OldDown, BeforeFirst, LoadedInOpen,
      Unstarted, Hands, News, NewToCome, NewInHand, NewAfter, NewCarried,
      Locking, Opening, Application, Goto, values, opening, discord
<1> QED
  BY <1>0, <1>u, <1>q, QuietKeeps, <1>1, <1>2, <1>3, <1>4, <1>5, <1>6, <1>7, <1>8, <1>9,
     <1>10, <1>11,
     <1>12, <1>13, <1>14, <1>15, <1>16, <1>17, <1>18
  DEF IInv, Structure, Streams, Unmixed, Types, Websockets, Numbered

LEMMA IdentifyKeeps ==
  ASSUME IInv, NEW p \in Procs, Identify(p)
  PROVE  IInv'
<1>0. Types /\ Locking /\ Websockets /\ Hands /\ Numbered /\ InOrder /\ Tip
      /\ (~mixed => Whole /\ Twice /\ News)
  BY DEF IInv, Structure, Streams, Unmixed
<1>u. UNCHANGED <<lock, wsConn, stopped, sequence, sessionID, origin,
                    mixed, hand, down, dialled, handled, late>>
  BY DEF Identify, Goto, Loaded, values
<1>a. /\ wsConn \in Conns /\ Unstarted(wsConn) /\ serves[wsConn] = NoSession
      /\ hand[wsConn].op # "dispatch" /\ pc[p] = "identify"
  BY <1>0, NothingFacts, Places
     DEF Websockets, BeforeFirst, Unstarted, Types, TypeSockets, Identify
<1>b. /\ pc' = [pc EXCEPT ![p] = "first"] /\ loaded' = 0 /\ loadedFrom' = NoSession
      /\ \A q \in Procs : q # p => pc'[q] = pc[q] /\ pc[q] \notin Opening
  BY <1>0, <1>a DEF Identify, Goto, Loaded, Locking, Opening, Types, TypeLabels
<1>c. pc'[listen(wsConn)] = "off" /\ pc'[heartbeat(wsConn)] = "off" /\ hand'[wsConn] = Nothing
  BY <1>0, <1>a, <1>b, <1>u, ProcFacts DEF Unstarted
<1>k. PICK k \in Sessions :
        /\ sent[k] = 0 /\ sent' = [sent EXCEPT ![k] = 1] /\ alive' = alive \cup {k}
        /\ serves' = [serves EXCEPT ![wsConn] = k]
        /\ inbox' = [inbox EXCEPT ![wsConn] = <<Dispatch(k, 1)>>]
  BY DEF Identify
<1>m. ~mixed' => ~mixed
  BY <1>u
<1>i. /\ inbox'[wsConn] = <<Dispatch(k, 1)>> /\ Dispatch(k, 1) \in Packets
      /\ Len(inbox'[wsConn]) = 1 /\ inbox'[wsConn][1] = Dispatch(k, 1) /\ inbox'[wsConn] # <<>>
      /\ \A d \in Conns : d # wsConn => inbox'[d] = inbox[d] /\ serves'[d] = serves[d]
      /\ serves'[wsConn] = k /\ sent'[k] = 1 /\ \A j \in Sessions : j # k => sent'[j] = sent[j]
  BY <1>0, <1>a, <1>k, DispatchFacts, Places, ResumeAssumption
     DEF Types, TypePackets, TypeDiscord
<1>j. \A d \in Conns : serves[d] # k
  BY <1>0, <1>k, Places DEF Numbered, Served
<1>1. TypeSession'
  BY <1>0, <1>u, ProcFacts, DispatchFacts, NothingFacts, Places
  DEF Types, TypeSession, TypeSockets, TypeLabels, TypePackets,
      TypeDiscord, Websockets, Fresh, OldDown, BeforeFirst, LoadedInOpen,
      Unstarted, Hands, Labels, Identify, Goto, Loaded, values
<1>2. TypeSockets'
  BY <1>0, <1>u DEF Types, TypeSockets
<1>3. TypeLabels'
  BY <1>0, <1>u, ProcFacts, DispatchFacts, NothingFacts, Places
  DEF Types, TypeSession, TypeSockets, TypeLabels, TypePackets,
      TypeDiscord, Websockets, Fresh, OldDown, BeforeFirst, LoadedInOpen,
      Unstarted, Hands, Labels, Identify, Goto, Loaded, values
<1>4. TypePackets'
  BY <1>0, <1>a, <1>i, <1>k, <1>u DEF Types, TypePackets
<1>5. TypeDiscord'
  BY SMTT(20), <1>0, <1>a, <1>k, <1>u, Places, ResumeAssumption DEF Types, TypeDiscord
<1>6. Locking'
  BY <1>0, <1>u, ProcFacts, DispatchFacts, NothingFacts, Places
  DEF Types, TypeSession, TypeSockets, TypeLabels, TypePackets,
      TypeDiscord, Websockets, Fresh, OldDown, BeforeFirst, LoadedInOpen,
      Unstarted, Hands, Locking, Opening, Identify, Goto, Loaded, values
<1>7. Fresh'
  BY SMTT(20), <1>0, <1>u, ProcFacts, DispatchFacts, NothingFacts, Places
  DEF Types, TypeSession, TypeSockets, TypeLabels, TypePackets,
      TypeDiscord, Websockets, Fresh, OldDown, BeforeFirst, LoadedInOpen,
      Unstarted, Hands, Identify, Goto, Loaded, values
<1>8. OldDown'
  BY <1>0, <1>u DEF Websockets, OldDown
<1>9. BeforeFirst'
  BY <1>0, <1>a, <1>b, <1>c, <1>u, Places
  DEF BeforeFirst, Unstarted, Opening, Types, TypeLabels
<1>10. LoadedInOpen'
  BY <1>0, <1>u, ProcFacts, DispatchFacts, NothingFacts, Places
  DEF Types, TypeSession, TypeSockets, TypeLabels, TypePackets,
      TypeDiscord, Websockets, Fresh, OldDown, BeforeFirst, LoadedInOpen,
      Unstarted, Hands, Locking, Opening, Identify, Goto, Loaded, values
<1>11. Hands'
  BY <1>0, <1>u, ProcFacts, DispatchFacts, NothingFacts, Places
  DEF Types, TypeSession, TypeSockets, TypeLabels, TypePackets,
      TypeDiscord, Websockets, Fresh, OldDown, BeforeFirst, LoadedInOpen,
      Unstarted, Hands, Identify, Goto, Loaded, values
<1>12. KnownPackets'
  <2>1. \A d \in Conns : \A i \in 1..Len(inbox'[d]) :
          \/ \E j \in 1..Len(inbox[d]) : inbox'[d][i] = inbox[d][j]
          \/ Known(inbox'[d][i], sent')
    BY <1>0, <1>a, <1>i, DispatchFacts, Places DEF Known
  <2>2. \A j \in Sessions : sent[j] <= sent'[j]
    BY <1>0, <1>k, <1>i, Places DEF Types, TypeDiscord
  <2> QED  BY <1>0, <1>u, <1>5, <2>1, <2>2, KnownKept DEF Numbered
<1>13. KnownHandled'
  BY <1>0, <1>u, <1>k, <1>i, Places DEF Numbered, KnownHandled, Types, TypeDiscord
<1>14. Served'
  <2>1. \A d \in Conns : serves'[d] # NoSession => serves'[d] \in Sessions
    BY <1>5, Places DEF TypeDiscord
  <2> QED  BY <1>0, <1>a, <1>i, <1>j, <1>k, <2>1 DEF Numbered, Served, Types, TypeDiscord
<1>15. InOrder'
  BY <1>0, <1>a, <1>i, <1>u DEF InOrder, Follows
<1>16. Tip'
  <2>1. \A d \in Conns : d # wsConn /\ serves[d] # NoSession => sent'[serves[d]] = sent[serves[d]]
    BY <1>0, <1>i, <1>j, Places DEF Types, TypeDiscord
  <2> QED  BY <1>0, <1>a, <1>i, <1>u, <2>1 DEF Tip
<1>q. Quiet
  BY <1>0, <1>u, ProcFacts DEF Quiet, Types, TypeSession, TypeSockets, TypeLabels,
     TypePackets, TypeDiscord, Hands, Identify, Goto
<1>17. ~mixed' => Whole'
  <2>1. Covered(k, 0)
    BY DEF Covered
  <2>2. \A d \in Conns : d # wsConn /\ serves[d] # NoSession => sent'[serves[d]] = sent[serves[d]]
    BY <1>0, <1>i, <1>j, Places DEF Types, TypeDiscord
  <2> QED  BY <1>0, <1>a, <1>b, <1>i, <1>u, <1>q, QuietKeeps, <2>1, <2>2, DispatchFacts
           DEF Whole, ToCome, CaughtUp, Held, Stored, Carried
<1>18. ~mixed' => News'
  <2>1. ~mixed' /\ inbox'[wsConn][1].op = "dispatch"
          => NewFrom(inbox'[wsConn][1].session, inbox'[wsConn][1].number)
    <3>1. NewFrom(k, 1)
      BY <1>0, <1>k, DoingSent DEF NewFrom
    <3> QED  BY <1>i, <3>1, DispatchFacts
  <2> QED  BY <1>0, <1>m, <1>u, <1>a, <1>b, <1>c, <1>q, QuietKeeps, <2>1
           DEF News, NewToCome, NewInHand, NewAfter, NewCarried
<1> QED
  BY <1>0, <1>u, <1>q, QuietKeeps, <1>1, <1>2, <1>3, <1>4, <1>5, <1>6, <1>7, <1>8, <1>9,
     <1>10, <1>11,
     <1>12, <1>13, <1>14, <1>15, <1>16, <1>17, <1>18
  DEF IInv, Structure, Streams, Unmixed, Types, Websockets, Numbered

LEMMA AcceptedKeeps ==
  ASSUME IInv, NEW p \in Procs, Accepted(p)
  PROVE  IInv'
<1>0. Types /\ Locking /\ Websockets /\ Hands /\ Numbered /\ InOrder /\ Tip
      /\ (~mixed => Whole /\ Twice /\ News)
  BY DEF IInv, Structure, Streams, Unmixed
<1>u. UNCHANGED <<lock, wsConn, stopped, sequence, sessionID, origin,
                    hand, down, alive, dialled, handled, late>>
  BY DEF Accepted, Goto, Loaded, values
<1>a. /\ wsConn \in Conns /\ Unstarted(wsConn) /\ serves[wsConn] = NoSession
      /\ hand[wsConn].op # "dispatch" /\ pc[p] = "identify"
  BY <1>0, NothingFacts, Places
     DEF Websockets, BeforeFirst, Unstarted, Types, TypeSockets, Accepted
<1>b. /\ pc' = [pc EXCEPT ![p] = "first"] /\ loaded' = 0 /\ loadedFrom' = NoSession
      /\ \A q \in Procs : q # p => pc'[q] = pc[q] /\ pc[q] \notin Opening
  BY <1>0, <1>a DEF Accepted, Goto, Loaded, Locking, Opening, Types, TypeLabels
<1>c. pc'[listen(wsConn)] = "off" /\ pc'[heartbeat(wsConn)] = "off" /\ hand'[wsConn] = Nothing
  BY <1>0, <1>a, <1>b, <1>u, ProcFacts DEF Unstarted
<1>d. DEFINE k == sessionID
             m == sent[k] + 1 - loaded
<1>m. ~mixed' => ~mixed /\ loadedFrom = k
  BY Zenon DEF Accepted
<1>k. /\ k \in Sessions /\ k # NoSession /\ k \in alive /\ loaded <= sent[k] /\ sent[k] < MaxSequence
      /\ sent' = [sent EXCEPT ![k] = @ + 1]
      /\ inbox' = [inbox EXCEPT ![wsConn] = [i \in 1..m |-> Dispatch(k, loaded + i)]]
      /\ serves' = [c \in Conns |-> IF c = wsConn THEN k ELSE IF serves[c] = k THEN NoSession ELSE serves[c]]
  BY <1>0, Places DEF Accepted, Types, TypeDiscord
<1>l. loaded \in Nat /\ sent[k] \in Nat /\ m \in Nat /\ m >= 1
  <2>1. loaded \in Nat /\ sent[k] \in Nat
    BY <1>0, <1>k, Places DEF Types, TypeSession, TypeDiscord
  <2> QED  BY <1>k, <2>1
<1>g. HIDE DEF m, k
<1>n. m = sent[k] + 1 - loaded
  BY DEF m
<1>i. /\ inbox'[wsConn] = [i \in 1..m |-> Dispatch(k, loaded + i)]
      /\ \A i \in 1..m : inbox'[wsConn][i] = Dispatch(k, loaded + i) /\ Dispatch(k, loaded + i) \in Packets
      /\ Len(inbox'[wsConn]) = m /\ inbox'[wsConn] \in Seq(Packets)
      /\ inbox'[wsConn][1] = Dispatch(k, loaded + 1) /\ inbox'[wsConn] # <<>>
      /\ \A d \in Conns : d # wsConn => inbox'[d] = inbox[d]
  <2>1. inbox'[wsConn] = [i \in 1..m |-> Dispatch(k, loaded + i)]
        /\ \A d \in Conns : d # wsConn => inbox'[d] = inbox[d]
    BY <1>0, <1>a, <1>k DEF Types, TypePackets
  <2>2. \A i \in 1..m : loaded + i \in 1..MaxSequence
    BY <1>k, <1>l, <1>n, Places
  <2>3. \A i \in 1..m : Dispatch(k, loaded + i) \in Packets
    BY <1>k, <2>2, DispatchFacts
  <2>4. inbox'[wsConn] \in Seq(Packets) /\ Len(inbox'[wsConn]) = m
    BY <1>l, <2>1, <2>3
  <2>5. inbox'[wsConn] # <<>>
    BY <1>l, <2>4
  <2> QED  BY <1>l, <2>1, <2>3, <2>4, <2>5
<1>s. /\ serves'[wsConn] = k /\ sent'[k] = sent[k] + 1
      /\ \A j \in Sessions : j # k => sent'[j] = sent[j]
      /\ \A d \in Conns : d # wsConn /\ serves'[d] # NoSession => serves'[d] = serves[d] /\ serves[d] # k
  BY <1>0, <1>a, <1>k, <1>l DEF Types, TypeDiscord
<1>1. TypeSession'
  BY <1>0, <1>u, ProcFacts, DispatchFacts, NothingFacts, Places
  DEF Types, TypeSession, TypeSockets, TypeLabels, TypePackets,
      TypeDiscord, Websockets, Fresh, OldDown, BeforeFirst, LoadedInOpen,
      Unstarted, Hands, Labels, Accepted, Goto, Loaded, values
<1>2. TypeSockets'
  BY <1>0, <1>u DEF Types, TypeSockets
<1>3. TypeLabels'
  BY <1>0, <1>u, ProcFacts, DispatchFacts, NothingFacts, Places
  DEF Types, TypeSession, TypeSockets, TypeLabels, TypePackets,
      TypeDiscord, Websockets, Fresh, OldDown, BeforeFirst, LoadedInOpen,
      Unstarted, Hands, Labels, Accepted, Goto, Loaded, values
<1>4. TypePackets'
  BY <1>0, <1>a, <1>i, <1>k, <1>u DEF Types, TypePackets
<1>5. TypeDiscord'
  <2>1. serves' \in [Conns -> Sessions \cup {NoSession}]
    BY <1>0, <1>k DEF Types, TypeDiscord
  <2>2. sent' \in [Sessions -> 0..MaxSequence]
    BY <1>0, <1>k, <1>l, Places DEF Types, TypeDiscord
  <2> QED  BY <1>0, <1>u, <2>1, <2>2 DEF Types, TypeDiscord
<1>6. Locking'
  BY <1>0, <1>u, ProcFacts, DispatchFacts, NothingFacts, Places
  DEF Types, TypeSession, TypeSockets, TypeLabels, TypePackets,
      TypeDiscord, Websockets, Fresh, OldDown, BeforeFirst, LoadedInOpen,
      Unstarted, Hands, Locking, Opening, Accepted, Goto, Loaded, values
<1>7. Fresh'
  <2>1. wsConn <= dialled
    BY <1>0 DEF Types, TypeSockets
  <2> QED  BY <1>0, <1>a, <1>b, <1>i, <1>k, <1>u, <2>1, ProcFacts, Places
    DEF Websockets, Fresh, Unstarted, Types, TypeSockets
<1>8. OldDown'
  BY <1>0, <1>u DEF Websockets, OldDown
<1>9. BeforeFirst'
  BY <1>0, <1>a, <1>b, <1>c, <1>u, Places
  DEF BeforeFirst, Unstarted, Opening, Types, TypeLabels
<1>10. LoadedInOpen'
  BY <1>0, <1>u, ProcFacts, DispatchFacts, NothingFacts, Places
  DEF Types, TypeSession, TypeSockets, TypeLabels, TypePackets,
      TypeDiscord, Websockets, Fresh, OldDown, BeforeFirst, LoadedInOpen,
      Unstarted, Hands, Locking, Opening, Accepted, Goto, Loaded, values
<1>11. Hands'
  BY <1>0, <1>u, ProcFacts, DispatchFacts, NothingFacts, Places
  DEF Types, TypeSession, TypeSockets, TypeLabels, TypePackets,
      TypeDiscord, Websockets, Fresh, OldDown, BeforeFirst, LoadedInOpen,
      Unstarted, Hands, Accepted, Goto, Loaded, values
<1>12. KnownPackets'
  <2>1. \A d \in Conns : \A i \in 1..Len(inbox'[d]) :
          \/ \E j \in 1..Len(inbox[d]) : inbox'[d][i] = inbox[d][j]
          \/ Known(inbox'[d][i], sent')
    <3>1. \A i \in 1..m : loaded + i <= sent'[k]
      BY <1>k, <1>l, <1>n, <1>s
    <3>2. \A i \in 1..m : Known(inbox'[wsConn][i], sent')
      BY <1>i, <3>1, DispatchFacts DEF Known
    <3> QED  BY <1>i, <3>2
  <2>2. \A j \in Sessions : sent[j] <= sent'[j]
    BY SMTT(20), <1>0, <1>k, <1>s, Places DEF Types, TypeDiscord
  <2> QED  BY <1>0, <1>u, <1>5, <2>1, <2>2, KnownKept DEF Numbered
<1>13. KnownHandled'
  BY SMTT(20), <1>0, <1>u, <1>k, <1>s, Places DEF Numbered, KnownHandled, Types, TypeDiscord
<1>14. Served'
  <2>1. \A d \in Conns : serves'[d] # NoSession => serves'[d] \in Sessions
    BY <1>5, Places DEF TypeDiscord
  <2> QED  BY <1>0, <1>a, <1>k, <1>s, <1>u, <2>1 DEF Numbered, Served, Types, TypeDiscord
<1>15. InOrder'
  <2>1. \A i \in 1..m - 1 : Follows(inbox'[wsConn][i], inbox'[wsConn][i + 1])
    <3>1. \A i \in 1..m - 1 : i \in 1..m /\ i + 1 \in 1..m /\ loaded + (i + 1) = loaded + i + 1
      BY <1>k, <1>l
    <3> QED  BY <1>i, <3>1, DispatchFacts DEF Follows
  <2>2. \A d \in Conns : \A i \in 1..Len(inbox'[d]) - 1 : Follows(inbox'[d][i], inbox'[d][i + 1])
    BY <1>0, <1>i, <2>1 DEF InOrder
  <2>3. \A d \in Conns : inbox'[d] # <<>> /\ hand'[d].op = "dispatch" => Follows(hand'[d], inbox'[d][1])
    BY <1>0, <1>a, <1>i, <1>u DEF InOrder
  <2> QED  BY <2>2, <2>3 DEF InOrder, Follows
<1>16. Tip'
  <2>1. \A d \in Conns : d # wsConn /\ serves'[d] # NoSession => sent'[serves'[d]] = sent[serves[d]]
    BY <1>0, <1>s, Places DEF Types, TypeDiscord
  <2>2. inbox'[wsConn][Len(inbox'[wsConn])] = Dispatch(serves'[wsConn], sent'[serves'[wsConn]])
    <3>1. loaded + m = sent'[k] /\ m \in 1..m
      BY <1>k, <1>l, <1>n, <1>s
    <3> QED  BY <1>i, <1>s, <3>1
  <2>3. hand'[wsConn].op # "dispatch"
    BY <1>a, <1>u
  <2>4. ASSUME NEW d \in Conns \ down, serves'[d] # NoSession, d # wsConn
        PROVE  /\ inbox'[d] # <<>> => inbox'[d][Len(inbox'[d])] = Dispatch(serves'[d], sent'[serves'[d]])
               /\ inbox'[d] = <<>> /\ hand[d].op = "dispatch" => hand[d] = Dispatch(serves'[d], sent'[serves'[d]])
    BY <1>0, <1>i, <1>s, <2>1, <2>4 DEF Tip
  <2> QED  BY <1>i, <1>u, <2>2, <2>3, <2>4 DEF Tip
<1>q. Quiet
  BY <1>0, <1>u, ProcFacts DEF Quiet, Types, TypeSession, TypeSockets, TypeLabels,
     TypePackets, TypeDiscord, Hands, Accepted, Goto
<1>17. ~mixed' => Whole'
  <2>0. SUFFICES ASSUME ~mixed' PROVE Whole'
    OBVIOUS
  <2>1. Whole /\ Covered(k, loaded)
    BY <1>0, <1>k, <1>m, <2>0 DEF Whole, ToCome, CaughtUp, Held, Stored, Carried
  <2>2. \A d \in Conns : d # wsConn /\ serves'[d] # NoSession => sent'[serves'[d]] = sent[serves[d]]
    BY <1>0, <1>s, Places DEF Types, TypeDiscord
  <2>3. inbox'[wsConn][1].session = k /\ inbox'[wsConn][1].number - 1 = loaded /\ inbox'[wsConn] # <<>>
    <3>1. loaded \in Nat /\ (loaded + 1) - 1 = loaded
      BY <1>l
    <3> QED  BY <1>i, <3>1, DispatchFacts
  <2>4. \A d \in Conns \ down' : inbox'[d] # <<>> /\ inbox'[d][1].op = "dispatch" /\ hand'[d].op # "dispatch"
          => Covered(inbox'[d][1].session, inbox'[d][1].number - 1)
    BY <1>i, <1>u, <2>1, <2>3 DEF Whole, ToCome, CaughtUp, Held, Stored, Carried
  <2>5. \A d \in Conns \ down' : serves'[d] # NoSession /\ inbox'[d] = <<>> /\ hand'[d].op # "dispatch"
          => Covered(serves'[d], sent'[serves'[d]])
    BY <1>i, <1>s, <1>u, <2>1, <2>2, <2>3 DEF Whole, ToCome, CaughtUp, Held, Stored, Carried
  <2> QED  BY <1>b, <1>u, <1>q, QuietKeeps, <2>1, <2>4, <2>5
           DEF Whole, ToCome, CaughtUp, Held, Stored, Carried
<1>18. ~mixed' => News'
  <2>1. ~mixed' /\ inbox'[wsConn][1].op = "dispatch"
          => NewFrom(inbox'[wsConn][1].session, inbox'[wsConn][1].number)
    <3>1. ~mixed' => NewFrom(k, loaded + 1)
      BY <1>0, <1>k, <1>m DEF News, NewToCome, NewInHand, NewAfter, NewCarried
    <3> QED  BY <1>i, <3>1, DispatchFacts
  <2> QED  BY <1>0, <1>m, <1>u, <1>a, <1>b, <1>c, <1>q, QuietKeeps, <2>1
           DEF News, NewToCome, NewInHand, NewAfter, NewCarried
<1> QED
  BY <1>0, <1>u, <1>m, <1>q, QuietKeeps, <1>1, <1>2, <1>3, <1>4, <1>5, <1>6, <1>7, <1>8,
     <1>9, <1>10, <1>11,
     <1>12, <1>13, <1>14, <1>15, <1>16, <1>17, <1>18
  DEF IInv, Structure, Streams, Unmixed, Types, Websockets, Numbered

LEMMA RefusedKeeps ==
  ASSUME IInv, NEW p \in Procs, Refused(p)
  PROVE  IInv'
<1>0. Types /\ Locking /\ Websockets /\ Hands /\ Numbered /\ InOrder /\ Tip
      /\ (~mixed => Whole /\ Twice /\ News)
  BY DEF IInv, Structure, Streams, Unmixed
<1>u. UNCHANGED <<lock, wsConn, stopped, sequence, sessionID, origin,
                    hand, down, serves, sent, dialled, handled, late>>
  BY DEF Refused, Goto, Loaded, values
<1>a. /\ wsConn \in Conns /\ Unstarted(wsConn) /\ serves[wsConn] = NoSession
      /\ hand[wsConn].op # "dispatch" /\ pc[p] = "identify"
  BY <1>0, NothingFacts, Places
     DEF Websockets, BeforeFirst, Unstarted, Types, TypeSockets, Refused
<1>b. /\ pc' = [pc EXCEPT ![p] = "first"] /\ loaded' = 0 /\ loadedFrom' = NoSession
      /\ \A q \in Procs : q # p => pc'[q] = pc[q] /\ pc[q] \notin Opening
  BY <1>0, <1>a DEF Refused, Goto, Loaded, Locking, Opening, Types, TypeLabels
<1>c. pc'[listen(wsConn)] = "off" /\ pc'[heartbeat(wsConn)] = "off" /\ hand'[wsConn] = Nothing
  BY <1>0, <1>a, <1>b, <1>u, ProcFacts DEF Unstarted
<1>m. ~mixed' => ~mixed
  BY Zenon DEF Refused
<1>d. DEFINE d == Invalid(FALSE)
<1>f. d \in Packets /\ d.op # "dispatch"
  BY OtherFacts DEF Invalid
<1>k. inbox' = [inbox EXCEPT ![wsConn] = <<d>>] /\ alive' = alive \ {sessionID}
  BY DEF Refused
<1>g. HIDE DEF d
<1>i. /\ inbox'[wsConn] = <<d>> /\ Len(inbox'[wsConn]) = 1 /\ inbox'[wsConn][1] = d
      /\ inbox'[wsConn][1].op # "dispatch"
      /\ \A e \in Conns : e # wsConn => inbox'[e] = inbox[e]
  BY <1>0, <1>a, <1>f, <1>k DEF Types, TypePackets
<1>1. TypeSession'
  BY <1>0, <1>u, ProcFacts, DispatchFacts, NothingFacts, Places
  DEF Types, TypeSession, TypeSockets, TypeLabels, TypePackets,
      TypeDiscord, Websockets, Fresh, OldDown, BeforeFirst, LoadedInOpen,
      Unstarted, Hands, Labels, Refused, Goto, Loaded, values
<1>2. TypeSockets'
  BY <1>0, <1>u DEF Types, TypeSockets
<1>3. TypeLabels'
  BY <1>0, <1>u, ProcFacts, DispatchFacts, NothingFacts, Places
  DEF Types, TypeSession, TypeSockets, TypeLabels, TypePackets,
      TypeDiscord, Websockets, Fresh, OldDown, BeforeFirst, LoadedInOpen,
      Unstarted, Hands, Labels, Refused, Goto, Loaded, values
<1>4. TypePackets'
  BY <1>0, <1>a, <1>f, <1>i, <1>k, <1>u DEF Types, TypePackets
<1>5. TypeDiscord'
  BY <1>0, <1>u, ProcFacts, DispatchFacts, NothingFacts, Places
  DEF Types, TypeSession, TypeSockets, TypeLabels, TypePackets,
      TypeDiscord, Websockets, Fresh, OldDown, BeforeFirst, LoadedInOpen,
      Unstarted, Hands, Refused, Goto, Loaded, values
<1>6. Locking'
  BY <1>0, <1>u, ProcFacts, DispatchFacts, NothingFacts, Places
  DEF Types, TypeSession, TypeSockets, TypeLabels, TypePackets,
      TypeDiscord, Websockets, Fresh, OldDown, BeforeFirst, LoadedInOpen,
      Unstarted, Hands, Locking, Opening, Refused, Goto, Loaded, values
<1>7. Fresh'
  BY <1>0, <1>u, ProcFacts, DispatchFacts, NothingFacts, Places
  DEF Types, TypeSession, TypeSockets, TypeLabels, TypePackets,
      TypeDiscord, Websockets, Fresh, OldDown, BeforeFirst, LoadedInOpen,
      Unstarted, Hands, Refused, Goto, Loaded, values
<1>8. OldDown'
  BY <1>0, <1>u DEF Websockets, OldDown
<1>9. BeforeFirst'
  BY <1>0, <1>a, <1>b, <1>c, <1>u, Places
  DEF BeforeFirst, Unstarted, Opening, Types, TypeLabels
<1>10. LoadedInOpen'
  BY <1>0, <1>u, ProcFacts, DispatchFacts, NothingFacts, Places
  DEF Types, TypeSession, TypeSockets, TypeLabels, TypePackets,
      TypeDiscord, Websockets, Fresh, OldDown, BeforeFirst, LoadedInOpen,
      Unstarted, Hands, Locking, Opening, Refused, Goto, Loaded, values
<1>11. Hands'
  BY <1>0, <1>u, ProcFacts, DispatchFacts, NothingFacts, Places
  DEF Types, TypeSession, TypeSockets, TypeLabels, TypePackets,
      TypeDiscord, Websockets, Fresh, OldDown, BeforeFirst, LoadedInOpen,
      Unstarted, Hands, Refused, Goto, Loaded, values
<1>12. KnownPackets'
  <2>1. \A e \in Conns : \A i \in 1..Len(inbox'[e]) :
          \/ \E j \in 1..Len(inbox[e]) : inbox'[e][i] = inbox[e][j]
          \/ Known(inbox'[e][i], sent')
    BY <1>i DEF Known
  <2>2. \A j \in Sessions : sent[j] <= sent'[j]
    BY <1>0, <1>u, Places DEF Types, TypeDiscord
  <2> QED  BY <1>0, <1>u, <1>5, <2>1, <2>2, KnownKept DEF Numbered
<1>13. KnownHandled'
  BY <1>0, <1>u DEF Numbered, KnownHandled
<1>14. Served'
  BY <1>0, <1>u, ProcFacts, DispatchFacts, NothingFacts, Places
  DEF Types, TypeSession, TypeSockets, TypeLabels, TypePackets,
      TypeDiscord, Websockets, Fresh, OldDown, BeforeFirst, LoadedInOpen,
      Unstarted, Hands, Numbered, Served, Refused, Goto, Loaded, values
<1>15. InOrder'
  <2>1. \A e \in Conns : \A i \in 1..Len(inbox'[e]) - 1 : Follows(inbox'[e][i], inbox'[e][i + 1])
    BY <1>0, <1>i DEF InOrder
  <2>2. \A e \in Conns : inbox'[e] # <<>> /\ hand[e].op = "dispatch" => Follows(hand[e], inbox'[e][1])
    BY <1>0, <1>a, <1>i DEF InOrder
  <2> QED  BY <1>u, <2>1, <2>2 DEF InOrder, Follows
<1>16. Tip'
  BY <1>0, <1>a, <1>i, <1>u DEF Tip
<1>q. Quiet
  BY <1>0, <1>u, ProcFacts DEF Quiet, Types, TypeSession, TypeSockets, TypeLabels,
     TypePackets, TypeDiscord, Hands, Refused, Goto
<1>17. ~mixed' => Whole'
  BY <1>0, <1>m, <1>a, <1>b, <1>i, <1>u, <1>q, QuietKeeps
     DEF Whole, ToCome, CaughtUp, Held, Stored, Carried
<1>18. ~mixed' => News'
  <2>1. ~mixed' /\ inbox'[wsConn][1].op = "dispatch"
          => NewFrom(inbox'[wsConn][1].session, inbox'[wsConn][1].number)
    BY <1>i
  <2> QED  BY <1>0, <1>m, <1>u, <1>a, <1>b, <1>c, <1>q, QuietKeeps, <2>1
           DEF News, NewToCome, NewInHand, NewAfter, NewCarried
<1> QED
  BY <1>0, <1>u, <1>m, <1>q, QuietKeeps, <1>1, <1>2, <1>3, <1>4, <1>5, <1>6, <1>7, <1>8,
     <1>9, <1>10, <1>11,
     <1>12, <1>13, <1>14, <1>15, <1>16, <1>17, <1>18
  DEF IInv, Structure, Streams, Unmixed, Types, Websockets, Numbered

LEMMA DispatchesKeeps ==
  ASSUME IInv, NEW c \in Conns, Dispatches(c)
  PROVE  IInv'
<1>0. Types /\ Locking /\ Websockets /\ Hands /\ Numbered /\ InOrder /\ Tip
      /\ (~mixed => Whole /\ Twice /\ News)
  BY DEF IInv, Structure, Streams, Unmixed
<1>u. UNCHANGED <<lock, wsConn, stopped, sequence, sessionID, origin,
                    loaded, loadedFrom, mixed, pc, hand, down, serves,
                    alive, dialled, handled, late>>
  BY DEF Dispatches, values, opening
<1>d. DEFINE k == serves[c]
             d == Dispatch(k, sent[k] + 1)
<1>k. /\ k \in Sessions /\ k # NoSession /\ k \in alive /\ sent[k] \in Nat /\ sent[k] < MaxSequence
      /\ sent' = [sent EXCEPT ![k] = @ + 1] /\ d \in Packets
      /\ sent'[k] = sent[k] + 1 /\ \A j \in Sessions : j # k => sent'[j] = sent[j]
  BY <1>0, Places, DispatchFacts DEF Dispatches, Types, TypeDiscord
<1>s. d.op = "dispatch" /\ d.session = k /\ d.number = sent[k] + 1
  BY DispatchFacts
<1>i. inbox' = IF c \in down THEN inbox ELSE [inbox EXCEPT ![c] = Append(@, d)]
  BY DEF Dispatches, Send
<1>e. d = Dispatch(serves[c], sent[serves[c]] + 1)
  OBVIOUS
<1>n. \A e \in Conns : e # c /\ serves[e] # NoSession => serves[e] # k /\ sent'[serves[e]] = sent[serves[e]]
  BY <1>0, <1>k, Places DEF Numbered, Served, Types, TypeDiscord
<1>g. HIDE DEF k, d
<1>t. c \notin down =>
        /\ inbox'[c] \in Seq(Packets) /\ Len(inbox[c]) \in Nat
        /\ Len(inbox'[c]) = Len(inbox[c]) + 1 /\ inbox'[c] # <<>>
        /\ inbox[c] = <<>> <=> Len(inbox[c]) = 0
        /\ inbox'[c][Len(inbox[c]) + 1] = d
        /\ \A i \in 1..Len(inbox[c]) : inbox'[c][i] = inbox[c][i]
  BY <1>0, <1>k, <1>i, AppendFacts
<1>o. \A e \in Conns : e # c \/ c \in down => inbox'[e] = inbox[e]
  BY <1>0, <1>i DEF Types, TypePackets
<1>v. c \notin down => inbox'[c][1] = IF inbox[c] = <<>> THEN d ELSE inbox[c][1]
  BY <1>t
<1>1. TypeSession'
  BY <1>0, <1>u DEF Types, TypeSession
<1>2. TypeSockets'
  BY <1>0, <1>u DEF Types, TypeSockets
<1>3. TypeLabels'
  BY <1>0, <1>u DEF Types, TypeLabels
<1>4. TypePackets'
  BY <1>0, <1>i, <1>t, <1>u DEF Types, TypePackets
<1>5. TypeDiscord'
  BY SMTT(20), <1>0, <1>k, <1>u, Places DEF Types, TypeDiscord
<1>6. Locking'
  BY <1>0, <1>u DEF Locking
<1>7. Fresh'
  <2>1. c <= dialled
    BY <1>0, <1>k, Places, ProcFacts DEF Websockets, Fresh, Types, TypeSockets, k
  <2>2. \A e \in Conns : e > dialled => e # c
    BY <1>0, <2>1, Places DEF Types, TypeSockets
  <2> QED  BY <1>0, <1>o, <1>u, <2>2 DEF Websockets, Fresh, Unstarted
<1>8. OldDown'
  BY <1>0, <1>u DEF Websockets, OldDown
<1>9. BeforeFirst'
  BY <1>0, <1>u DEF Websockets, BeforeFirst, Unstarted
<1>10. LoadedInOpen'
  BY <1>0, <1>u DEF Websockets, LoadedInOpen
<1>11. Hands'
  BY <1>0, <1>u DEF Hands
<1>12. KnownPackets'
  <2>1. \A e \in Conns : \A i \in 1..Len(inbox'[e]) :
          \/ \E j \in 1..Len(inbox[e]) : inbox'[e][i] = inbox[e][j]
          \/ Known(inbox'[e][i], sent')
    <3>1. \A i \in 1..Len(inbox'[c]) : c \in down \/ i \in 1..Len(inbox[c]) \/ inbox'[c][i] = d
      BY <1>t
    <3>2. Known(d, sent')
      BY <1>k, <1>s DEF Known
    <3>3. \A i \in 1..Len(inbox'[c]) : \/ \E j \in 1..Len(inbox[c]) : inbox'[c][i] = inbox[c][j]
                                       \/ Known(inbox'[c][i], sent')
      BY <1>o, <1>t, <3>1, <3>2 DEF Known
    <3> QED  BY <1>o, <3>3
  <2>2. \A j \in Sessions : sent[j] <= sent'[j]
    BY SMTT(20), <1>0, <1>k, Places DEF Types, TypeDiscord
  <2> QED  BY <1>0, <1>u, <1>5, <2>1, <2>2, KnownKept DEF Numbered
<1>13. KnownHandled'
  <2>1. \A j \in Sessions : sent[j] \in Nat /\ sent'[j] \in Nat
    BY <1>0, <1>5, Places DEF Types, TypeDiscord
  <2>2. \A j \in Sessions : sent[j] <= sent'[j]
    BY <1>k, <2>1
  <2> QED  BY <1>0, <1>u, <2>1, <2>2, Places DEF Numbered, KnownHandled
<1>14. Served'
  <2>1. \A j \in Sessions : sent[j] > 0 => sent'[j] > 0
    BY <1>0, <1>k, Places DEF Types, TypeDiscord
  <2> QED  BY <1>0, <1>u, <2>1, Places DEF Numbered, Served, Types, TypeDiscord
<1>15. InOrder'
  <2>1. ASSUME c \notin down, NEW i \in 1..Len(inbox'[c]) - 1
        PROVE  Follows(inbox'[c][i], inbox'[c][i + 1])
    <3>1. CASE i = Len(inbox[c])
      <4>1. inbox[c] # <<>> /\ inbox[c][i] = Dispatch(k, sent[k]) /\ inbox'[c][i] = inbox[c][i]
        BY <1>0, <1>k, <1>t, <2>1, <3>1 DEF Tip, k
      <4> QED  BY <1>s, <1>t, <2>1, <3>1, <4>1, DispatchFacts DEF Follows
    <3>2. CASE i # Len(inbox[c])
      <4>1. i \in 1..Len(inbox[c]) - 1 /\ i \in 1..Len(inbox[c]) /\ i + 1 \in 1..Len(inbox[c])
        BY <1>t, <2>1, <3>2
      <4> QED  BY <1>0, <1>t, <2>1, <4>1 DEF InOrder
    <3> QED  BY <3>1, <3>2
  <2>2. ASSUME c \notin down, hand[c].op = "dispatch"
        PROVE  Follows(hand[c], inbox'[c][1])
    <3>1. CASE inbox[c] = <<>>
      <4>1. hand[c] = Dispatch(k, sent[k])
        BY <1>0, <1>k, <2>2, <3>1 DEF Tip, k
      <4> QED  BY <1>s, <1>v, <2>2, <3>1, <4>1, DispatchFacts DEF Follows
    <3>2. CASE inbox[c] # <<>>
      BY <1>0, <1>v, <2>2, <3>2 DEF InOrder
    <3> QED  BY <3>1, <3>2
  <2>3. \A e \in Conns : \A i \in 1..Len(inbox'[e]) - 1 : Follows(inbox'[e][i], inbox'[e][i + 1])
    BY <1>0, <1>o, <2>1 DEF InOrder
  <2>4. \A e \in Conns : inbox'[e] # <<>> /\ hand[e].op = "dispatch" => Follows(hand[e], inbox'[e][1])
    BY <1>0, <1>o, <2>2 DEF InOrder
  <2> QED  BY <1>u, <2>3, <2>4 DEF InOrder, Follows
<1>16. Tip'
  <2>1. c \notin down => inbox'[c][Len(inbox'[c])] = Dispatch(serves'[c], sent'[serves'[c]])
    BY <1>e, <1>k, <1>t, <1>u DEF k
  <2> QED  BY <1>0, <1>n, <1>o, <1>t, <1>u, <2>1 DEF Tip
<1>q. Quiet
  BY <1>0, <1>u, ProcFacts DEF Quiet, Types, TypeSession, TypeSockets, TypeLabels,
     TypePackets, TypeDiscord, Hands, Dispatches, Goto
<1>17. ~mixed' => Whole'
  <2>0. SUFFICES ASSUME ~mixed PROVE Whole'
    BY <1>u
  <2>1. ASSUME c \notin down, inbox'[c][1].op = "dispatch", hand[c].op # "dispatch"
        PROVE  Covered(inbox'[c][1].session, inbox'[c][1].number - 1)
    <3>1. CASE inbox[c] = <<>>
      <4>1. Covered(k, sent[k])
        BY <1>0, <1>k, <2>0, <2>1, <3>1
           DEF Whole, ToCome, CaughtUp, Held, Stored, Carried, k
      <4>2. inbox'[c][1].session = k /\ inbox'[c][1].number - 1 = sent[k]
        BY <1>k, <1>s, <1>v, <2>1, <3>1
      <4> QED  BY <4>1, <4>2
    <3>2. CASE inbox[c] # <<>>
      BY <1>0, <1>v, <2>0, <2>1, <3>2 DEF Whole, ToCome, CaughtUp, Held, Stored, Carried
    <3> QED  BY <3>1, <3>2
  <2> QED  BY <1>0, <1>n, <1>o, <1>t, <1>u, <1>q, QuietKeeps, <2>0, <2>1
           DEF Whole, ToCome, CaughtUp, Held, Stored, Carried
<1>18. ~mixed' => News'
  <2>0. SUFFICES ASSUME ~mixed PROVE News'
    BY <1>u
  <2>1. ASSUME c \notin down, c = wsConn, inbox'[c][1].op = "dispatch"
        PROVE  NewFrom(inbox'[c][1].session, inbox'[c][1].number)
    <3>1. CASE inbox[c] = <<>>
      <4>1. NewFrom(k, sent[k] + 1)
        BY <1>0, <1>k, DoingSent DEF NewFrom
      <4> QED  BY <1>s, <1>v, <2>1, <3>1, <4>1
    <3>2. CASE inbox[c] # <<>>
      BY <1>0, <1>v, <2>0, <2>1, <3>2, Places
         DEF News, NewToCome, NewInHand, NewAfter, NewCarried
    <3> QED  BY <3>1, <3>2
  <2>2. wsConn # NoConn => wsConn \in Conns
    BY <1>0, Places DEF Types, TypeSockets
  <2> QED  BY <1>0, <1>o, <1>u, <1>q, QuietKeeps, <2>0, <2>1, <2>2
           DEF News, NewToCome, NewInHand, NewAfter, NewCarried
<1> QED
  BY <1>0, <1>u, <1>q, QuietKeeps, <1>1, <1>2, <1>3, <1>4, <1>5, <1>6, <1>7, <1>8, <1>9,
     <1>10, <1>11,
     <1>12, <1>13, <1>14, <1>15, <1>16, <1>17, <1>18
  DEF IInv, Structure, Streams, Unmixed, Types, Websockets, Numbered

LEMMA DismissesKeeps ==
  ASSUME IInv, NEW c \in Conns, Dismisses(c)
  PROVE  IInv'
<1>0. Types /\ Locking /\ Websockets /\ Hands /\ Numbered /\ InOrder /\ Tip
      /\ (~mixed => Whole /\ Twice /\ News)
  BY DEF IInv, Structure, Streams, Unmixed
<1>u. UNCHANGED <<lock, wsConn, stopped, sequence, sessionID, origin,
                    loaded, loadedFrom, mixed, pc, hand, down, sent,
                    dialled, handled, late>>
  BY DEF Dismisses, values, opening
<1>d. PICK d \in Packets :
        /\ d.op # "dispatch" /\ inbox' = IF c \in down THEN inbox ELSE [inbox EXCEPT ![c] = Append(@, d)]
        /\ alive' \subseteq alive
  BY OtherFacts DEF Dismisses, Send, Invalid
<1>s. serves' = [serves EXCEPT ![c] = NoSession] /\ serves[c] \in alive
  BY DEF Dismisses
<1>t. c \notin down =>
        /\ inbox'[c] \in Seq(Packets) /\ Len(inbox[c]) \in Nat
        /\ Len(inbox'[c]) = Len(inbox[c]) + 1 /\ inbox'[c] # <<>>
        /\ inbox[c] = <<>> <=> Len(inbox[c]) = 0
        /\ inbox'[c][Len(inbox[c]) + 1] = d
        /\ \A i \in 1..Len(inbox[c]) : inbox'[c][i] = inbox[c][i]
  BY <1>0, <1>d, AppendFacts
<1>o. \A e \in Conns : e # c \/ c \in down => inbox'[e] = inbox[e]
  BY <1>0, <1>d DEF Types, TypePackets
<1>v. c \notin down => inbox'[c][1] = IF inbox[c] = <<>> THEN d ELSE inbox[c][1]
  BY <1>t
<1>w. serves'[c] = NoSession /\ \A e \in Conns : e # c => serves'[e] = serves[e]
  BY <1>0, <1>s DEF Types, TypeDiscord
<1>1. TypeSession'
  BY <1>0, <1>u DEF Types, TypeSession
<1>2. TypeSockets'
  BY <1>0, <1>u DEF Types, TypeSockets
<1>3. TypeLabels'
  BY <1>0, <1>u DEF Types, TypeLabels
<1>4. TypePackets'
  BY <1>0, <1>d, <1>t, <1>u DEF Types, TypePackets
<1>5. TypeDiscord'
  BY <1>0, <1>d, <1>s, <1>u DEF Types, TypeDiscord
<1>6. Locking'
  BY <1>0, <1>u DEF Locking
<1>7. Fresh'
  <2>1. c <= dialled
    <3>1. serves[c] # NoSession
      BY <1>0, <1>s, Places DEF Types, TypeDiscord
    <3> QED  BY <1>0, <3>1, Places DEF Websockets, Fresh, Types, TypeSockets
  <2>2. \A e \in Conns : e > dialled => e # c
    BY <1>0, <2>1, Places DEF Types, TypeSockets
  <2> QED  BY <1>0, <1>o, <1>u, <1>w, <2>2 DEF Websockets, Fresh, Unstarted
<1>8. OldDown'
  BY <1>0, <1>u DEF Websockets, OldDown
<1>9. BeforeFirst'
  BY <1>0, <1>u, <1>w, Places DEF Websockets, BeforeFirst, Unstarted, Types, TypeSockets
<1>10. LoadedInOpen'
  BY <1>0, <1>u DEF Websockets, LoadedInOpen
<1>11. Hands'
  BY <1>0, <1>u DEF Hands
<1>12. KnownPackets'
  <2>1. \A e \in Conns : \A i \in 1..Len(inbox'[e]) :
          \/ \E j \in 1..Len(inbox[e]) : inbox'[e][i] = inbox[e][j]
          \/ Known(inbox'[e][i], sent')
    <3>1. \A i \in 1..Len(inbox'[c]) : c \in down \/ i \in 1..Len(inbox[c]) \/ inbox'[c][i] = d
      BY <1>t
    <3> QED  BY <1>d, <1>o, <1>t, <3>1 DEF Known
  <2>2. \A j \in Sessions : sent[j] <= sent'[j]
    BY <1>0, <1>u, Places DEF Types, TypeDiscord
  <2> QED  BY <1>0, <1>u, <1>5, <2>1, <2>2, KnownKept DEF Numbered
<1>13. KnownHandled'
  BY <1>0, <1>u DEF Numbered, KnownHandled
<1>14. Served'
  BY <1>0, <1>d, <1>u, <1>w DEF Numbered, Served
<1>15. InOrder'
  <2>1. ASSUME c \notin down, NEW i \in 1..Len(inbox'[c]) - 1
        PROVE  Follows(inbox'[c][i], inbox'[c][i + 1])
    <3>1. CASE i = Len(inbox[c])
      BY <1>d, <1>t, <2>1, <3>1 DEF Follows
    <3>2. CASE i # Len(inbox[c])
      <4>1. i \in 1..Len(inbox[c]) - 1 /\ i \in 1..Len(inbox[c]) /\ i + 1 \in 1..Len(inbox[c])
        BY <1>t, <2>1, <3>2
      <4> QED  BY <1>0, <1>t, <2>1, <4>1 DEF InOrder
    <3> QED  BY <3>1, <3>2
  <2>2. ASSUME c \notin down, hand[c].op = "dispatch"
        PROVE  Follows(hand[c], inbox'[c][1])
    BY <1>0, <1>d, <1>v, <2>2 DEF InOrder, Follows
  <2>3. \A e \in Conns : \A i \in 1..Len(inbox'[e]) - 1 : Follows(inbox'[e][i], inbox'[e][i + 1])
    BY <1>0, <1>o, <2>1 DEF InOrder
  <2>4. \A e \in Conns : inbox'[e] # <<>> /\ hand[e].op = "dispatch" => Follows(hand[e], inbox'[e][1])
    BY <1>0, <1>o, <2>2 DEF InOrder
  <2> QED  BY <1>u, <2>3, <2>4 DEF InOrder, Follows
<1>16. Tip'
  BY <1>0, <1>o, <1>u, <1>w DEF Tip
<1>q. Quiet
  BY <1>0, <1>u, ProcFacts DEF Quiet, Types, TypeSession, TypeSockets, TypeLabels,
     TypePackets, TypeDiscord, Hands, Dismisses, Goto
<1>17. ~mixed' => Whole'
  <2>1. c \notin down /\ inbox'[c][1].op = "dispatch" => inbox[c] # <<>> /\ inbox'[c][1] = inbox[c][1]
    BY <1>d, <1>v
  <2> QED  BY <1>0, <1>o, <1>u, <1>w, <1>q, QuietKeeps, <2>1
           DEF Whole, ToCome, CaughtUp, Held, Stored, Carried
<1>18. ~mixed' => News'
  <2>1. c \notin down /\ inbox'[c][1].op = "dispatch" => inbox[c] # <<>> /\ inbox'[c][1] = inbox[c][1]
    BY <1>d, <1>v
  <2>2. wsConn # NoConn => wsConn \in Conns
    BY <1>0, Places DEF Types, TypeSockets
  <2> QED  BY <1>0, <1>o, <1>u, <1>q, QuietKeeps, <2>1, <2>2
           DEF News, NewToCome, NewInHand, NewAfter, NewCarried
<1> QED
  BY <1>0, <1>u, <1>q, QuietKeeps, <1>1, <1>2, <1>3, <1>4, <1>5, <1>6, <1>7, <1>8, <1>9,
     <1>10, <1>11,
     <1>12, <1>13, <1>14, <1>15, <1>16, <1>17, <1>18
  DEF IInv, Structure, Streams, Unmixed, Types, Websockets, Numbered

LEMMA FirstPacketKeeps ==
  ASSUME IInv, NEW p \in Procs, FirstPacket(p)
  PROVE  IInv'
<1>0. Types /\ Locking /\ Websockets /\ Hands /\ Numbered /\ InOrder /\ Tip
      /\ (~mixed => Whole /\ Twice /\ News)
  BY DEF IInv, Structure, Streams, Unmixed
<1>u. UNCHANGED <<wsConn, stopped, loaded, loadedFrom, mixed, hand, down,
                    serves, alive, sent, dialled, late>>
  BY DEF FirstPacket, opening, discord
<1>a. /\ wsConn \in Conns /\ Unstarted(wsConn) /\ wsConn \notin down /\ wsConn # NoConn
      /\ hand[wsConn].op # "dispatch" /\ pc[p] = "first" /\ inbox[wsConn] # <<>>
  BY <1>0, NothingFacts, Places
     DEF Websockets, BeforeFirst, Unstarted, Types, TypeSockets, FirstPacket
<1>d. DEFINE d == inbox[wsConn][1]
<1>e. d.op = "dispatch" /\ inbox' = [inbox EXCEPT ![wsConn] = Tail(@)]
  BY DEF FirstPacket
<1>t. /\ d \in Packets /\ Len(inbox[wsConn]) \in Nat \ {0} /\ inbox'[wsConn] \in Seq(Packets)
      /\ Len(inbox'[wsConn]) = Len(inbox[wsConn]) - 1
      /\ \A i \in 1..Len(inbox'[wsConn]) :
           inbox'[wsConn][i] = inbox[wsConn][i + 1] /\ i + 1 \in 1..Len(inbox[wsConn])
      /\ inbox'[wsConn] = <<>> <=> Len(inbox[wsConn]) = 1
      /\ \A e \in Conns : e # wsConn => inbox'[e] = inbox[e]
  BY <1>0, <1>a, <1>e, TailFacts
<1>k. PICK k \in Sessions, n \in 1..MaxSequence :
        /\ d = Dispatch(k, n) /\ d.session = k /\ d.number = n
        /\ k \in Sessions /\ n \in 1..MaxSequence /\ n \in Nat /\ n - 1 \in 0..MaxSequence
  <2>1. d.session \in Sessions /\ d.number \in 1..MaxSequence /\ d = Dispatch(d.session, d.number)
    BY <1>e, <1>t, PacketFacts
  <2> QED  BY <2>1, Places
<1>x. /\ sequence' = n /\ origin' = k /\ sessionID' \in {k, sessionID}
      /\ handled' = [handled EXCEPT ![k][n] = @ + 1]
      /\ lock' = Nobody
      /\ pc' = [pc EXCEPT ![p] = "off", ![listen(wsConn)] = "read", ![heartbeat(wsConn)] = "beat"]
  BY <1>k DEF FirstPacket
<1>g. HIDE DEF d
<1>b. /\ p # listen(wsConn) /\ p # heartbeat(wsConn)
      /\ pc'[p] = "off" /\ pc'[listen(wsConn)] = "read" /\ pc'[heartbeat(wsConn)] = "beat"
      /\ \A q \in Procs : q \notin {p, listen(wsConn), heartbeat(wsConn)} => pc'[q] = pc[q]
      /\ pc[listen(wsConn)] = "off" /\ pc[heartbeat(wsConn)] = "off"
  BY <1>0, <1>a, <1>x, ProcFacts DEF Unstarted, Types, TypeLabels
<1>c. \A c \in Conns : /\ c # wsConn => listen(c) # listen(wsConn) /\ heartbeat(c) # heartbeat(wsConn)
                       /\ listen(c) \in Procs /\ heartbeat(c) \in Procs
                       /\ listen(c) # heartbeat(wsConn) /\ heartbeat(c) # listen(wsConn)
  BY <1>a, ProcFacts
<1>f. \A q \in Procs : q # p => pc[q] \notin Opening
  BY <1>0, <1>a DEF Locking, Opening
<1>h. /\ handled'[k][n] = handled[k][n] + 1 /\ handled[k][n] \in Nat
      /\ \A j \in Sessions, i \in 1..MaxSequence : j # k \/ i # n => handled'[j][i] = handled[j][i]
      /\ handled' \in [Sessions -> [1..MaxSequence -> Nat]]
  BY <1>0, <1>k, <1>x, Places DEF Types, TypeDiscord
<1>i. \A j, i : InHand(j, i)' <=> InHand(j, i)
  <2>1. \A c \in Conns : pc'[listen(c)] = "handle" <=> pc[listen(c)] = "handle"
    BY <1>a, <1>b, <1>c
  <2> QED  BY <1>u, <2>1 DEF InHand
<1>j. \A j \in Sessions : \A i \in 1..MaxSequence : Doing(j, i)' <=> Doing(j, i) \/ (j = k /\ i = n)
  BY <1>h, <1>i DEF Doing
<1>l. \A j, i : Late(j, i)' <=> Late(j, i)
  BY <1>u DEF Late
<1>m. ~mixed' => ~mixed
  BY <1>u
<1>n. /\ \A j \in Sessions : \A i \in 0..MaxSequence : Covered(j, i) => Covered(j, i)'
      /\ Covered(k, n - 1) => Covered(k, n)'
      /\ NewFrom(k, n) => NewFrom(k, n + 1)'
  BY <1>j, <1>k, <1>l, DoingGrows
<1>o. inbox'[wsConn] # <<>> /\ inbox'[wsConn][1].op = "dispatch"
        => inbox'[wsConn][1].session = k /\ inbox'[wsConn][1].number = n + 1
  <2>1. inbox'[wsConn] # <<>> => inbox'[wsConn][1] = inbox[wsConn][2] /\ 1 \in 1..Len(inbox[wsConn]) - 1
    BY <1>t
  <2>2. inbox'[wsConn] # <<>> => Follows(inbox[wsConn][1], inbox[wsConn][2])
    BY <1>0, <1>a, <2>1 DEF InOrder
  <2> QED  BY <1>k, <2>1, <2>2 DEF Follows, d
<1>1. TypeSession'
  BY <1>0, <1>k, <1>u, <1>x, Places DEF Types, TypeSession
<1>2. TypeSockets'
  BY <1>0, <1>u DEF Types, TypeSockets
<1>3. TypeLabels'
  BY <1>0, <1>x DEF Types, TypeLabels, Labels
<1>4. TypePackets'
  BY <1>0, <1>a, <1>e, <1>t, <1>u DEF Types, TypePackets
<1>5. TypeDiscord'
  BY <1>0, <1>h, <1>u DEF Types, TypeDiscord
<1>6. Locking'
  <2>1. \A q \in Procs : pc'[q] \notin Opening
    BY <1>b, <1>f DEF Opening
  <2> QED  BY <1>x, <2>1, ProcFacts DEF Locking
<1>7. Fresh'
  <2>1. \A c \in Conns : c > dialled => c # wsConn
    BY <1>0, Places DEF Types, TypeSockets
  <2> QED  BY <1>0, <1>a, <1>b, <1>c, <1>t, <1>u, <2>1 DEF Websockets, Fresh, Unstarted
<1>8. OldDown'
  BY <1>0, <1>u DEF Websockets, OldDown
<1>9. BeforeFirst'
  <2>1. \A q \in Procs : pc'[q] \notin Opening
    BY <1>b, <1>f DEF Opening
  <2> QED  BY <2>1 DEF BeforeFirst, Opening
<1>10. LoadedInOpen'
  <2>1. loadedFrom = NoSession
    BY <1>0, <1>a DEF Websockets, LoadedInOpen, Locking, Opening
  <2> QED  BY <1>u, <2>1 DEF LoadedInOpen
<1>11. Hands'
  BY <1>0, <1>a, <1>b, <1>c, <1>u DEF Hands, Unstarted
<1>12. KnownPackets'
  <2>1. \A c \in Conns : \A i \in 1..Len(inbox'[c]) : \E j \in 1..Len(inbox[c]) : inbox'[c][i] = inbox[c][j]
    BY <1>t
  <2>2. \A c \in Conns : \A i \in 1..Len(inbox'[c]) : Known(inbox'[c][i], sent)
    BY <1>0, <2>1 DEF Numbered, KnownPackets
  <2> QED  BY <1>0, <1>u, <2>2 DEF Numbered, KnownPackets
<1>13. KnownHandled'
  <2>1. Known(d, sent)
    BY <1>0, <1>a, <1>t DEF Numbered, KnownPackets, d
  <2>2. n <= sent[k]
    BY <1>e, <1>k, <2>1 DEF Known
  <2> QED  BY <1>0, <1>h, <1>u, <2>2 DEF Numbered, KnownHandled
<1>14. Served'
  BY <1>0, <1>u DEF Numbered, Served
<1>15. InOrder'
  <2>1. \A i \in 1..Len(inbox'[wsConn]) - 1 : Follows(inbox'[wsConn][i], inbox'[wsConn][i + 1])
    <3>1. \A i \in 1..Len(inbox'[wsConn]) - 1 :
            /\ i + 1 \in 1..Len(inbox[wsConn]) - 1
            /\ inbox'[wsConn][i] = inbox[wsConn][i + 1] /\ inbox'[wsConn][i + 1] = inbox[wsConn][(i + 1) + 1]
      <4>1. Len(inbox'[wsConn]) \in Nat /\ Len(inbox[wsConn]) = Len(inbox'[wsConn]) + 1
        BY <1>t
      <4>2. \A i \in 1..Len(inbox'[wsConn]) - 1 :
              i \in 1..Len(inbox'[wsConn]) /\ i + 1 \in 1..Len(inbox'[wsConn]) /\ i + 1 \in 1..Len(inbox[wsConn]) - 1
        BY <4>1
      <4> QED  BY <1>t, <4>2
    <3> QED  BY <1>0, <1>a, <3>1 DEF InOrder
  <2>2. \A c \in Conns : \A i \in 1..Len(inbox'[c]) - 1 : Follows(inbox'[c][i], inbox'[c][i + 1])
    BY <1>0, <1>t, <2>1 DEF InOrder
  <2>3. \A c \in Conns : inbox'[c] # <<>> /\ hand[c].op = "dispatch" => Follows(hand[c], inbox'[c][1])
    BY <1>0, <1>a, <1>t DEF InOrder
  <2> QED  BY <1>u, <2>2, <2>3 DEF InOrder, Follows
<1>16. Tip'
  <2>1. serves[wsConn] # NoSession /\ inbox'[wsConn] # <<>>
          => inbox'[wsConn][Len(inbox'[wsConn])] = Dispatch(serves[wsConn], sent[serves[wsConn]])
    <3>1. inbox'[wsConn] # <<>> => /\ Len(inbox'[wsConn]) \in 1..Len(inbox'[wsConn])
                                   /\ Len(inbox'[wsConn]) + 1 = Len(inbox[wsConn])
      BY <1>t
    <3> QED  BY <1>0, <1>a, <1>t, <3>1 DEF Tip
  <2> QED  BY <1>0, <1>a, <1>t, <1>u, <2>1 DEF Tip
<1>17. ~mixed' => Whole'
  <2>0. SUFFICES ASSUME ~mixed PROVE Whole'
    BY <1>u
  <2>1. Covered(k, n)'
    <3>1. Covered(k, n - 1)
      BY <1>0, <1>a, <1>e, <1>k, <2>0 DEF Whole, ToCome, d
    <3> QED  BY <1>n, <3>1
  <2>2. Held'
    <3>1. \A c \in Conns : hand[c].op = "dispatch" => hand[c].number - 1 \in 0..MaxSequence
      BY <1>0, Ranges, Places
    <3> QED  BY <1>0, <1>n, <1>u, <2>0, <3>1, Ranges DEF Whole, Held
  <2>3. \A c \in Conns \ down : c # wsConn => inbox[c] = <<>> /\ serves[c] = NoSession
    BY <1>0, Places DEF Websockets, OldDown, Fresh, Types, TypeSockets
  <2>4. ToCome'
    <3>1. (n + 1) - 1 = n
      BY <1>k
    <3> QED  BY <1>o, <1>t, <1>u, <2>1, <2>3, <3>1 DEF ToCome
  <2>5. CaughtUp'
    <3>1. inbox'[wsConn] = <<>> => d = inbox[wsConn][Len(inbox[wsConn])]
      BY <1>t DEF d
    <3>2. serves[wsConn] # NoSession /\ inbox'[wsConn] = <<>> => serves[wsConn] = k /\ sent[serves[wsConn]] = n
      BY <1>0, <1>a, <1>k, <3>1, DispatchFacts DEF Tip
    <3> QED  BY <1>t, <1>u, <2>1, <2>3, <3>2 DEF CaughtUp
  <2>6. Stored'
    BY <1>x, <2>1 DEF Stored
  <2>7. Carried'
    <3>1. loadedFrom = NoSession
      BY <1>0, <1>a DEF Websockets, LoadedInOpen, Locking, Opening
    <3> QED  BY <1>u, <3>1 DEF Carried
  <2> QED  BY <2>2, <2>4, <2>5, <2>6, <2>7 DEF Whole
<1>18. ~mixed' => News'
  <2>0. SUFFICES ASSUME ~mixed PROVE News'
    BY <1>u
  <2>1. NewFrom(k, n + 1)'
    <3>1. NewFrom(k, n)
      BY <1>0, <1>a, <1>e, <1>k, <2>0 DEF News, NewToCome, d
    <3> QED  BY <1>n, <3>1
  <2>2. NewToCome'
    BY <1>o, <1>u, <2>1 DEF NewToCome
  <2>3. NewInHand'
    BY <1>b, <1>u DEF NewInHand
  <2>4. NewAfter'
    BY <1>x, <2>1 DEF NewAfter
  <2>5. NewCarried'
    <3>1. loadedFrom = NoSession
      BY <1>0, <1>a DEF Websockets, LoadedInOpen, Locking, Opening
    <3> QED  BY <1>u, <3>1 DEF NewCarried
  <2> QED  BY <2>2, <2>3, <2>4, <2>5 DEF News
<1>w. ~mixed' => Twice'
  <2>0. SUFFICES ASSUME ~mixed PROVE Twice'
    BY <1>u
  <2>1. Doing(k, n) => Late(k, n)
    <3>1. NewFrom(k, n)
      BY <1>0, <1>a, <1>e, <1>k, <2>0 DEF News, NewToCome, d
    <3> QED  BY <1>k, <3>1, Places DEF NewFrom
  <2>2. \A j \in Sessions : \A i \in 1..MaxSequence :
          /\ handled'[j][i] > 1 => Late(j, i)
          /\ handled'[j][i] > 0 /\ InHand(j, i) => Late(j, i)
    BY <1>0, <1>h, <2>0, <2>1 DEF Twice, Doing
  <2>3. \A c \in Conns : pc'[listen(c)] = "handle" => pc[listen(c)] = "handle"
    BY <1>a, <1>b, <1>c
  <2> QED  BY <1>0, <1>i, <1>l, <1>u, <2>0, <2>2, <2>3 DEF Twice
<1> QED
  BY <1>0, <1>u, <1>1, <1>2, <1>3, <1>4, <1>5, <1>6, <1>7, <1>8, <1>9, <1>10, <1>11,
     <1>12, <1>13, <1>14, <1>15, <1>16, <1>17, <1>18, <1>w
  DEF IInv, Structure, Streams, Unmixed, Types, Websockets, Numbered

LEMMA StoreKeeps ==
  ASSUME IInv, NEW c \in Conns, Store(c)
  PROVE  IInv'
<1>0. Types /\ Locking /\ Websockets /\ Hands /\ Numbered /\ InOrder /\ Tip
      /\ (~mixed => Whole /\ Twice /\ News)
  BY DEF IInv, Structure, Streams, Unmixed
<1>u. UNCHANGED <<lock, wsConn, stopped, sessionID, loaded, loadedFrom,
                    mixed, hand, inbox, down, serves, alive, sent, dialled,
                    handled>>
  BY DEF Store, Goto, opening, discord
<1>k. PICK k \in Sessions, n \in 1..MaxSequence :
        /\ hand[c] = Dispatch(k, n) /\ hand[c].op = "dispatch" /\ hand[c].session = k /\ hand[c].number = n
        /\ k \in Sessions /\ n \in 1..MaxSequence /\ n \in Nat /\ n - 1 \in 0..MaxSequence
  <2>1. hand[c] \in Packets /\ hand[c].op = "dispatch"
    BY <1>0 DEF Store, Hands, Types, TypePackets
  <2>2. /\ hand[c].session \in Sessions /\ hand[c].number \in 1..MaxSequence
        /\ hand[c] = Dispatch(hand[c].session, hand[c].number)
    BY <2>1, PacketFacts
  <2> QED  BY <2>1, <2>2, Places
<1>x. /\ sequence' = n /\ origin' = k /\ pc' = [pc EXCEPT ![listen(c)] = "handle"]
      /\ late' = IF wsConn = c THEN late ELSE late \cup {hand[c]}
      /\ pc[listen(c)] = "store"
  BY <1>k DEF Store, Goto
<1>b. /\ pc'[listen(c)] = "handle" /\ \A q \in Procs : q # listen(c) => pc'[q] = pc[q]
      /\ \A e \in Conns : e # c => listen(e) # listen(c) /\ pc'[listen(e)] = pc[listen(e)]
  BY <1>0, <1>x, ProcFacts DEF Types, TypeLabels
<1>i. \A j, i : InHand(j, i)' <=> InHand(j, i) \/ (j = k /\ i = n)
  <2>1. Dispatch(k, n) = hand[c] /\ \A j, i : hand[c] = Dispatch(j, i) => j = k /\ i = n
    BY <1>k, DispatchFacts
  <2> QED  BY <1>b, <1>u, <1>x, <2>1 DEF InHand
<1>j. \A j \in Sessions : \A i \in 1..MaxSequence : Doing(j, i)' <=> Doing(j, i) \/ (j = k /\ i = n)
  BY <1>i, <1>u DEF Doing
<1>l. /\ \A j \in Sessions : \A i \in 1..MaxSequence : Late(j, i) => Late(j, i)'
      /\ wsConn # c => Late(k, n)'
  BY <1>k, <1>x, Places DEF Late
<1>n. /\ \A j \in Sessions : \A i \in 0..MaxSequence : Covered(j, i) => Covered(j, i)'
      /\ Covered(k, n - 1) => Covered(k, n)'
      /\ NewFrom(k, n) => NewFrom(k, n + 1)'
      /\ Late(k, n)' => NewFrom(k, n + 1)'
      /\ Late(k, n)' => \A j \in Sessions : \A i \in Nat : i > 0 /\ NewFrom(j, i) => NewFrom(j, i)'
  BY <1>j, <1>k, <1>l, DoingGrows
<1>c. c \in 1..dialled /\ c # NoConn
  BY <1>0, <1>x, Places DEF Websockets, Fresh, Unstarted, Types, TypeSockets
<1>e. loadedFrom # NoSession => wsConn # c
  BY <1>0, <1>c, <1>x
     DEF Websockets, LoadedInOpen, BeforeFirst, Unstarted, Types, TypeSession
<1>m. ~mixed' => ~mixed
  BY <1>u
<1>p. ~mixed /\ wsConn = c => NewFrom(k, n)
  BY <1>0, <1>c, <1>k, <1>x DEF News, NewInHand
<1>1. TypeSession'
  BY <1>0, <1>k, <1>u, <1>x, Places DEF Types, TypeSession
<1>2. TypeSockets'
  BY <1>0, <1>u DEF Types, TypeSockets
<1>3. TypeLabels'
  BY <1>0, <1>u, ProcFacts, DispatchFacts, NothingFacts, Places
  DEF Types, TypeSession, TypeSockets, TypeLabels, TypePackets,
      TypeDiscord, Websockets, Fresh, OldDown, BeforeFirst, LoadedInOpen,
      Unstarted, Hands, Labels, Store, Goto, opening, discord
<1>4. TypePackets'
  BY <1>0, <1>u DEF Types, TypePackets
<1>5. TypeDiscord'
  BY <1>0, <1>u DEF Types, TypeDiscord
<1>6. Locking'
  BY <1>0, <1>b, <1>u, <1>x DEF Locking, Opening
<1>7. Fresh'
  BY <1>0, <1>u, ProcFacts, DispatchFacts, NothingFacts, Places
  DEF Types, TypeSession, TypeSockets, TypeLabels, TypePackets,
      TypeDiscord, Websockets, Fresh, OldDown, BeforeFirst, LoadedInOpen,
      Unstarted, Hands, Store, Goto, opening, discord
<1>8. OldDown'
  BY <1>0, <1>u DEF Websockets, OldDown
<1>9. BeforeFirst'
  BY <1>0, <1>u, ProcFacts, DispatchFacts, NothingFacts, Places
  DEF Types, TypeSession, TypeSockets, TypeLabels, TypePackets,
      TypeDiscord, Websockets, Fresh, OldDown, BeforeFirst, LoadedInOpen,
      Unstarted, Hands, Locking, Opening, Store, Goto, opening, discord
<1>10. LoadedInOpen'
  BY <1>0, <1>u, ProcFacts, DispatchFacts, NothingFacts, Places
  DEF Types, TypeSession, TypeSockets, TypeLabels, TypePackets,
      TypeDiscord, Websockets, Fresh, OldDown, BeforeFirst, LoadedInOpen,
      Unstarted, Hands, Locking, Opening, Store, Goto, opening, discord
<1>11. Hands'
  BY <1>0, <1>u, ProcFacts, DispatchFacts, NothingFacts, Places
  DEF Types, TypeSession, TypeSockets, TypeLabels, TypePackets,
      TypeDiscord, Websockets, Fresh, OldDown, BeforeFirst, LoadedInOpen,
      Unstarted, Hands, Store, Goto, opening, discord
<1>12. KnownPackets'
  BY <1>0, <1>u DEF Numbered, KnownPackets, Known
<1>13. KnownHandled'
  BY <1>0, <1>u DEF Numbered, KnownHandled
<1>14. Served'
  BY <1>0, <1>u DEF Numbered, Served
<1>15. InOrder'
  BY <1>0, <1>u DEF InOrder, Follows
<1>16. Tip'
  BY <1>0, <1>u DEF Tip
<1>17. ~mixed' => Whole'
  <2>0. SUFFICES ASSUME ~mixed PROVE Whole'
    BY <1>u
  <2>1. Covered(k, n)'
    BY <1>0, <1>k, <1>n, <2>0 DEF Whole, Held
  <2>2. Held'
    <3>1. \A e \in Conns : hand[e].op = "dispatch" => hand[e].number - 1 \in 0..MaxSequence
      BY <1>0, Ranges, Places
    <3> QED  BY <1>0, <1>n, <1>u, <2>0, <3>1, Ranges DEF Whole, Held
  <2>3. ToCome'
    <3>1. \A e \in Conns : inbox[e] # <<>> /\ inbox[e][1].op = "dispatch" => inbox[e][1].number - 1 \in 0..MaxSequence
      BY <1>0, Ranges, Places
    <3> QED  BY <1>0, <1>n, <1>u, <2>0, <3>1, Ranges DEF Whole, ToCome
  <2>4. CaughtUp'
    BY <1>0, <1>n, <1>u, <2>0, Ranges DEF Whole, CaughtUp
  <2>5. Stored'
    BY <1>x, <2>1 DEF Stored
  <2>6. Carried'
    BY <1>0, <1>n, <1>u, <2>0, Ranges DEF Whole, Carried
  <2> QED  BY <2>2, <2>3, <2>4, <2>5, <2>6 DEF Whole
<1>18. ~mixed' => News'
  <2>0. SUFFICES ASSUME ~mixed PROVE News'
    BY <1>u
  <2>1. NewFrom(k, n + 1)'
    BY <1>l, <1>n, <1>p, <2>0
  <2>2. NewAfter'
    BY <1>x, <2>1 DEF NewAfter
  <2>3. CASE wsConn = c
    <3>1. NewToCome'
      <4>1. inbox[c] # <<>> /\ inbox[c][1].op = "dispatch" => inbox[c][1].session = k /\ inbox[c][1].number = n + 1
        BY <1>0, <1>k DEF InOrder, Follows
      <4> QED  BY <1>u, <2>1, <2>3, <4>1 DEF NewToCome
    <3>2. NewInHand'
      BY <1>b, <1>u, <2>3 DEF NewInHand
    <3>3. NewCarried'
      BY <1>e, <1>u, <2>3 DEF NewCarried
    <3> QED  BY <2>2, <3>1, <3>2, <3>3 DEF News
  <2>4. CASE wsConn # c
    <3>0. \A j \in Sessions : \A i \in Nat : i > 0 /\ NewFrom(j, i) => NewFrom(j, i)'
      BY <1>l, <1>n, <2>4
    <3>1. NewToCome'
      <4>1. wsConn # NoConn /\ inbox[wsConn] # <<>> /\ inbox[wsConn][1].op = "dispatch"
              => inbox[wsConn][1].session \in Sessions /\ inbox[wsConn][1].number \in Nat /\ inbox[wsConn][1].number > 0
        BY <1>0, Ranges, Places
      <4> QED  BY <1>0, <1>u, <2>0, <3>0, <4>1 DEF News, NewToCome
    <3>2. NewInHand'
      <4>1. wsConn # NoConn /\ hand[wsConn].op = "dispatch"
              => hand[wsConn].session \in Sessions /\ hand[wsConn].number \in Nat /\ hand[wsConn].number > 0
        BY <1>0, Ranges, Places
      <4>2. wsConn # NoConn => pc'[listen(wsConn)] = pc[listen(wsConn)]
        BY <1>0, <1>b, <2>4, Ranges
      <4> QED  BY <1>0, <1>u, <2>0, <3>0, <4>1, <4>2 DEF News, NewInHand
    <3>3. NewCarried'
      <4>1. loadedFrom # NoSession => loadedFrom \in Sessions /\ loaded + 1 \in Nat /\ loaded + 1 > 0
        BY <1>0, Ranges, Places
      <4> QED  BY <1>0, <1>u, <2>0, <3>0, <4>1 DEF News, NewCarried
    <3> QED  BY <2>2, <3>1, <3>2, <3>3 DEF News
  <2> QED  BY <2>3, <2>4
<1>w. ~mixed' => Twice'
  <2>0. SUFFICES ASSUME ~mixed PROVE Twice'
    BY <1>u
  <2>1. Doing(k, n) => Late(k, n)'
    <3>1. NewFrom(k, n) /\ Doing(k, n) => Late(k, n)
      BY <1>k, Places DEF NewFrom
    <3> QED  BY <1>k, <1>l, <1>p, <2>0, <3>1
  <2>2. \A j \in Sessions : \A i \in 1..MaxSequence :
          /\ handled[j][i] > 1 => Late(j, i)'
          /\ handled[j][i] > 0 /\ InHand(j, i)' => Late(j, i)'
    BY <1>0, <1>i, <1>l, <2>0, <2>1 DEF Twice, Doing
  <2>3. ASSUME NEW j \in Sessions, NEW i \in 1..MaxSequence, NEW e \in Conns, NEW f \in Conns, e # f,
               pc'[listen(e)] = "handle", pc'[listen(f)] = "handle",
               hand[e] = Dispatch(j, i), hand[f] = Dispatch(j, i)
        PROVE  Late(j, i)'
    <3>1. CASE e # c /\ f # c
      BY <1>0, <1>b, <1>l, <2>0, <2>3, <3>1 DEF Twice
    <3>2. CASE e = c \/ f = c
      <4>1. j = k /\ i = n
        BY <1>k, <2>3, <3>2, DispatchFacts
      <4>2. InHand(k, n)
        BY <1>b, <2>3, <3>2, <4>1 DEF InHand
      <4> QED  BY <2>1, <4>1, <4>2 DEF Doing
    <3> QED  BY <3>1, <3>2
  <2> QED  BY <1>u, <2>2, <2>3 DEF Twice
<1> QED
  BY <1>0, <1>u, <1>1, <1>2, <1>3, <1>4, <1>5, <1>6, <1>7, <1>8, <1>9, <1>10, <1>11,
     <1>12, <1>13, <1>14, <1>15, <1>16, <1>17, <1>18, <1>w
  DEF IInv, Structure, Streams, Unmixed, Types, Websockets, Numbered

LEMMA HandleKeeps ==
  ASSUME IInv, NEW c \in Conns, Handle(c)
  PROVE  IInv'
<1>0. Types /\ Locking /\ Websockets /\ Hands /\ Numbered /\ InOrder /\ Tip
      /\ (~mixed => Whole /\ Twice /\ News)
  BY DEF IInv, Structure, Streams, Unmixed
<1>u. UNCHANGED <<lock, wsConn, stopped, sequence, origin, loaded,
                    loadedFrom, mixed, inbox, down, serves, alive, sent,
                    dialled, late>>
  BY DEF Handle, Goto, opening, discord
<1>k. PICK k \in Sessions, n \in 1..MaxSequence :
        /\ hand[c] = Dispatch(k, n) /\ hand[c].op = "dispatch" /\ hand[c].session = k /\ hand[c].number = n
        /\ k \in Sessions /\ n \in 1..MaxSequence /\ n \in Nat /\ n - 1 \in 0..MaxSequence
  <2>1. hand[c] \in Packets /\ hand[c].op = "dispatch"
    BY <1>0 DEF Handle, Hands, Types, TypePackets
  <2>2. /\ hand[c].session \in Sessions /\ hand[c].number \in 1..MaxSequence
        /\ hand[c] = Dispatch(hand[c].session, hand[c].number)
    BY <2>1, PacketFacts
  <2> QED  BY <2>1, <2>2, Places
<1>x. /\ handled' = [handled EXCEPT ![k][n] = @ + 1] /\ sessionID' \in {k, sessionID}
      /\ hand' = [hand EXCEPT ![c] = Nothing] /\ pc' = [pc EXCEPT ![listen(c)] = "read"]
      /\ pc[listen(c)] = "handle"
  BY <1>k DEF Handle, Goto
<1>b. /\ pc'[listen(c)] = "read" /\ \A q \in Procs : q # listen(c) => pc'[q] = pc[q]
      /\ \A e \in Conns : e # c => /\ listen(e) # listen(c) /\ pc'[listen(e)] = pc[listen(e)]
                                   /\ hand'[e] = hand[e]
      /\ hand'[c] = Nothing /\ hand'[c].op # "dispatch"
  BY <1>0, <1>x, ProcFacts, NothingFacts DEF Types, TypeLabels, TypePackets
<1>h. /\ handled'[k][n] = handled[k][n] + 1 /\ handled[k][n] \in Nat
      /\ \A j \in Sessions, i \in 1..MaxSequence : j # k \/ i # n => handled'[j][i] = handled[j][i]
      /\ handled' \in [Sessions -> [1..MaxSequence -> Nat]]
  BY SMTT(20), <1>0, <1>k, <1>x, Places DEF Types, TypeDiscord
<1>i. /\ \A j, i : InHand(j, i)' => InHand(j, i)
      /\ \A j, i : InHand(j, i) /\ ~(j = k /\ i = n) => InHand(j, i)'
      /\ InHand(k, n)
  <2>1. Dispatch(k, n) = hand[c] /\ \A j, i : hand[c] = Dispatch(j, i) => j = k /\ i = n
    BY <1>k, DispatchFacts
  <2> QED  BY <1>b, <1>u, <1>x, <2>1 DEF InHand
<1>j. \A j \in Sessions : \A i \in 1..MaxSequence : Doing(j, i)' <=> Doing(j, i)
  <2>1. Doing(k, n) /\ Doing(k, n)'
    BY <1>h, <1>i DEF Doing
  <2> QED  BY <1>h, <1>i, <2>1 DEF Doing
<1>l. \A j, i : Late(j, i)' <=> Late(j, i)
  BY <1>u DEF Late
<1>m. ~mixed' => ~mixed
  BY <1>u
<1>n. /\ \A j \in Sessions : \A i \in 0..MaxSequence : Covered(j, i) => Covered(j, i)'
      /\ Covered(k, n - 1) => Covered(k, n)'
  <2>1. Doing(k, n)
    BY <1>i DEF Doing
  <2>2. \A j \in Sessions : \A i \in 1..MaxSequence : Doing(j, i)' <=> Doing(j, i) \/ (j = k /\ i = n)
    BY <1>j, <2>1
  <2> QED  BY <1>k, <1>l, <2>2, DoingGrows
<1>o. \A j \in Sessions : \A i \in Nat : i > 0 /\ NewFrom(j, i) => NewFrom(j, i)'
  <2>1. \A i \in Nat : i > 0 => \A m \in i..MaxSequence : m \in 1..MaxSequence
    BY Places
  <2> QED  BY <1>j, <1>l, <2>1 DEF NewFrom
<1>1. TypeSession'
  BY <1>0, <1>k, <1>u, <1>x DEF Types, TypeSession
<1>2. TypeSockets'
  BY <1>0, <1>u DEF Types, TypeSockets
<1>3. TypeLabels'
  BY <1>0, <1>u, ProcFacts, DispatchFacts, NothingFacts, Places
  DEF Types, TypeSession, TypeSockets, TypeLabels, TypePackets,
      TypeDiscord, Websockets, Fresh, OldDown, BeforeFirst, LoadedInOpen,
      Unstarted, Hands, Labels, Handle, Goto, opening, discord
<1>4. TypePackets'
  BY <1>0, <1>u, <1>x, NothingFacts DEF Types, TypePackets
<1>5. TypeDiscord'
  BY <1>0, <1>h, <1>u DEF Types, TypeDiscord
<1>6. Locking'
  BY <1>0, <1>b, <1>u, <1>x DEF Locking, Opening
<1>7. Fresh'
  BY <1>0, <1>b, <1>u, <1>x, ProcFacts DEF Websockets, Fresh, Unstarted
<1>8. OldDown'
  BY <1>0, <1>u DEF Websockets, OldDown
<1>9. BeforeFirst'
  BY <1>0, <1>u, ProcFacts, DispatchFacts, NothingFacts, Places
  DEF Types, TypeSession, TypeSockets, TypeLabels, TypePackets,
      TypeDiscord, Websockets, Fresh, OldDown, BeforeFirst, LoadedInOpen,
      Unstarted, Hands, Locking, Opening, Handle, Goto, opening, discord
<1>10. LoadedInOpen'
  BY <1>0, <1>u, ProcFacts, DispatchFacts, NothingFacts, Places
  DEF Types, TypeSession, TypeSockets, TypeLabels, TypePackets,
      TypeDiscord, Websockets, Fresh, OldDown, BeforeFirst, LoadedInOpen,
      Unstarted, Hands, Locking, Opening, Handle, Goto, opening, discord
<1>11. Hands'
  BY SMTT(20), <1>0, <1>u, ProcFacts, DispatchFacts, NothingFacts, Places
  DEF Types, TypeSession, TypeSockets, TypeLabels, TypePackets,
      TypeDiscord, Websockets, Fresh, OldDown, BeforeFirst, LoadedInOpen,
      Unstarted, Hands, Handle, Goto, opening, discord
<1>12. KnownPackets'
  <2>1. \A e \in Conns : Known(hand'[e], sent)
    BY <1>0, <1>b DEF Numbered, KnownPackets, Known
  <2> QED  BY <1>0, <1>u, <2>1 DEF Numbered, KnownPackets
<1>13. KnownHandled'
  <2>1. n <= sent[k]
    BY <1>0, <1>k DEF Numbered, KnownPackets, Known
  <2> QED  BY <1>0, <1>h, <1>u, <2>1 DEF Numbered, KnownHandled
<1>14. Served'
  BY <1>0, <1>u DEF Numbered, Served
<1>15. InOrder'
  BY <1>0, <1>b, <1>u DEF InOrder, Follows
<1>16. Tip'
  BY <1>0, <1>b, <1>u DEF Tip
<1>17. ~mixed' => Whole'
  <2>0. SUFFICES ASSUME ~mixed PROVE Whole'
    BY <1>u
  <2>1. Covered(k, n)'
    BY <1>0, <1>k, <1>n, <2>0 DEF Whole, Held
  <2>2. Held'
    <3>1. \A e \in Conns : hand[e].op = "dispatch" => hand[e].number - 1 \in 0..MaxSequence
      BY <1>0, Ranges, Places
    <3> QED  BY <1>0, <1>n, <1>b, <2>0, <3>1, Ranges DEF Whole, Held
  <2>3. ToCome'
    <3>1. inbox[c] # <<>> /\ inbox[c][1].op = "dispatch" => inbox[c][1].session = k /\ inbox[c][1].number - 1 = n
      <4>1. inbox[c] # <<>> /\ inbox[c][1].op = "dispatch" => inbox[c][1].session = k /\ inbox[c][1].number = n + 1
        BY <1>0, <1>k DEF InOrder, Follows
      <4> QED  BY <1>k, <4>1
    <3>2. \A e \in Conns : inbox[e] # <<>> /\ inbox[e][1].op = "dispatch" => inbox[e][1].number - 1 \in 0..MaxSequence
      BY <1>0, Ranges, Places
    <3> QED  BY <1>0, <1>b, <1>n, <1>u, <2>0, <2>1, <3>1, <3>2, Ranges DEF Whole, ToCome
  <2>4. CaughtUp'
    <3>1. c \notin down /\ serves[c] # NoSession /\ inbox[c] = <<>> => serves[c] = k /\ sent[serves[c]] = n
      BY <1>0, <1>k, DispatchFacts DEF Tip
    <3> QED  BY <1>0, <1>b, <1>n, <1>u, <2>0, <2>1, <3>1, Ranges DEF Whole, CaughtUp
  <2>5. Stored'
    BY <1>0, <1>n, <1>u, <2>0, Ranges DEF Whole, Stored
  <2>6. Carried'
    BY <1>0, <1>n, <1>u, <2>0, Ranges DEF Whole, Carried
  <2> QED  BY <2>2, <2>3, <2>4, <2>5, <2>6 DEF Whole
<1>18. ~mixed' => News'
  <2>0. SUFFICES ASSUME ~mixed PROVE News'
    BY <1>u
  <2>1. NewToCome'
    <3>1. wsConn # NoConn /\ inbox[wsConn] # <<>> /\ inbox[wsConn][1].op = "dispatch"
            => inbox[wsConn][1].session \in Sessions /\ inbox[wsConn][1].number \in Nat /\ inbox[wsConn][1].number > 0
      BY <1>0, Ranges, Places
    <3> QED  BY <1>0, <1>o, <1>u, <2>0, <3>1 DEF News, NewToCome
  <2>2. NewInHand'
    <3>1. wsConn # NoConn /\ hand[wsConn].op = "dispatch"
            => hand[wsConn].session \in Sessions /\ hand[wsConn].number \in Nat /\ hand[wsConn].number > 0
      BY <1>0, Ranges, Places
    <3>2. wsConn # NoConn /\ wsConn # c
            => pc'[listen(wsConn)] = pc[listen(wsConn)] /\ hand'[wsConn] = hand[wsConn]
      BY <1>0, <1>b, Ranges
    <3> QED  BY <1>0, <1>b, <1>o, <1>u, <2>0, <3>1, <3>2 DEF News, NewInHand
  <2>3. NewAfter'
    <3>1. origin # NoSession => origin \in Sessions /\ sequence + 1 \in Nat /\ sequence + 1 > 0
      BY <1>0, Ranges, Places
    <3> QED  BY <1>0, <1>o, <1>u, <2>0, <3>1 DEF News, NewAfter
  <2>4. NewCarried'
    <3>1. loadedFrom # NoSession => loadedFrom \in Sessions /\ loaded + 1 \in Nat /\ loaded + 1 > 0
      BY <1>0, Ranges, Places
    <3> QED  BY <1>0, <1>o, <1>u, <2>0, <3>1 DEF News, NewCarried
  <2> QED  BY <2>1, <2>2, <2>3, <2>4 DEF News
<1>w. ~mixed' => Twice'
  <2>0. SUFFICES ASSUME ~mixed PROVE Twice'
    BY <1>u
  <2>1. handled'[k][n] > 1 => Late(k, n)
    BY <1>0, <1>h, <1>i, <1>k, <2>0 DEF Twice
  <2>2. InHand(k, n)' => Late(k, n)
    BY <1>0, <1>b, <1>k, <1>x, <2>0 DEF Twice, InHand
  <2>3. \A j \in Sessions : \A i \in 1..MaxSequence :
          /\ handled'[j][i] > 1 => Late(j, i)
          /\ handled'[j][i] > 0 /\ InHand(j, i)' => Late(j, i)
    BY <1>0, <1>h, <1>i, <2>0, <2>1, <2>2 DEF Twice
  <2>4. ASSUME NEW j \in Sessions, NEW i \in 1..MaxSequence, NEW e \in Conns, NEW f \in Conns, e # f,
               pc'[listen(e)] = "handle", pc'[listen(f)] = "handle",
               hand'[e] = Dispatch(j, i), hand'[f] = Dispatch(j, i)
        PROVE  Late(j, i)
    <3>1. e # c /\ f # c
      BY <1>b, <2>4
    <3> QED  BY <1>0, <1>b, <2>0, <2>4, <3>1 DEF Twice
  <2> QED  BY <1>l, <2>3, <2>4 DEF Twice
<1> QED
  BY <1>0, <1>u, <1>1, <1>2, <1>3, <1>4, <1>5, <1>6, <1>7, <1>8, <1>9, <1>10, <1>11,
     <1>12, <1>13, <1>14, <1>15, <1>16, <1>17, <1>18, <1>w
  DEF IInv, Structure, Streams, Unmixed, Types, Websockets, Numbered

LEMMA BreaksKeeps ==
  ASSUME IInv, Breaks
  PROVE  IInv'
<1>0. Types /\ Locking /\ Websockets /\ Hands /\ Numbered /\ InOrder /\ Tip
      /\ (~mixed => Whole /\ Twice /\ News)
  BY DEF IInv, Structure, Streams, Unmixed
<1>u. UNCHANGED <<lock, wsConn, stopped, sequence, sessionID, origin,
                    loaded, loadedFrom, mixed, pc, hand, serves, alive,
                    sent, dialled, handled, late>>
  BY DEF Breaks, Down, values, opening, discord
<1>1. TypeSession'
  BY <1>0, <1>u DEF Types, TypeSession
<1>2. TypeSockets'
  BY <1>0, <1>u, ProcFacts, DispatchFacts, NothingFacts, Places
  DEF Types, TypeSession, TypeSockets, TypeLabels, TypePackets,
      TypeDiscord, Websockets, Fresh, OldDown, BeforeFirst, LoadedInOpen,
      Unstarted, Hands, Breaks, Down, values, opening, discord
<1>3. TypeLabels'
  BY <1>0, <1>u DEF Types, TypeLabels
<1>4. TypePackets'
  BY <1>0, <1>u, ProcFacts, DispatchFacts, NothingFacts, Places
  DEF Types, TypeSession, TypeSockets, TypeLabels, TypePackets,
      TypeDiscord, Websockets, Fresh, OldDown, BeforeFirst, LoadedInOpen,
      Unstarted, Hands, Breaks, Down, values, opening, discord
<1>5. TypeDiscord'
  BY <1>0, <1>u DEF Types, TypeDiscord
<1>6. Locking'
  BY <1>0, <1>u DEF Locking
<1>7. Fresh'
  BY <1>0, <1>u, ProcFacts, DispatchFacts, NothingFacts, Places
  DEF Types, TypeSession, TypeSockets, TypeLabels, TypePackets,
      TypeDiscord, Websockets, Fresh, OldDown, BeforeFirst, LoadedInOpen,
      Unstarted, Hands, Breaks, Down, values, opening, discord
<1>8. OldDown'
  BY <1>0, <1>u, ProcFacts, DispatchFacts, NothingFacts, Places
  DEF Types, TypeSession, TypeSockets, TypeLabels, TypePackets,
      TypeDiscord, Websockets, Fresh, OldDown, BeforeFirst, LoadedInOpen,
      Unstarted, Hands, Breaks, Down, values, opening, discord
<1>9. BeforeFirst'
  BY <1>0, <1>u DEF Websockets, BeforeFirst, Unstarted
<1>10. LoadedInOpen'
  BY <1>0, <1>u DEF Websockets, LoadedInOpen
<1>11. Hands'
  BY <1>0, <1>u DEF Hands
<1>12. KnownPackets'
  BY SMTT(20), <1>0, <1>u, ProcFacts, DispatchFacts, NothingFacts, Places
  DEF Types, TypeSession, TypeSockets, TypeLabels, TypePackets,
      TypeDiscord, Websockets, Fresh, OldDown, BeforeFirst, LoadedInOpen,
      Unstarted, Hands, Numbered, KnownPackets, Known, Breaks, Down,
      values, opening, discord
<1>13. KnownHandled'
  BY <1>0, <1>u DEF Numbered, KnownHandled
<1>14. Served'
  BY <1>0, <1>u DEF Numbered, Served
<1>15. InOrder'
  BY <1>0, <1>u, ProcFacts, DispatchFacts, NothingFacts, Places
  DEF Types, TypeSession, TypeSockets, TypeLabels, TypePackets,
      TypeDiscord, Websockets, Fresh, OldDown, BeforeFirst, LoadedInOpen,
      Unstarted, Hands, InOrder, Follows, Breaks, Down, values, opening,
      discord
<1>16. Tip'
  BY <1>0, <1>u, ProcFacts, DispatchFacts, NothingFacts, Places
  DEF Types, TypeSession, TypeSockets, TypeLabels, TypePackets,
      TypeDiscord, Websockets, Fresh, OldDown, BeforeFirst, LoadedInOpen,
      Unstarted, Hands, Tip, Breaks, Down, values, opening, discord
<1>q. Quiet
  BY <1>0, <1>u, ProcFacts DEF Quiet, Types, TypeSession, TypeSockets, TypeLabels,
     TypePackets, TypeDiscord, Hands, Breaks, Goto
<1>17. ~mixed' => Whole'
  BY <1>0, <1>u, <1>q, QuietKeeps, ProcFacts, DispatchFacts, NothingFacts, Places
  DEF Types, TypeSession, TypeSockets, TypeLabels, TypePackets,
      TypeDiscord, Websockets, Fresh, OldDown, BeforeFirst, LoadedInOpen,
      Unstarted, Hands, Whole, ToCome, CaughtUp, Held, Stored, Carried,
      Breaks, Down, values, opening, discord
<1>18. ~mixed' => News'
  BY <1>0, <1>u, <1>q, QuietKeeps, ProcFacts, DispatchFacts, NothingFacts, Places
  DEF Types, TypeSession, TypeSockets, TypeLabels, TypePackets,
      TypeDiscord, Websockets, Fresh, OldDown, BeforeFirst, LoadedInOpen,
      Unstarted, Hands, News, NewToCome, NewInHand, NewAfter, NewCarried,
      Locking, Opening, Breaks, Down, values, opening, discord
<1> QED
  BY <1>0, <1>u, <1>q, QuietKeeps, <1>1, <1>2, <1>3, <1>4, <1>5, <1>6, <1>7, <1>8, <1>9,
     <1>10, <1>11,
     <1>12, <1>13, <1>14, <1>15, <1>16, <1>17, <1>18
  DEF IInv, Structure, Streams, Unmixed, Types, Websockets, Numbered

-------------------------------------------------------------------------------
(* The theorems.                                                              *)

LEMMA InitInv == Init => IInv
<1>1. SUFFICES ASSUME Init PROVE IInv
  OBVIOUS
<1>2. inbox = [c \in Conns |-> <<>>] /\ hand = [c \in Conns |-> Nothing] /\ ~mixed /\ lock = Nobody
  BY <1>1 DEF Init
<1>3. pc \in [Procs -> {"open", "off"}] /\ \A c \in Conns : pc[listen(c)] = "off" /\ pc[heartbeat(c)] = "off"
  BY <1>1, ProcFacts DEF Init
<1>4. \A k, n : ~InHand(k, n)
  BY <1>3 DEF InHand
<1>5. Types
  <2>1. <<>> \in Seq(Packets)
    OBVIOUS
  <2>2. TypePackets
    BY <1>2, <2>1, NothingFacts DEF TypePackets
  <2>3. TypeDiscord
    BY <1>1, Places DEF Init, TypeDiscord
  <2>4. TypeSession
    <3>1. lock = Nobody /\ mixed = FALSE
      BY <1>1 DEF Init
    <3>2. sequence = 0 /\ loaded = 0 /\ sessionID = NoSession /\ origin = NoSession /\ loadedFrom = NoSession
      BY <1>1 DEF Init
    <3>3. lock \in Procs \cup {Nobody} /\ mixed \in BOOLEAN
      BY <3>1
    <3> QED  BY <3>2, <3>3, Places DEF TypeSession
  <2>6. TypeSockets
    BY <1>1, Places DEF Init, TypeSockets
  <2>5. TypeLabels
    BY <1>3 DEF TypeLabels, Labels
  <2> QED  BY <2>2, <2>3, <2>4, <2>5, <2>6 DEF Types
<1>6. Locking
  BY <1>2, <1>3, ProcFacts DEF Locking, Opening
<1>7. Websockets
  BY <1>1, <1>2, <1>3, Places
     DEF Init, Websockets, Fresh, OldDown, BeforeFirst, LoadedInOpen, Unstarted
<1>8. Hands
  BY <1>2, <1>3 DEF Hands
<1>9. Numbered
  <2>1. KnownPackets
    <3>1. \A c \in Conns : Len(inbox[c]) = 0
      BY <1>2
    <3> QED  BY <1>2, <3>1, NothingFacts DEF KnownPackets, Known
  <2>2. KnownHandled /\ Served
    BY <1>1, Places DEF Init, KnownHandled, Served
  <2> QED  BY <2>1, <2>2 DEF Numbered
<1>10. InOrder /\ Tip
  <2>1. \A c \in Conns : Len(inbox[c]) = 0
    BY <1>2
  <2>2. Tip
    BY <1>1 DEF Init, Tip
  <2> QED  BY <1>2, <2>1, <2>2 DEF InOrder
<1>11. Whole
  BY <1>1, <1>2, NothingFacts DEF Init, Whole, ToCome, CaughtUp, Held, Stored, Carried
<1>12. Twice
  <2>1. \A k \in Sessions : \A n \in 1..MaxSequence : handled[k][n] = 0
    BY <1>1 DEF Init
  <2>2. \A c \in Conns : pc[listen(c)] # "handle"
    BY <1>3
  <2> QED  BY <1>4, <2>1, <2>2 DEF Twice
<1>13. News
  BY <1>1 DEF Init, News, NewToCome, NewInHand, NewAfter, NewCarried
<1> QED
  BY <1>5, <1>6, <1>7, <1>8, <1>9, <1>10, <1>11, <1>12, <1>13
     DEF IInv, Structure, Streams, Unmixed

\* A step of the system keeps the invariant.
LEMMA NextInv == IInv /\ [Next]_vars => IInv'
<1>1. SUFFICES ASSUME IInv, [Next]_vars PROVE IInv'
  OBVIOUS
<1>2. ASSUME NEW p \in Procs, Opens(p) PROVE IInv'
  <2>1. CASE OpenBegin(p)         BY <1>1, <2>1, OpenBeginKeeps
  <2>2. CASE Dial(p)              BY <1>1, <2>2, DialKeeps
  <2>3. CASE OpenFails(p)         BY <1>1, <2>3, OpenFailsKeeps
  <2>4. CASE Identify(p)          BY <1>1, <2>4, IdentifyKeeps
  <2>5. CASE Resume(p)            BY <1>1, <2>5, ResumeCases, AcceptedKeeps, RefusedKeeps
  <2>6. CASE FirstPacket(p)       BY <1>1, <2>6, FirstPacketKeeps
  <2>7. CASE FirstPacketHangs(p)  BY <1>1, <2>7, FirstPacketHangsKeeps
  <2>8. CASE CloseWithCode(p)     BY <1>1, <2>8, CloseWithCodeKeeps
  <2>9. CASE ForgetID(p)          BY <1>1, <2>9, ForgetIDKeeps
  <2>10. CASE ForgetSequence(p)   BY <1>1, <2>10, ForgetSequenceKeeps
  <2> QED
    BY <1>2, <2>1, <2>2, <2>3, <2>4, <2>5, <2>6, <2>7, <2>8, <2>9, <2>10 DEF Opens
<1>3. ASSUME NEW c \in Conns, Loops(c) PROVE IInv'
  <2>1. CASE Read(c)       BY <1>1, <2>1, ReadKeeps
  <2>2. CASE ReadError(c)  BY <1>1, <2>2, ReadErrorKeeps
  <2>3. CASE Select(c)     BY <1>1, <2>3, SelectKeeps
  <2>4. CASE Store(c)      BY <1>1, <2>4, StoreKeeps
  <2>5. CASE Handle(c)     BY <1>1, <2>5, HandleKeeps
  <2>6. CASE BeatError(c)  BY <1>1, <2>6, BeatErrorKeeps
  <2>7. CASE Stopped(c)    BY <1>1, <2>7, StoppedKeeps
  <2> QED  BY <1>3, <2>1, <2>2, <2>3, <2>4, <2>5, <2>6, <2>7 DEF Loops
<1>4. ASSUME Environment PROVE IInv'
  <2>1. CASE Application  BY <1>1, <2>1, ApplicationKeeps
  <2>2. CASE Breaks       BY <1>1, <2>2, BreaksKeeps
  <2>3. ASSUME NEW c \in Conns, Dispatches(c) \/ Dismisses(c) PROVE IInv'
    BY <1>1, <2>3, DispatchesKeeps, DismissesKeeps
  <2> QED  BY <1>4, <2>1, <2>2, <2>3 DEF Environment
<1>5. ASSUME UNCHANGED vars PROVE IInv'
  <2>1. Quiet
    BY <1>5 DEF vars, Quiet
  <2>2. Structure'
    BY <1>1, <1>5
       DEF vars, values, opening, discord, IInv, Structure, Types, TypeSession, TypeSockets,
       TypeLabels, TypePackets, TypeDiscord, Locking, Websockets, Fresh, OldDown, BeforeFirst,
       LoadedInOpen, Unstarted, Hands
  <2>3. Streams'
    BY <1>1, <1>5 DEF vars, discord, IInv, Streams, Numbered, KnownPackets, Known,
       KnownHandled, Served,
       InOrder, Follows, Tip
  <2>4. ~mixed' => Whole'
    BY <1>1, <1>5, <2>1, QuietKeeps
       DEF vars, values, opening, discord, IInv, Unmixed, Whole,
       ToCome, CaughtUp, Held, Stored, Carried
  <2>5. ~mixed' => Twice' /\ News'
    BY <1>1, <1>5, <2>1, QuietKeeps DEF vars, values, opening, discord, IInv, Unmixed, News,
       NewToCome, NewInHand, NewAfter, NewCarried
  <2> QED  BY <2>2, <2>3, <2>4, <2>5 DEF IInv, Unmixed
<1> QED  BY <1>1, <1>2, <1>3, <1>4, <1>5 DEF Next

LEMMA Invariance == Spec => []IInv
BY InitInv, NextInv, PTL DEF Spec

LEMMA TypesFollow == IInv => TypeOK
<1>1. SUFFICES ASSUME IInv PROVE TypeOK
  OBVIOUS
<1>2. TypeSession /\ TypeSockets /\ TypePackets /\ TypeDiscord /\ KnownPackets /\ Served
  BY <1>1 DEF IInv, Structure, Streams, Types, Numbered
<1>3. \A c \in Conns : \A d \in ToSet(inbox[c]) \cup {hand[c]} : d \in Packets /\ Known(d, sent)
  <2>1. \A c \in Conns : \A i \in 1..Len(inbox[c]) : inbox[c][i] \in Packets /\ Known(inbox[c][i], sent)
    BY <1>2 DEF TypePackets, KnownPackets
  <2>2. \A c \in Conns : DOMAIN inbox[c] = 1..Len(inbox[c])
    BY <1>2 DEF TypePackets
  <2> QED  BY <1>2, <2>1, <2>2 DEF ToSet, TypePackets, KnownPackets
<1>4. {sessionID, origin, loadedFrom} \subseteq Sessions \cup {NoSession}
  BY <1>2 DEF TypeSession
<1>5. stopped \subseteq 1..dialled /\ down \subseteq 1..dialled /\ dialled \in 0..MaxDials /\ wsConn \in 0..dialled
  BY <1>2 DEF TypeSockets
<1> QED  BY <1>2, <1>3, <1>4, <1>5 DEF TypeOK, TypeSession, TypeDiscord, Served, Known

\* The state has its type, and Open, onEvent and the websockets never make up
\* a dispatch: each one on its way, or in the hand of a listen, was sent.
THEOREM TypesHold == Spec => []TypeOK
BY Invariance, TypesFollow, PTL

LEMMA WholeCovers == IInv => NothingLost
<1>1. SUFFICES ASSUME IInv, ~mixed, sessionID # NoSession, origin = sessionID,
                      NEW n \in 1..sequence
               PROVE  handled[sessionID][n] > 0 \/ InHand(sessionID, n)
  BY DEF NothingLost
<1>2. Covered(sessionID, sequence)
  BY <1>1 DEF IInv, Unmixed, Whole, Stored
<1> QED  BY <1>1, <1>2 DEF Covered, Doing

\* A reconnect loses nothing: while every Resume named the session its number
\* came from, each dispatch up to the stored number has been handled or is in
\* the hand of a listen goroutine, for all interleavings of onEvent on the old
\* and the new websocket.
THEOREM NothingLostHolds == Spec => []NothingLost
BY Invariance, WholeCovers, PTL

\* A dispatch is handled twice only after a listen goroutine whose websocket
\* was replaced stored that one or an earlier one: otherwise Open never resumes
\* from before what was handled.
THEOREM TwiceOnlyLateHolds == Spec => []TwiceOnlyLate
<1>1. IInv => TwiceOnlyLate
  BY DEF IInv, Unmixed, Twice, TwiceOnlyLate, Late
<1> QED  BY Invariance, <1>1, PTL

===============================================================================
