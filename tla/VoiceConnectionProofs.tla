----------------------- MODULE VoiceConnectionProofs -----------------------
(***************************************************************************)
(* Theorems about VoiceConnection, for any connections, Dials and          *)
(* goroutines: the types, who holds the lock and reconnects, that no stop  *)
(* channel is lost, that Ready is set by a running sender only, and that   *)
(* a websocket that goes down is noticed.                                  *)
(***************************************************************************)
EXTENDS VoiceConnection, TLAPS

-----------------------------------------------------------------------------
(* The inductive invariant.  The types come first, in groups that a step   *)
(* mostly leaves alone.                                                    *)

ConnOK ==
    /\ current \in Voice \cup {None}
    /\ ws \in [Voice -> Dial \cup {None}] /\ udp \in [Voice -> Dial \cup {None}]
    /\ close \in [Voice -> Dial \cup {None}]
    /\ ready \in [Voice -> BOOLEAN] /\ reconnecting \in [Voice -> BOOLEAN]
    /\ beating \in [Voice -> BOOLEAN] /\ sid \in [Voice -> BOOLEAN]
    /\ lock \in [Voice -> Proc \cup {None}]

ServerOK ==
    /\ link \in [Dial -> {"up", "down", "moved", "refused"}]
    /\ next \in [Dial -> {"hello", "ready", "other"}]
    /\ stopped \in [Dial -> BOOLEAN] /\ owner \in [Dial -> Voice \cup {None}]

\* Where a call returns to.
Afters == {"idle", "open", "delete", "pause", "failed"}

ProcsOK ==
    /\ pc = [p \in Proc |-> pc[p]]
    /\ voice \in [Proc -> Voice \cup {None}]
    /\ \A p \in Proc : pc[p] = "idle" <=> voice[p] = None
    /\ after \in [Proc -> Afters]
    /\ serves \in [Recon -> Voice \cup {None}] /\ reading \in [Dial -> Dial \cup {None}]

LoopsOK ==
    /\ beat \subseteq Dial
    /\ sender \in [Dial -> Loop({"none", "start", "run", "stop"})]
    /\ receiver \in [Dial -> Loop({"none", "run"})]

GatewayOK ==
    /\ online \in BOOLEAN /\ joined \in BOOLEAN /\ owed \subseteq {"state", "server"}

HistoryOK == forgotten \subseteq Dial /\ gaveUp \subseteq Voice /\ crashed \in BOOLEAN

MovesOK == moves \in 0 .. MaxMoves

Holding == {"closing", "dial", "identify"}

\* The lock of a connection is held by the one goroutine in Close or open.
Locking ==
    \A v \in Voice, p \in Proc : lock[v] = p <=> pc[p] \in Holding /\ voice[p] = v

\* Nobody but the goroutine that identifies uses its websocket yet.
Dialling ==
    /\ \A v, w \in Voice : ws[v] # None /\ ws[v] = ws[w] => v = w
    /\ \A p \in Proc : pc[p] = "identify" => ws[voice[p]] # None /\ pc[ws[voice[p]]] = "idle"

ReconLabels == {"idle", "reconnect", "Close", "closing", "pause", "insert", "write",
                "waitConnected", "failed", "done"}

\* Where a reconnect is while it serves no connection.
Outside == {"idle", "reconnect"}

\* A reconnect serves a connection from its first step to its last.
Reconnecting ==
    /\ \A v \in Voice : reconnecting[v] <=> \E r \in Recon : serves[r] = v
    /\ \A r, q \in Recon : serves[r] # None /\ serves[r] = serves[q] => r = q
    /\ \A r \in Recon :
        /\ pc[r] \in ReconLabels
        /\ pc[r] \in {"Close", "closing"} => after[r] \in {"pause", "failed"}
        /\ serves[r] = None <=> pc[r] \in Outside

\* A wsListen reads a websocket, and every websocket that is used was made for
\* a connection.
Sources ==
    /\ \A d \in Dial : pc[d] = "read" => reading[d] # None
    /\ \A d \in Dial : reading[d] # None => owner[reading[d]] # None
    /\ \A v \in Voice : ws[v] # None => owner[ws[v]] # None
    /\ \A d \in Dial : receiver[d].at # "none" => owner[d] # None

Sockets == \A v \in Voice : udp[v] # None => close[v] # None

Types == ConnOK /\ ServerOK /\ ProcsOK /\ LoopsOK /\ GatewayOK /\ HistoryOK /\ MovesOK
Fields == Sockets /\ NothingLeft /\ ReadyHasSender

IInv == Types /\ Locking /\ Dialling /\ Reconnecting /\ Sources /\ Fields

-----------------------------------------------------------------------------
(* What a step does that only moves one goroutine. *)

\* The other goroutines stay where they are.
Alone(p) ==
    \A q \in Proc \ {p} : pc'[q] = pc[q] /\ voice'[q] = voice[q] /\ after'[q] = after[q]

\* p goes on without the lock.
Unlocked(p) == Alone(p) /\ pc[p] \notin Holding /\ pc'[p] \notin Holding

\* p, if it is a reconnect, stays one of its kind.
ReconMove(p) == p \in Recon =>
    /\ pc'[p] \in ReconLabels
    /\ pc'[p] \in {"Close", "closing"} => after'[p] \in {"pause", "failed"}
    /\ pc'[p] \in Outside <=> pc[p] \in Outside

LEMMA NotNone ==
    /\ \A v \in Voice : v # None
    /\ \A p \in Proc : p # None
    /\ \A d \in Dial : d # None /\ d \in Proc
    /\ App \subseteq Proc /\ Handler \subseteq Proc /\ Recon \subseteq Proc
    /\ \A p \in App \cup Handler \cup Recon : p \notin Dial
    /\ \A p \in App \cup Handler \cup Dial : p \notin Recon
BY VoiceAssumption DEF Proc

LEMMA LockingKept ==
    ASSUME Locking, NEW p \in Proc, Unlocked(p), UNCHANGED lock
    PROVE  Locking'
BY DEF Locking, Unlocked, Alone

LEMMA DiallingKept ==
    ASSUME Types, Dialling, NEW p \in Proc, Alone(p), UNCHANGED ws,
           pc'[p] # "identify", p \in Dial => pc[p] # "idle"
    PROVE  Dialling'
<1>1. ASSUME NEW q \in Proc, pc'[q] = "identify"
      PROVE  ws[voice'[q]] # None /\ pc'[ws[voice'[q]]] = "idle"
    <2>1. q # p /\ pc[q] = "identify" /\ voice'[q] = voice[q]
        BY <1>1 DEF Alone
    <2>2. ws[voice[q]] # None /\ pc[ws[voice[q]]] = "idle" /\ voice[q] \in Voice
        BY <2>1 DEF Dialling, Types, ProcsOK
    <2>3. ws[voice[q]] \in Dial /\ ws[voice[q]] \in Proc
        BY <2>2, NotNone DEF Types, ConnOK
    <2> QED  BY <2>1, <2>2, <2>3 DEF Alone
<1> QED  BY <1>1 DEF Dialling

\* A step that takes the lock of a connection, and one that gives it back.
LEMMA LockTaken ==
    ASSUME Types, Locking, NEW p \in Proc, NEW v \in Voice, Alone(p),
           voice[p] = v, voice'[p] = v, pc[p] \notin Holding, pc'[p] \in Holding,
           lock[v] = None, lock' = [lock EXCEPT ![v] = p]
    PROVE  Locking'
<1>1. lock'[v] = p /\ \A w \in Voice : w # v => lock'[w] = lock[w]
    BY DEF Types, ConnOK
<1>2. \A q \in Proc : ~(pc[q] \in Holding /\ voice[q] = v)
    BY NotNone DEF Locking
<1>3. ASSUME NEW w \in Voice, NEW q \in Proc
      PROVE  lock'[w] = q <=> pc'[q] \in Holding /\ voice'[q] = w
    <2>1. CASE q = p
        BY <1>1, <2>1 DEF Locking
    <2>2. CASE q # p
        BY <1>1, <1>2, <2>2 DEF Locking, Alone
    <2> QED  BY <2>1, <2>2
<1> QED  BY <1>3 DEF Locking

LEMMA LockGiven ==
    ASSUME Types, Locking, NEW p \in Proc, NEW v \in Voice, Alone(p),
           voice[p] = v, pc[p] \in Holding, pc'[p] \notin Holding,
           lock' = [lock EXCEPT ![v] = None]
    PROVE  Locking'
<1>1. lock'[v] = None /\ \A w \in Voice : w # v => lock'[w] = lock[w]
    BY DEF Types, ConnOK
<1>2. lock[v] = p
    BY DEF Locking
<1>3. ASSUME NEW w \in Voice, NEW q \in Proc
      PROVE  lock'[w] = q <=> pc'[q] \in Holding /\ voice'[q] = w
    <2>1. CASE q = p
        <3>1. lock'[w] # p
            BY <1>1, <2>1, NotNone DEF Locking
        <3> QED  BY <2>1, <3>1
    <2>2. CASE q # p
        <3>1. pc'[q] = pc[q] /\ voice'[q] = voice[q]
            BY <2>2 DEF Alone
        <3>2. CASE w = v
            BY <1>1, <1>2, <2>2, <3>1, <3>2, NotNone DEF Locking
        <3>3. CASE w # v
            BY <1>1, <3>1, <3>3 DEF Locking
        <3> QED  BY <3>2, <3>3
    <2> QED  BY <2>1, <2>2
<1> QED  BY <1>3 DEF Locking

LEMMA ReconnectingKept ==
    ASSUME Reconnecting, UNCHANGED <<serves, reconnecting>>,
           \A r \in Recon : (pc'[r] = pc[r] /\ after'[r] = after[r]) \/ ReconMove(r)
    PROVE  Reconnecting'
<1>1. ASSUME NEW r \in Recon
      PROVE  /\ pc'[r] \in ReconLabels
             /\ pc'[r] \in {"Close", "closing"} => after'[r] \in {"pause", "failed"}
             /\ serves[r] = None <=> pc'[r] \in Outside
    BY DEF Reconnecting, ReconMove
<1> QED  BY <1>1 DEF Reconnecting

\* The websockets of the connections and of the readers stay, are dropped, or
\* are new and have an owner.
Made ==
    /\ \A d \in Dial : owner[d] # None => owner'[d] # None
    /\ \A v \in Voice : ws'[v] \in {None, ws[v]} \/ owner'[ws'[v]] # None
    /\ \A d \in Dial : receiver'[d].at # "none" =>
                          receiver[d].at # "none" \/ owner'[d] # None

Read ==
    /\ \A d \in Dial : reading'[d] \in {None, reading[d]}
    /\ \A d \in Dial : pc'[d] = "read" => pc[d] = "read" /\ reading'[d] = reading[d]

LEMMA SourcesKept ==
    ASSUME IInv, Made, Read
    PROVE  Sources'
<1>1. /\ \A d \in Dial : reading[d] \in Dial \cup {None}
      /\ \A v \in Voice : ws[v] \in Dial \cup {None}
    BY DEF IInv, Types, ProcsOK, ConnOK
<1>2. \A d \in Dial : reading'[d] # None => owner'[reading'[d]] # None
    BY <1>1 DEF IInv, Sources, Made, Read
<1>3. \A v \in Voice : ws'[v] # None => owner'[ws'[v]] # None
    BY <1>1 DEF IInv, Sources, Made
<1>4. \A d \in Dial : receiver'[d].at # "none" => owner'[d] # None
    BY DEF IInv, Sources, Made
<1>5. \A d \in Dial : pc'[d] = "read" => reading'[d] # None
    BY DEF IInv, Sources, Read
<1> QED  BY <1>2, <1>3, <1>4, <1>5 DEF Sources

\* A step that leaves all goroutines alone.
LEMMA ProcsKept ==
    ASSUME IInv, UNCHANGED <<procs, ws, lock, reconnecting>>
    PROVE  ProcsOK' /\ Locking' /\ Dialling' /\ Reconnecting'
BY DEF IInv, Types, procs, ProcsOK, Locking, Dialling, Reconnecting

\* Steps that leave groups of variables alone.
LEMMA Frames ==
    ASSUME IInv
    PROVE  /\ UNCHANGED conn => ConnOK'
           /\ UNCHANGED server => ServerOK'
           /\ UNCHANGED loops => LoopsOK'
           /\ UNCHANGED gateway => GatewayOK'
           /\ UNCHANGED history => HistoryOK'
           /\ UNCHANGED <<udp, close>> => Sockets'
           /\ UNCHANGED <<stopped, close, forgotten>> => NothingLeft'
           /\ UNCHANGED <<ready, owner, sender>> => ReadyHasSender'
<1>1. UNCHANGED conn => ConnOK'
    BY DEF IInv, Types, conn, fields, ConnOK
<1>2. UNCHANGED server => ServerOK'
    BY DEF IInv, Types, server, ServerOK
<1>3. UNCHANGED loops => LoopsOK'
    BY DEF IInv, Types, loops, LoopsOK
<1>4. UNCHANGED gateway => GatewayOK'
    BY DEF IInv, Types, gateway, GatewayOK
<1>5. UNCHANGED history => HistoryOK'
    BY DEF IInv, Types, history, HistoryOK
<1>6. /\ UNCHANGED <<udp, close>> => Sockets'
      /\ UNCHANGED <<stopped, close, forgotten>> => NothingLeft'
    BY DEF IInv, Fields, Sockets, NothingLeft
<1>7. UNCHANGED <<ready, owner, sender>> => ReadyHasSender'
    BY DEF IInv, Fields, ReadyHasSender
<1> QED  BY <1>1, <1>2, <1>3, <1>4, <1>5, <1>6, <1>7

-----------------------------------------------------------------------------
(* The steps of Close. *)

LEMMA CloseBeginInv ==
    ASSUME IInv, NEW p \in Proc, CloseBegin(p),
           moves' \in 0 .. MaxMoves
    PROVE  IInv'
<1>1. ConnOK'
    BY NotNone DEF CloseBegin, Goto, Returns, Of, Free, loops, gateway, Forget, IInv,
           Types, ConnOK, ProcsOK
<1>2. ServerOK'
    BY NotNone DEF CloseBegin, Goto, Returns, Of, Free, loops, gateway, Forget, IInv,
           Types, ServerOK, ConnOK, ProcsOK
<1>3. HistoryOK'
    BY NotNone DEF CloseBegin, Goto, Returns, Of, Free, loops, gateway, Forget, IInv,
           Types, HistoryOK, ConnOK, ProcsOK
<1>4. LoopsOK' /\ GatewayOK'
    BY Frames DEF CloseBegin, Goto, Returns, Of, Free, loops, gateway, Forget
<1>5. ProcsOK'
    BY NotNone DEF CloseBegin, Goto, Returns, Of, Free, loops, gateway, Forget, IInv,
           Types, ProcsOK, ConnOK, Afters
<1>6. Locking'
    <2>1. CASE ws[Of(p)] = None
        <3>1. Unlocked(p) /\ UNCHANGED lock
            BY <2>1 DEF CloseBegin, Goto, Returns, Of, Free, loops, gateway, Forget, IInv,
                   Types, ProcsOK, Unlocked, Alone, Holding, Afters
        <3> QED  BY <3>1, LockingKept DEF IInv
    <2>2. CASE ws[Of(p)] # None
        <3>1. /\ Alone(p) /\ Of(p) \in Voice /\ voice'[p] = Of(p)
              /\ pc[p] \notin Holding /\ pc'[p] \in Holding
              /\ lock[Of(p)] = None /\ lock' = [lock EXCEPT ![Of(p)] = p]
            BY <2>2 DEF CloseBegin, Goto, Returns, Of, Free, loops, gateway, Forget, IInv,
                   Types, ProcsOK, Alone, Holding
        <3> QED  BY <3>1, LockTaken DEF IInv, Of
    <2> QED  BY <2>1, <2>2
<1>7. Dialling'
    BY NotNone, SMTT(20) DEF CloseBegin, Goto, Returns, Of, Free, loops, gateway, Forget, IInv,
           Types, ProcsOK, ConnOK, Locking, Holding, Dialling, Afters
<1>8. Reconnecting'
    <2>1. ReconMove(p)
        <3>1. pc[p] = "Close" /\ (\/ pc'[p] = after[p] /\ after'[p] = "idle"
                                  \/ pc'[p] = "closing" /\ after'[p] = after[p])
            BY DEF CloseBegin, Goto, Returns, Of, Free, loops, gateway, Forget, IInv,
                   Types, ProcsOK
        <3>2. p \in Recon => after[p] \in {"pause", "failed"}
            BY <3>1 DEF IInv, Reconnecting
        <3> QED  BY <3>1, <3>2 DEF ReconMove, ReconLabels, Outside
    <2>2. \A q \in Recon : q # p => pc'[q] = pc[q] /\ after'[q] = after[q]
        BY NotNone DEF CloseBegin, Goto, Returns, Of, Free, loops, gateway, Forget, IInv,
               Types, ProcsOK
    <2>3. UNCHANGED <<serves, reconnecting>>
        BY DEF CloseBegin, Goto, Returns, Of, Free, loops, gateway, Forget
    <2> QED  BY <2>1, <2>2, <2>3, ReconnectingKept DEF IInv
<1>9. Sources'
    <2>1. Made
        BY NotNone DEF CloseBegin, Goto, Returns, Of, Free, loops, gateway, Forget, IInv,
               Types, ProcsOK, ConnOK, ServerOK, LoopsOK, Made, conn, fields, server
    <2>2. Read
        BY NotNone DEF CloseBegin, Goto, Returns, Of, Free, loops, gateway, Forget, IInv,
               Types, ProcsOK, Afters, procs, Read
    <2> QED  BY <2>1, <2>2, SourcesKept
<1>10. Fields'
    <2>1. /\ Of(p) \in Voice
          /\ udp' = [udp EXCEPT ![Of(p)] = None] /\ close' = [close EXCEPT ![Of(p)] = None]
          /\ stopped' = [d \in Dial |-> stopped[d] \/ d = close[Of(p)]]
          /\ ready' = [ready EXCEPT ![Of(p)] = FALSE]
          /\ UNCHANGED <<owner, sender, forgotten>>
        BY DEF CloseBegin, IInv, Types, ProcsOK, Of, loops
    <2>2. Sockets'
        BY <2>1 DEF IInv, Types, ConnOK, Fields, Sockets
    <2>3. NothingLeft'
        BY <2>1 DEF IInv, Types, ConnOK, ServerOK, Fields, NothingLeft
    <2>4. ReadyHasSender'
        BY <2>1 DEF IInv, Types, ConnOK, Fields, ReadyHasSender
    <2> QED  BY <2>2, <2>3, <2>4 DEF Fields
<1> QED
    BY <1>1, <1>2, <1>3, <1>4, <1>5, <1>6, <1>7, <1>8, <1>9, <1>10 DEF IInv, Types, MovesOK

LEMMA CloseEndInv ==
    ASSUME IInv, NEW p \in Proc, CloseEnd(p),
           moves' \in 0 .. MaxMoves
    PROVE  IInv'
<1>1. ConnOK'
    BY NotNone DEF CloseEnd, Returns, Of, loops, gateway, history, IInv, Types, ConnOK,
           ProcsOK
<1>2. ServerOK'
    BY NotNone DEF CloseEnd, Returns, Of, loops, gateway, history, IInv, Types, ServerOK,
           ConnOK, ProcsOK
<1>3. LoopsOK' /\ GatewayOK' /\ HistoryOK'
    BY Frames DEF CloseEnd, Returns, Of, loops, gateway, history
<1>4. ProcsOK'
    BY NotNone DEF CloseEnd, Returns, Of, loops, gateway, history, IInv, Types, ProcsOK,
           ConnOK, Afters
<1>5. Locking'
    <2>1. /\ Alone(p) /\ pc[p] \in Holding /\ pc'[p] \notin Holding
          /\ Of(p) \in Voice /\ lock' = [lock EXCEPT ![Of(p)] = None]
        BY DEF CloseEnd, Returns, Of, loops, gateway, history, IInv, Types, ProcsOK, Alone,
               Holding, Afters, Of
    <2> QED  BY <2>1, LockGiven DEF IInv, Of
<1>6. Dialling'
    BY NotNone DEF CloseEnd, Returns, Of, loops, gateway, history, IInv, Types, ProcsOK,
           ConnOK, Locking, Holding, Dialling, Afters
<1>7. Reconnecting'
    BY NotNone DEF CloseEnd, Returns, Of, loops, gateway, history, IInv, Types, ProcsOK,
           ConnOK, Reconnecting, ReconLabels, Outside, Afters
<1>8. Sources'
    <2>1. Made
        BY NotNone DEF CloseEnd, Returns, Of, loops, gateway, history, IInv, Types,
               ProcsOK, ConnOK, ServerOK, LoopsOK, Made, conn, fields, server
    <2>2. Read
        BY NotNone DEF CloseEnd, Returns, Of, loops, gateway, history, IInv, Types,
               ProcsOK, Afters, procs, Read
    <2> QED  BY <2>1, <2>2, SourcesKept
<1>9. Fields'
    BY NotNone DEF CloseEnd, Returns, Of, loops, gateway, history, IInv, Types, ProcsOK,
           ConnOK, ServerOK, LoopsOK, Loop, Fields, Sockets, NothingLeft, ReadyHasSender
<1> QED
    BY <1>1, <1>2, <1>3, <1>4, <1>5, <1>6, <1>7, <1>8, <1>9 DEF IInv, Types, MovesOK

-----------------------------------------------------------------------------
(* The steps of open. *)

LEMMA OpenRefusedInv ==
    ASSUME IInv, NEW p \in Proc, OpenRefused(p),
           moves' \in 0 .. MaxMoves
    PROVE  IInv'
<1>1. ConnOK' /\ ServerOK' /\ LoopsOK' /\ GatewayOK' /\ HistoryOK'
    BY Frames DEF OpenRefused, Returns, Of, Free, conn, server, loops, gateway, history,
           fields
<1>2. ProcsOK'
    BY NotNone DEF OpenRefused, Returns, Of, Free, conn, server, loops, gateway, history,
           fields, IInv, Types, ProcsOK, ConnOK, Afters
<1>3. Unlocked(p) /\ UNCHANGED <<lock, ws, serves, reconnecting>>
    BY DEF OpenRefused, Returns, Of, Free, conn, server, loops, gateway, history, fields,
           IInv, Types, ProcsOK, ServerOK, GatewayOK, Afters, Holding, Alone, Unlocked
<1>4. Locking'
    BY <1>3, LockingKept DEF IInv
<1>5. pc'[p] # "identify" /\ (p \in Dial => pc[p] # "idle")
    BY <1>3, NotNone DEF OpenRefused, Returns, Of, Free, conn, server, loops, gateway,
           history, fields, Unlocked, Holding
<1>6. Dialling'
    BY <1>3, <1>5, DiallingKept DEF IInv, Unlocked
<1>7. ReconMove(p)
    BY NotNone DEF OpenRefused, Returns, Of, Free, conn, server, loops, gateway, history,
           fields, IInv, Types, ProcsOK, Reconnecting, ReconLabels, Outside, ReconMove
<1>8. Reconnecting'
    BY <1>3, <1>7, NotNone, ReconnectingKept DEF IInv, Unlocked, Alone
<1>9. Sources'
    <2>1. Made
        BY DEF OpenRefused, Returns, Of, Free, conn, server, loops, gateway, history,
               fields, Made
    <2>2. Read
        BY NotNone DEF OpenRefused, Returns, Of, Free, conn, server, loops, gateway,
               history, fields, IInv, Types, ProcsOK, Afters, procs, Read
    <2> QED  BY <2>1, <2>2, SourcesKept
<1>10. Fields'
    BY Frames DEF OpenRefused, Returns, Of, Free, conn, server, loops, gateway, history,
           fields, procs, Fields
<1> QED
    BY <1>1, <1>2, <1>4, <1>6, <1>8, <1>9, <1>10 DEF IInv, Types, MovesOK

LEMMA OpenInv ==
    ASSUME IInv, NEW p \in Proc, Open(p),
           moves' \in 0 .. MaxMoves
    PROVE  IInv'
<1>1. ConnOK'
    BY NotNone DEF Open, Goto, Of, Free, server, loops, gateway, history, Forget, IInv,
           Types, ConnOK, ProcsOK
<1>2. ServerOK' /\ LoopsOK' /\ GatewayOK' /\ HistoryOK'
    BY Frames DEF Open, Goto, Of, Free, server, loops, gateway, history, Forget
<1>3. ProcsOK'
    BY NotNone DEF Open, Goto, Of, Free, server, loops, gateway, history, Forget, IInv,
           Types, ProcsOK, ConnOK, Afters
<1>4. Locking'
    <2>1. Alone(p) /\ pc[p] \notin Holding /\ Of(p) \in Voice /\ voice'[p] = Of(p)
        BY NotNone DEF Open, Goto, Of, Free, server, loops, gateway, history, Forget, IInv,
               Types, ProcsOK, Alone, Holding
    <2>2. \/ pc'[p] \in Holding /\ lock[Of(p)] = None /\ lock' = [lock EXCEPT ![Of(p)] = p]
          \/ pc'[p] \notin Holding /\ UNCHANGED lock
        BY DEF Open, Goto, Of, Free, server, loops, gateway, history, Forget, IInv, Types,
               ProcsOK, Holding
    <2> QED
        BY <2>1, <2>2, LockTaken, LockingKept DEF IInv, Of, Unlocked
<1>5. Dialling'
    BY NotNone DEF Open, Goto, Of, Free, server, loops, gateway, history, Forget, IInv,
           Types, ProcsOK, ConnOK, Locking, Holding, Dialling, Afters
<1>6. Reconnecting'
    <2>1. ReconMove(p)
        BY NotNone DEF Open, Goto, Of, Free, server, loops, gateway, history, Forget, IInv,
               Types, ProcsOK, Reconnecting, ReconLabels, Outside, ReconMove
    <2>2. \A q \in Recon : q # p => pc'[q] = pc[q] /\ after'[q] = after[q]
        BY NotNone DEF Open, Goto, Of, Free, server, loops, gateway, history, Forget, IInv,
               Types, ProcsOK
    <2>3. UNCHANGED <<serves, reconnecting>>
        BY DEF Open, Goto, Of, Free, server, loops, gateway, history, Forget
    <2> QED  BY <2>1, <2>2, <2>3, ReconnectingKept DEF IInv
<1>7. Sources'
    <2>1. Made
        BY NotNone DEF Open, Goto, Of, Free, server, loops, gateway, history, Forget, IInv,
               Types, ProcsOK, ConnOK, ServerOK, LoopsOK, Made, conn, fields
    <2>2. Read
        BY NotNone DEF Open, Goto, Of, Free, server, loops, gateway, history, Forget, IInv,
               Types, ProcsOK, Afters, procs, Read
    <2> QED  BY <2>1, <2>2, SourcesKept
<1>8. Fields'
    BY NotNone DEF Open, Goto, Of, Free, server, loops, gateway, history, Forget, IInv,
           Types, ProcsOK, ConnOK, ServerOK, LoopsOK, Loop, Fields, Sockets, NothingLeft,
           ReadyHasSender
<1> QED
    BY <1>1, <1>2, <1>3, <1>4, <1>5, <1>6, <1>7, <1>8 DEF IInv, Types, MovesOK

LEMMA OpenGotSessionIDInv ==
    ASSUME IInv, NEW p \in Proc, OpenGotSessionID(p),
           moves' \in 0 .. MaxMoves
    PROVE  IInv'
<1>1. ConnOK'
    BY NotNone DEF OpenGotSessionID, Goto, Of, Free, server, loops, gateway, history,
           Forget, IInv, Types, ConnOK, ProcsOK
<1>2. ServerOK' /\ LoopsOK' /\ GatewayOK' /\ HistoryOK'
    BY Frames DEF OpenGotSessionID, Goto, Of, Free, server, loops, gateway, history, Forget
<1>3. ProcsOK'
    BY NotNone DEF OpenGotSessionID, Goto, Of, Free, server, loops, gateway, history,
           Forget, IInv, Types, ProcsOK, ConnOK, Afters
<1>4. Locking'
    <2>1. Alone(p) /\ pc[p] \notin Holding /\ Of(p) \in Voice /\ voice'[p] = Of(p)
        BY NotNone DEF OpenGotSessionID, Goto, Of, Free, server, loops, gateway, history,
               Forget, IInv, Types, ProcsOK, Alone, Holding
    <2>2. \/ pc'[p] \in Holding /\ lock[Of(p)] = None /\ lock' = [lock EXCEPT ![Of(p)] = p]
          \/ pc'[p] \notin Holding /\ UNCHANGED lock
        BY DEF OpenGotSessionID, Goto, Of, Free, server, loops, gateway, history, Forget,
               IInv, Types, ProcsOK, Holding
    <2> QED
        BY <2>1, <2>2, LockTaken, LockingKept DEF IInv, Of, Unlocked
<1>5. Dialling'
    BY NotNone DEF OpenGotSessionID, Goto, Of, Free, server, loops, gateway, history,
           Forget, IInv, Types, ProcsOK, ConnOK, Locking, Holding, Dialling, Afters
<1>6. Reconnecting'
    <2>1. ReconMove(p)
        BY NotNone DEF OpenGotSessionID, Goto, Of, Free, server, loops, gateway, history,
               Forget, IInv, Types, ProcsOK, Reconnecting, ReconLabels, Outside, ReconMove
    <2>2. \A q \in Recon : q # p => pc'[q] = pc[q] /\ after'[q] = after[q]
        BY NotNone DEF OpenGotSessionID, Goto, Of, Free, server, loops, gateway, history,
               Forget, IInv, Types, ProcsOK
    <2>3. UNCHANGED <<serves, reconnecting>>
        BY DEF OpenGotSessionID, Goto, Of, Free, server, loops, gateway, history, Forget
    <2> QED  BY <2>1, <2>2, <2>3, ReconnectingKept DEF IInv
<1>7. Sources'
    <2>1. Made
        BY NotNone DEF OpenGotSessionID, Goto, Of, Free, server, loops, gateway, history,
               Forget, IInv, Types, ProcsOK, ConnOK, ServerOK, LoopsOK, Made, conn, fields
    <2>2. Read
        BY NotNone DEF OpenGotSessionID, Goto, Of, Free, server, loops, gateway, history,
               Forget, IInv, Types, ProcsOK, Afters, procs, Read
    <2> QED  BY <2>1, <2>2, SourcesKept
<1>8. Fields'
    BY NotNone DEF OpenGotSessionID, Goto, Of, Free, server, loops, gateway, history,
           Forget, IInv, Types, ProcsOK, ConnOK, ServerOK, LoopsOK, Loop, Fields, Sockets,
           NothingLeft, ReadyHasSender
<1> QED
    BY <1>1, <1>2, <1>3, <1>4, <1>5, <1>6, <1>7, <1>8 DEF IInv, Types, MovesOK

LEMMA OpenGivesUpInv ==
    ASSUME IInv, NEW p \in Proc, OpenGivesUp(p),
           moves' \in 0 .. MaxMoves
    PROVE  IInv'
<1>1. ConnOK' /\ ServerOK' /\ LoopsOK' /\ GatewayOK' /\ HistoryOK'
    BY Frames DEF OpenGivesUp, Returns, Of, Free, conn, server, loops, gateway, history,
           fields
<1>2. ProcsOK'
    BY NotNone DEF OpenGivesUp, Returns, Of, Free, conn, server, loops, gateway, history,
           fields, IInv, Types, ProcsOK, ConnOK, Afters
<1>3. Unlocked(p) /\ UNCHANGED <<lock, ws, serves, reconnecting>>
    BY DEF OpenGivesUp, Returns, Of, Free, conn, server, loops, gateway, history, fields,
           IInv, Types, ProcsOK, ServerOK, GatewayOK, Afters, Holding, Alone, Unlocked
<1>4. Locking'
    BY <1>3, LockingKept DEF IInv
<1>5. pc'[p] # "identify" /\ (p \in Dial => pc[p] # "idle")
    BY <1>3, NotNone DEF OpenGivesUp, Returns, Of, Free, conn, server, loops, gateway,
           history, fields, Unlocked, Holding
<1>6. Dialling'
    BY <1>3, <1>5, DiallingKept DEF IInv, Unlocked
<1>7. ReconMove(p)
    BY NotNone DEF OpenGivesUp, Returns, Of, Free, conn, server, loops, gateway, history,
           fields, IInv, Types, ProcsOK, Reconnecting, ReconLabels, Outside, ReconMove
<1>8. Reconnecting'
    BY <1>3, <1>7, NotNone, ReconnectingKept DEF IInv, Unlocked, Alone
<1>9. Sources'
    <2>1. Made
        BY DEF OpenGivesUp, Returns, Of, Free, conn, server, loops, gateway, history,
               fields, Made
    <2>2. Read
        BY NotNone DEF OpenGivesUp, Returns, Of, Free, conn, server, loops, gateway,
               history, fields, IInv, Types, ProcsOK, Afters, procs, Read
    <2> QED  BY <2>1, <2>2, SourcesKept
<1>10. Fields'
    BY Frames DEF OpenGivesUp, Returns, Of, Free, conn, server, loops, gateway, history,
           fields, procs, Fields
<1> QED
    BY <1>1, <1>2, <1>4, <1>6, <1>8, <1>9, <1>10 DEF IInv, Types, MovesOK

LEMMA DialFailsInv ==
    ASSUME IInv, NEW p \in Proc, DialFails(p),
           moves' \in 0 .. MaxMoves
    PROVE  IInv'
<1>1. ConnOK'
    BY NotNone DEF DialFails, Returns, Of, server, loops, gateway, IInv, Types, ConnOK,
           ProcsOK
<1>2. HistoryOK'
    BY NotNone DEF DialFails, Returns, Of, server, loops, gateway, IInv, Types, HistoryOK,
           ConnOK, ProcsOK
<1>3. ServerOK' /\ LoopsOK' /\ GatewayOK'
    BY Frames DEF DialFails, Returns, Of, server, loops, gateway
<1>4. ProcsOK'
    BY NotNone DEF DialFails, Returns, Of, server, loops, gateway, IInv, Types, ProcsOK,
           ConnOK, Afters
<1>5. Locking'
    <2>1. /\ Alone(p) /\ pc[p] \in Holding /\ pc'[p] \notin Holding
          /\ Of(p) \in Voice /\ lock' = [lock EXCEPT ![Of(p)] = None]
        BY DEF DialFails, Returns, Of, server, loops, gateway, IInv, Types, ProcsOK, Alone,
               Holding, Afters, Of
    <2> QED  BY <2>1, LockGiven DEF IInv, Of
<1>6. Dialling'
    BY NotNone DEF DialFails, Returns, Of, server, loops, gateway, IInv, Types, ProcsOK,
           ConnOK, Locking, Holding, Dialling, Afters
<1>7. Reconnecting'
    BY NotNone DEF DialFails, Returns, Of, server, loops, gateway, IInv, Types, ProcsOK,
           ConnOK, Reconnecting, ReconLabels, Outside, Afters
<1>8. Sources'
    <2>1. Made
        BY NotNone DEF DialFails, Returns, Of, server, loops, gateway, IInv, Types,
               ProcsOK, ConnOK, ServerOK, LoopsOK, Made, conn, fields
    <2>2. Read
        BY NotNone DEF DialFails, Returns, Of, server, loops, gateway, IInv, Types,
               ProcsOK, Afters, procs, Read
    <2> QED  BY <2>1, <2>2, SourcesKept
<1>9. Fields'
    BY NotNone DEF DialFails, Returns, Of, server, loops, gateway, IInv, Types, ProcsOK,
           ConnOK, ServerOK, LoopsOK, Loop, Fields, Sockets, NothingLeft, ReadyHasSender
<1> QED
    BY <1>1, <1>2, <1>3, <1>4, <1>5, <1>6, <1>7, <1>8, <1>9 DEF IInv, Types, MovesOK

LEMMA DialSucceedsInv ==
    ASSUME IInv, NEW p \in Proc, DialSucceeds(p),
           moves' \in 0 .. MaxMoves
    PROVE  IInv'
<1>1. ConnOK'
    BY NotNone DEF DialSucceeds, Goto, Of, Used, loops, gateway, Forget, IInv, Types,
           ConnOK, ProcsOK
<1>2. ServerOK'
    BY NotNone DEF DialSucceeds, Goto, Of, Used, loops, gateway, Forget, IInv, Types,
           ServerOK, ConnOK, ProcsOK
<1>3. HistoryOK'
    BY NotNone DEF DialSucceeds, Goto, Of, Used, loops, gateway, Forget, IInv, Types,
           HistoryOK, ConnOK, ProcsOK
<1>4. LoopsOK' /\ GatewayOK'
    BY Frames DEF DialSucceeds, Goto, Of, Used, loops, gateway, Forget
<1>5. ProcsOK'
    BY NotNone DEF DialSucceeds, Goto, Of, Used, loops, gateway, Forget, IInv, Types,
           ProcsOK, ConnOK, Afters
<1>6. Locking'
    BY NotNone DEF DialSucceeds, Goto, Of, Used, loops, gateway, Forget, IInv, Types,
           ProcsOK, ConnOK, Locking, Holding, Afters
<1>7. Dialling'
    BY NotNone DEF DialSucceeds, Goto, Of, Used, loops, gateway, Forget, IInv, Types,
           ProcsOK, ConnOK, Locking, Holding, Dialling, Afters
<1>8. Reconnecting'
    <2>1. p \notin Recon
        BY DEF DialSucceeds, IInv, Reconnecting, ReconLabels
    <2>2. \A q \in Recon : pc'[q] = pc[q] /\ after'[q] = after[q]
        BY <2>1, NotNone DEF DialSucceeds, Goto, Of, Used, loops, gateway, Forget, IInv,
               Types, ProcsOK, ConnOK
    <2>3. UNCHANGED <<serves, reconnecting>>
        BY DEF DialSucceeds, Goto, Of, Used, loops, gateway, Forget
    <2> QED  BY <2>2, <2>3, ReconnectingKept DEF IInv
<1>9. Sources'
    <2>1. Made
        BY NotNone DEF DialSucceeds, Goto, Of, Used, loops, gateway, Forget, IInv, Types,
               ProcsOK, ConnOK, ServerOK, LoopsOK, Made, conn, fields, server
    <2>2. Read
        BY NotNone DEF DialSucceeds, Goto, Of, Used, loops, gateway, Forget, IInv, Types,
               ProcsOK, Afters, procs, Read
    <2> QED  BY <2>1, <2>2, SourcesKept
<1>10. Fields'
    <2>1. PICK d \in Dial :
            /\ ~Used(d)
            /\ owner' = [owner EXCEPT ![d] = Of(p)] /\ stopped' = [stopped EXCEPT ![d] = TRUE]
            /\ forgotten' = (forgotten \ {d}) \cup ({ws[Of(p)]} \ {None})
        BY DEF DialSucceeds
    <2>2. UNCHANGED <<udp, close, ready, sender>>
        BY DEF DialSucceeds, loops
    <2>3. Sockets'
        BY <2>2 DEF IInv, Fields, Sockets
    <2>4. NothingLeft'
        BY <2>1, <2>2 DEF IInv, Types, ServerOK, Fields, NothingLeft
    <2>5. sender[d].at = "none"
        BY <2>1 DEF Used
    <2>6. ReadyHasSender'
        BY <2>1, <2>2, <2>5 DEF IInv, Types, ServerOK, Fields, ReadyHasSender
    <2> QED  BY <2>3, <2>4, <2>6 DEF Fields
<1> QED
    BY <1>1, <1>2, <1>3, <1>4, <1>5, <1>6, <1>7, <1>8, <1>9, <1>10 DEF IInv, Types, MovesOK

LEMMA IdentifyFailsInv ==
    ASSUME IInv, NEW p \in Proc, IdentifyFails(p),
           moves' \in 0 .. MaxMoves
    PROVE  IInv'
<1>1. ConnOK'
    BY NotNone DEF IdentifyFails, Returns, Of, server, loops, gateway, history, IInv,
           Types, ConnOK, ProcsOK
<1>2. ServerOK' /\ LoopsOK' /\ GatewayOK' /\ HistoryOK'
    BY Frames DEF IdentifyFails, Returns, Of, server, loops, gateway, history
<1>3. ProcsOK'
    BY NotNone DEF IdentifyFails, Returns, Of, server, loops, gateway, history, IInv,
           Types, ProcsOK, ConnOK, Afters
<1>4. Locking'
    <2>1. /\ Alone(p) /\ pc[p] \in Holding /\ pc'[p] \notin Holding
          /\ Of(p) \in Voice /\ lock' = [lock EXCEPT ![Of(p)] = None]
        BY DEF IdentifyFails, Returns, Of, server, loops, gateway, history, IInv, Types,
               ProcsOK, Alone, Holding, Afters, Of
    <2> QED  BY <2>1, LockGiven DEF IInv, Of
<1>5. Dialling'
    BY NotNone DEF IdentifyFails, Returns, Of, server, loops, gateway, history, IInv,
           Types, ProcsOK, ConnOK, Locking, Holding, Dialling, Afters
<1>6. Reconnecting'
    BY NotNone DEF IdentifyFails, Returns, Of, server, loops, gateway, history, IInv,
           Types, ProcsOK, ConnOK, Reconnecting, ReconLabels, Outside, Afters
<1>7. Sources'
    <2>1. Made
        BY NotNone DEF IdentifyFails, Returns, Of, server, loops, gateway, history, IInv,
               Types, ProcsOK, ConnOK, ServerOK, LoopsOK, Made, conn, fields
    <2>2. Read
        BY NotNone DEF IdentifyFails, Returns, Of, server, loops, gateway, history, IInv,
               Types, ProcsOK, Afters, procs, Read
    <2> QED  BY <2>1, <2>2, SourcesKept
<1>8. Fields'
    BY NotNone DEF IdentifyFails, Returns, Of, server, loops, gateway, history, IInv,
           Types, ProcsOK, ConnOK, ServerOK, LoopsOK, Loop, Fields, Sockets, NothingLeft,
           ReadyHasSender
<1> QED
    BY <1>1, <1>2, <1>3, <1>4, <1>5, <1>6, <1>7, <1>8 DEF IInv, Types, MovesOK

LEMMA IdentifyInv ==
    ASSUME IInv, NEW p \in Proc, Identify(p),
           moves' \in 0 .. MaxMoves
    PROVE  IInv'
<1>1. ConnOK'
    BY NotNone DEF Identify, Of, loops, gateway, IInv, Types, ConnOK, ProcsOK
<1>2. ServerOK'
    BY NotNone DEF Identify, Of, loops, gateway, IInv, Types, ServerOK, ConnOK, ProcsOK
<1>3. HistoryOK'
    BY NotNone DEF Identify, Of, loops, gateway, IInv, Types, HistoryOK, ConnOK, ProcsOK
<1>4. LoopsOK' /\ GatewayOK'
    BY Frames DEF Identify, Of, loops, gateway
<1>5. ProcsOK'
    BY NotNone DEF Identify, Of, loops, gateway, IInv, Types, ProcsOK, ConnOK, Afters
<1>6. Locking'
    <2> DEFINE v == Of(p)
               d == ws[v]
    <2>1. /\ v \in Voice /\ d \in Dial /\ d \in Proc /\ pc[d] = "idle" /\ d # p
          /\ pc[p] = "identify" /\ voice[d] = None
        BY NotNone DEF Identify, Of, IInv, Types, ProcsOK, ConnOK, Dialling
    <2>2. /\ pc'[p] = after[p] /\ pc'[d] = "loop" /\ lock' = [lock EXCEPT ![v] = None]
          /\ \A q \in Proc : q # p /\ q # d => pc'[q] = pc[q] /\ voice'[q] = voice[q]
        BY <2>1 DEF Identify, Of, IInv, Types, ProcsOK
    <2>3. after[p] \notin Holding /\ "loop" \notin Holding /\ "identify" \in Holding /\ "idle" \notin Holding
        BY DEF IInv, Types, ProcsOK, Afters, Holding
    <2>4. lock[v] = p /\ lock'[v] = None /\ \A w \in Voice : w # v => lock'[w] = lock[w]
        BY <2>1, <2>2, <2>3 DEF IInv, Types, ConnOK, Locking, Of
    <2>5. ASSUME NEW w \in Voice, NEW q \in Proc
          PROVE  lock'[w] = q <=> pc'[q] \in Holding /\ voice'[q] = w
        <3>1. lock[w] = q <=> pc[q] \in Holding /\ voice[q] = w
            BY DEF IInv, Locking
        <3>2. CASE q = p \/ q = d
            <4>1. pc'[q] \notin Holding
                BY <2>2, <2>3, <3>2
            <4>2. lock'[w] # q
                <5>1. CASE w = v
                    BY <2>4, <5>1, NotNone
                <5>2. CASE w # v
                    BY <2>1, <2>3, <2>4, <3>1, <3>2, <5>2 DEF Of
                <5> QED  BY <5>1, <5>2
            <4> QED  BY <4>1, <4>2
        <3>3. CASE q # p /\ q # d
            <4>1. pc'[q] = pc[q] /\ voice'[q] = voice[q]
                BY <2>2, <3>3
            <4>2. CASE w = v
                BY <2>4, <3>1, <3>3, <4>1, <4>2, NotNone
            <4>3. CASE w # v
                BY <2>4, <3>1, <4>1, <4>3
            <4> QED  BY <4>2, <4>3
        <3> QED  BY <3>2, <3>3
    <2> QED  BY <2>5 DEF Locking
<1>7. Dialling'
    BY NotNone DEF Identify, Of, loops, gateway, IInv, Types, ProcsOK, ConnOK, Locking,
           Holding, Dialling, Afters
<1>8. Reconnecting'
    <2>1. /\ p \notin Recon /\ ws[Of(p)] \notin Recon
        <3>1. pc[p] = "identify" /\ "identify" \notin ReconLabels
            BY DEF Identify, ReconLabels
        <3>2. p \notin Recon
            BY <3>1 DEF IInv, Reconnecting
        <3>3. voice[p] \in Voice
            BY <3>1 DEF IInv, Types, ProcsOK
        <3>4. ws[voice[p]] \in Dial
            BY <3>1, <3>3 DEF IInv, Types, ConnOK, Dialling
        <3> QED  BY <3>2, <3>4, NotNone DEF Of
    <2>2. /\ pc' = [pc EXCEPT ![p] = after[p], ![ws[Of(p)]] = "loop"]
          /\ after' = [after EXCEPT ![p] = "idle"]
          /\ UNCHANGED <<serves, reconnecting>>
        BY DEF Identify
    <2>3. \A r \in Recon : pc'[r] = pc[r] /\ after'[r] = after[r]
        BY <2>1, <2>2, NotNone DEF IInv, Types, ProcsOK
    <2> QED  BY <2>2, <2>3, ReconnectingKept DEF IInv
<1>9. Sources'
    <2>1. Made
        BY NotNone DEF Identify, Of, loops, gateway, IInv, Types, ProcsOK, ConnOK,
               ServerOK, LoopsOK, Made, conn, fields, server
    <2>2. Read
        BY NotNone DEF Identify, Of, loops, gateway, IInv, Types, ProcsOK, Afters, procs,
               Read
    <2> QED  BY <2>1, <2>2, SourcesKept
<1>10. Fields'
    <2>1. /\ Of(p) \in Voice /\ ws[Of(p)] \in Dial
          /\ close' = [close EXCEPT ![Of(p)] = ws[Of(p)]]
          /\ stopped' = [stopped EXCEPT ![ws[Of(p)]] = FALSE]
          /\ forgotten' = forgotten \cup ({close[Of(p)]} \ {None})
          /\ UNCHANGED <<udp, ready, owner, sender>>
        BY DEF Identify, Of, IInv, Types, ProcsOK, ConnOK, Dialling, loops
    <2>2. Sockets'
        BY <2>1, NotNone DEF IInv, Types, ConnOK, Fields, Sockets
    <2>3. NothingLeft'
        <3>1. ASSUME NEW x \in Dial, ~stopped'[x]
              PROVE  x \in forgotten' \/ \E v \in Voice : close'[v] = x
            <4>1. CASE x = ws[Of(p)]
                BY <2>1, <4>1 DEF IInv, Types, ConnOK
            <4>2. CASE x # ws[Of(p)]
                <5>1. ~stopped[x]
                    BY <2>1, <3>1, <4>2 DEF IInv, Types, ServerOK
                <5>2. x \in forgotten \/ \E v \in Voice : close[v] = x
                    BY <5>1 DEF IInv, Fields, NothingLeft
                <5> QED  BY <2>1, <5>2, NotNone DEF IInv, Types, ConnOK
            <4> QED  BY <4>1, <4>2
        <3> QED  BY <3>1 DEF NothingLeft
    <2>4. ReadyHasSender'
        BY <2>1 DEF IInv, Fields, ReadyHasSender
    <2> QED  BY <2>2, <2>3, <2>4 DEF Fields
<1> QED
    BY <1>1, <1>2, <1>3, <1>4, <1>5, <1>6, <1>7, <1>8, <1>9, <1>10 DEF IInv, Types, MovesOK

-----------------------------------------------------------------------------
(* The steps of wsListen. *)

LEMMA ListenLoopInv ==
    ASSUME IInv, NEW d \in Dial, ListenLoop(d),
           moves' \in 0 .. MaxMoves
    PROVE  IInv'
<1>1. d \in Proc
    BY NotNone
<1>2. HistoryOK'
    BY <1>1, NotNone DEF ListenLoop, Of, Crash, conn, server, loops, gateway, history,
           procs, fields, IInv, Types, HistoryOK, ConnOK, ProcsOK
<1>3. ConnOK' /\ ServerOK' /\ LoopsOK' /\ GatewayOK'
    BY Frames DEF ListenLoop, Of, Crash, conn, server, loops, gateway, history, procs,
           fields
<1>4. ProcsOK'
    BY <1>1, NotNone DEF ListenLoop, Of, Crash, conn, server, loops, gateway, history,
           procs, fields, IInv, Types, ProcsOK, ConnOK, Afters
<1>5. Unlocked(d) /\ UNCHANGED <<lock, ws, serves, reconnecting>>
    BY <1>1 DEF ListenLoop, Of, Crash, conn, server, loops, gateway, history, procs,
           fields, IInv, Types, ProcsOK, ServerOK, GatewayOK, Afters, Holding, Alone,
           Unlocked
<1>6. Locking'
    BY <1>1, <1>5, LockingKept DEF IInv
<1>7. pc'[d] # "identify" /\ (d \in Dial => pc[d] # "idle")
    BY <1>1, <1>5, NotNone DEF ListenLoop, Of, Crash, conn, server, loops, gateway,
           history, procs, fields, Unlocked, Holding
<1>8. Dialling'
    BY <1>1, <1>5, <1>7, DiallingKept DEF IInv, Unlocked
<1>9. ReconMove(d)
    BY <1>1, NotNone DEF ListenLoop, Of, Crash, conn, server, loops, gateway, history,
           procs, fields, IInv, Types, ProcsOK, Reconnecting, ReconLabels, Outside,
           ReconMove
<1>10. Reconnecting'
    BY <1>1, <1>5, <1>9, NotNone, ReconnectingKept DEF IInv, Unlocked, Alone
<1>11. Sources'
    <2> DEFINE v == Of(d)
    <2>1. CASE ws[v] = None
        <3>1. Made /\ Read
            BY <2>1 DEF ListenLoop, Crash, Made, Read, conn, fields, server, procs, loops
        <3> QED  BY <3>1, SourcesKept
    <2>2. CASE ws[v] # None
        <3>1. v \in Voice /\ ws[v] \in Dial /\ owner[ws[v]] # None
            BY <1>1, <2>2 DEF ListenLoop, Of, IInv, Types, ProcsOK, ConnOK, Sources
        <3>2. /\ reading' = [reading EXCEPT ![d] = ws[v]] /\ pc' = [pc EXCEPT ![d] = "read"]
              /\ UNCHANGED <<ws, owner, receiver>>
            BY <2>2 DEF ListenLoop, conn, fields, server, loops
        <3>3. \A x \in Dial : x # d => reading'[x] = reading[x] /\ pc'[x] = pc[x]
            BY <3>2, NotNone DEF IInv, Types, ProcsOK
        <3>4. reading'[d] = ws[v]
            BY <3>2 DEF IInv, Types, ProcsOK
        <3> QED  BY <2>2, <3>1, <3>2, <3>3, <3>4 DEF IInv, Sources
    <2> QED  BY <2>1, <2>2
<1>12. Fields'
    BY <1>1, NotNone DEF ListenLoop, Of, Crash, conn, server, loops, gateway, history,
           procs, fields, IInv, Types, ProcsOK, ConnOK, ServerOK, LoopsOK, Loop, Fields,
           Sockets, NothingLeft, ReadyHasSender
<1> QED
    BY <1>2, <1>3, <1>4, <1>6, <1>8, <1>10, <1>11, <1>12 DEF IInv, Types, MovesOK

LEMMA SelectInv ==
    ASSUME IInv, NEW d \in Dial, Select(d),
           moves' \in 0 .. MaxMoves
    PROVE  IInv'
<1>1. d \in Proc
    BY NotNone
<1>2. ServerOK'
    BY <1>1, NotNone DEF Select, Goto, conn, loops, gateway, history, Forget, fields, IInv,
           Types, ServerOK, ConnOK, ProcsOK
<1>3. ConnOK' /\ LoopsOK' /\ GatewayOK' /\ HistoryOK'
    BY Frames DEF Select, Goto, conn, loops, gateway, history, Forget, fields
<1>4. ProcsOK'
    BY <1>1, NotNone DEF Select, Goto, conn, loops, gateway, history, Forget, fields, IInv,
           Types, ProcsOK, ConnOK, Afters
<1>5. Unlocked(d) /\ UNCHANGED <<lock, ws, serves, reconnecting>>
    <2>1. reading[d] \in Dial
        BY DEF Select, IInv, Types, ProcsOK, Sources
    <2>2. pc'[d] \in {"idle", "loop", "hello", "ready"} /\ pc[d] = "read"
        BY <1>1, <2>1 DEF Select, Goto, IInv, Types, ProcsOK, ServerOK
    <2>3. Alone(d) /\ UNCHANGED <<lock, ws, serves, reconnecting>>
        BY <1>1 DEF Select, Goto, conn, fields, IInv, Types, ProcsOK, Alone
    <2> QED  BY <2>2, <2>3 DEF Unlocked, Holding
<1>6. Locking'
    BY <1>1, <1>5, LockingKept DEF IInv
<1>7. pc'[d] # "identify" /\ (d \in Dial => pc[d] # "idle")
    BY <1>1, <1>5, NotNone DEF Select, Goto, conn, loops, gateway, history, Forget, fields,
           Unlocked, Holding
<1>8. Dialling'
    BY <1>1, <1>5, <1>7, DiallingKept DEF IInv, Unlocked
<1>9. ReconMove(d)
    BY <1>1, NotNone DEF Select, Goto, conn, loops, gateway, history, Forget, fields, IInv,
           Types, ProcsOK, Reconnecting, ReconLabels, Outside, ReconMove
<1>10. Reconnecting'
    BY <1>1, <1>5, <1>9, NotNone, ReconnectingKept DEF IInv, Unlocked, Alone
<1>11. Sources'
    <2>1. Made
        BY DEF Select, conn, fields, loops, Made
    <2>2. reading[d] \in Dial
        BY DEF Select, IInv, Types, ProcsOK, Sources
    <2>3. pc'[d] \in {"idle", "loop", "hello", "ready"}
        BY <1>1, <2>2 DEF Select, Goto, IInv, Types, ProcsOK, ServerOK
    <2>4. \A x \in Dial : x # d => pc'[x] = pc[x]
        BY NotNone DEF Select, Goto, IInv, Types, ProcsOK
    <2>5. \A x \in Dial : reading'[x] = reading[x] \/ (x = d /\ reading'[x] = None)
        BY DEF Select, Goto, Forget, IInv, Types, ProcsOK
    <2> QED  BY <2>1, <2>3, <2>4, <2>5, SourcesKept DEF Read
<1>12. Fields'
    BY <1>1, NotNone DEF Select, Goto, conn, loops, gateway, history, Forget, fields, IInv,
           Types, ProcsOK, ConnOK, ServerOK, LoopsOK, Loop, Fields, Sockets, NothingLeft,
           ReadyHasSender
<1> QED
    BY <1>2, <1>3, <1>4, <1>6, <1>8, <1>10, <1>11, <1>12 DEF IInv, Types, MovesOK

LEMMA OnHelloInv ==
    ASSUME IInv, NEW d \in Dial, OnHello(d),
           moves' \in 0 .. MaxMoves
    PROVE  IInv'
<1>1. d \in Proc
    BY NotNone
<1>2. ConnOK'
    BY <1>1, NotNone DEF OnHello, Goto, Of, Free, server, gateway, history, Forget, IInv,
           Types, ConnOK, ProcsOK
<1>3. LoopsOK'
    BY <1>1, NotNone DEF OnHello, Goto, Of, Free, server, gateway, history, Forget, IInv,
           Types, LoopsOK, ConnOK, ProcsOK, Loop
<1>4. ServerOK' /\ GatewayOK' /\ HistoryOK'
    BY Frames DEF OnHello, Goto, Of, Free, server, gateway, history, Forget
<1>5. ProcsOK'
    BY <1>1, NotNone DEF OnHello, Goto, Of, Free, server, gateway, history, Forget, IInv,
           Types, ProcsOK, ConnOK, Afters
<1>6. Unlocked(d) /\ UNCHANGED <<lock, ws, serves, reconnecting>>
    BY <1>1 DEF OnHello, Goto, Of, Free, server, gateway, history, Forget, IInv, Types,
           ProcsOK, ServerOK, GatewayOK, Afters, Holding, Alone, Unlocked
<1>7. Locking'
    BY <1>1, <1>6, LockingKept DEF IInv
<1>8. pc'[d] # "identify" /\ (d \in Dial => pc[d] # "idle")
    BY <1>1, <1>6, NotNone DEF OnHello, Goto, Of, Free, server, gateway, history, Forget,
           Unlocked, Holding
<1>9. Dialling'
    BY <1>1, <1>6, <1>8, DiallingKept DEF IInv, Unlocked
<1>10. ReconMove(d)
    BY <1>1, NotNone DEF OnHello, Goto, Of, Free, server, gateway, history, Forget, IInv,
           Types, ProcsOK, Reconnecting, ReconLabels, Outside, ReconMove
<1>11. Reconnecting'
    BY <1>1, <1>6, <1>10, NotNone, ReconnectingKept DEF IInv, Unlocked, Alone
<1>12. Sources'
    <2>1. Made
        BY <1>1, NotNone DEF OnHello, Goto, Of, Free, server, gateway, history, Forget,
               IInv, Types, ProcsOK, ConnOK, ServerOK, LoopsOK, Made, conn, fields, loops
    <2>2. Read
        BY <1>1, NotNone DEF OnHello, Goto, Of, Free, server, gateway, history, Forget,
               IInv, Types, ProcsOK, Afters, procs, Read
    <2> QED  BY <2>1, <2>2, SourcesKept
<1>13. Fields'
    BY <1>1, NotNone DEF OnHello, Goto, Of, Free, server, gateway, history, Forget, IInv,
           Types, ProcsOK, ConnOK, ServerOK, LoopsOK, Loop, Fields, Sockets, NothingLeft,
           ReadyHasSender
<1> QED
    BY <1>2, <1>3, <1>4, <1>5, <1>7, <1>9, <1>11, <1>12, <1>13 DEF IInv, Types, MovesOK

LEMMA UdpOpenInv ==
    ASSUME IInv, NEW d \in Dial, UdpOpen(d),
           moves' \in 0 .. MaxMoves
    PROVE  IInv'
<1>1. d \in Proc
    BY NotNone
<1>2. ConnOK'
    BY <1>1, NotNone DEF UdpOpen, Goto, Of, Free, server, loops, gateway, history, Forget,
           IInv, Types, ConnOK, ProcsOK
<1>3. ServerOK' /\ LoopsOK' /\ GatewayOK' /\ HistoryOK'
    BY Frames DEF UdpOpen, Goto, Of, Free, server, loops, gateway, history, Forget
<1>4. ProcsOK'
    BY <1>1, NotNone DEF UdpOpen, Goto, Of, Free, server, loops, gateway, history, Forget,
           IInv, Types, ProcsOK, ConnOK, Afters
<1>5. Unlocked(d) /\ UNCHANGED <<lock, ws, serves, reconnecting>>
    BY <1>1 DEF UdpOpen, Goto, Of, Free, server, loops, gateway, history, Forget, IInv,
           Types, ProcsOK, ServerOK, GatewayOK, Afters, Holding, Alone, Unlocked
<1>6. Locking'
    BY <1>1, <1>5, LockingKept DEF IInv
<1>7. pc'[d] # "identify" /\ (d \in Dial => pc[d] # "idle")
    BY <1>1, <1>5, NotNone DEF UdpOpen, Goto, Of, Free, server, loops, gateway, history,
           Forget, Unlocked, Holding
<1>8. Dialling'
    BY <1>1, <1>5, <1>7, DiallingKept DEF IInv, Unlocked
<1>9. ReconMove(d)
    BY <1>1, NotNone DEF UdpOpen, Goto, Of, Free, server, loops, gateway, history, Forget,
           IInv, Types, ProcsOK, Reconnecting, ReconLabels, Outside, ReconMove
<1>10. Reconnecting'
    BY <1>1, <1>5, <1>9, NotNone, ReconnectingKept DEF IInv, Unlocked, Alone
<1>11. Sources'
    <2>1. Made
        BY <1>1, NotNone DEF UdpOpen, Goto, Of, Free, server, loops, gateway, history,
               Forget, IInv, Types, ProcsOK, ConnOK, ServerOK, LoopsOK, Made, conn, fields
    <2>2. Read
        BY <1>1, NotNone DEF UdpOpen, Goto, Of, Free, server, loops, gateway, history,
               Forget, IInv, Types, ProcsOK, Afters, procs, Read
    <2> QED  BY <2>1, <2>2, SourcesKept
<1>12. Fields'
    BY <1>1, NotNone DEF UdpOpen, Goto, Of, Free, server, loops, gateway, history, Forget,
           IInv, Types, ProcsOK, ConnOK, ServerOK, LoopsOK, Loop, Fields, Sockets,
           NothingLeft, ReadyHasSender
<1> QED
    BY <1>2, <1>3, <1>4, <1>6, <1>8, <1>10, <1>11, <1>12 DEF IInv, Types, MovesOK

LEMMA UdpOpenRefusedInv ==
    ASSUME IInv, NEW d \in Dial, UdpOpenRefused(d),
           moves' \in 0 .. MaxMoves
    PROVE  IInv'
<1>1. d \in Proc
    BY NotNone
<1>2. ConnOK' /\ ServerOK' /\ LoopsOK' /\ GatewayOK' /\ HistoryOK'
    BY Frames DEF UdpOpenRefused, Goto, Of, Free, conn, server, loops, gateway, history,
           Forget, fields
<1>3. ProcsOK'
    BY <1>1, NotNone DEF UdpOpenRefused, Goto, Of, Free, conn, server, loops, gateway,
           history, Forget, fields, IInv, Types, ProcsOK, ConnOK, Afters
<1>4. Unlocked(d) /\ UNCHANGED <<lock, ws, serves, reconnecting>>
    BY <1>1 DEF UdpOpenRefused, Goto, Of, Free, conn, server, loops, gateway, history,
           Forget, fields, IInv, Types, ProcsOK, ServerOK, GatewayOK, Afters, Holding,
           Alone, Unlocked
<1>5. Locking'
    BY <1>1, <1>4, LockingKept DEF IInv
<1>6. pc'[d] # "identify" /\ (d \in Dial => pc[d] # "idle")
    BY <1>1, <1>4, NotNone DEF UdpOpenRefused, Goto, Of, Free, conn, server, loops,
           gateway, history, Forget, fields, Unlocked, Holding
<1>7. Dialling'
    BY <1>1, <1>4, <1>6, DiallingKept DEF IInv, Unlocked
<1>8. ReconMove(d)
    BY <1>1, NotNone DEF UdpOpenRefused, Goto, Of, Free, conn, server, loops, gateway,
           history, Forget, fields, IInv, Types, ProcsOK, Reconnecting, ReconLabels,
           Outside, ReconMove
<1>9. Reconnecting'
    BY <1>1, <1>4, <1>8, NotNone, ReconnectingKept DEF IInv, Unlocked, Alone
<1>10. Sources'
    <2>1. Made
        BY DEF UdpOpenRefused, Goto, Of, Free, conn, server, loops, gateway, history,
               Forget, fields, Made
    <2>2. Read
        BY <1>1, NotNone DEF UdpOpenRefused, Goto, Of, Free, conn, server, loops, gateway,
               history, Forget, fields, IInv, Types, ProcsOK, Afters, procs, Read
    <2> QED  BY <2>1, <2>2, SourcesKept
<1>11. Fields'
    BY Frames DEF UdpOpenRefused, Goto, Of, Free, conn, server, loops, gateway, history,
           Forget, fields, procs, Fields
<1> QED
    BY <1>2, <1>3, <1>5, <1>7, <1>9, <1>10, <1>11 DEF IInv, Types, MovesOK

LEMMA UdpOpenFailsInv ==
    ASSUME IInv, NEW d \in Dial, UdpOpenFails(d),
           moves' \in 0 .. MaxMoves
    PROVE  IInv'
<1>1. d \in Proc
    BY NotNone
<1>2. ConnOK'
    BY <1>1, NotNone DEF UdpOpenFails, Goto, Of, Free, server, loops, gateway, history,
           Forget, IInv, Types, ConnOK, ProcsOK
<1>3. ServerOK' /\ LoopsOK' /\ GatewayOK' /\ HistoryOK'
    BY Frames DEF UdpOpenFails, Goto, Of, Free, server, loops, gateway, history, Forget
<1>4. ProcsOK'
    BY <1>1, NotNone DEF UdpOpenFails, Goto, Of, Free, server, loops, gateway, history,
           Forget, IInv, Types, ProcsOK, ConnOK, Afters
<1>5. Unlocked(d) /\ UNCHANGED <<lock, ws, serves, reconnecting>>
    BY <1>1 DEF UdpOpenFails, Goto, Of, Free, server, loops, gateway, history, Forget,
           IInv, Types, ProcsOK, ServerOK, GatewayOK, Afters, Holding, Alone, Unlocked
<1>6. Locking'
    BY <1>1, <1>5, LockingKept DEF IInv
<1>7. pc'[d] # "identify" /\ (d \in Dial => pc[d] # "idle")
    BY <1>1, <1>5, NotNone DEF UdpOpenFails, Goto, Of, Free, server, loops, gateway,
           history, Forget, Unlocked, Holding
<1>8. Dialling'
    BY <1>1, <1>5, <1>7, DiallingKept DEF IInv, Unlocked
<1>9. ReconMove(d)
    BY <1>1, NotNone DEF UdpOpenFails, Goto, Of, Free, server, loops, gateway, history,
           Forget, IInv, Types, ProcsOK, Reconnecting, ReconLabels, Outside, ReconMove
<1>10. Reconnecting'
    BY <1>1, <1>5, <1>9, NotNone, ReconnectingKept DEF IInv, Unlocked, Alone
<1>11. Sources'
    <2>1. Made
        BY <1>1, NotNone DEF UdpOpenFails, Goto, Of, Free, server, loops, gateway, history,
               Forget, IInv, Types, ProcsOK, ConnOK, ServerOK, LoopsOK, Made, conn, fields
    <2>2. Read
        BY <1>1, NotNone DEF UdpOpenFails, Goto, Of, Free, server, loops, gateway, history,
               Forget, IInv, Types, ProcsOK, Afters, procs, Read
    <2> QED  BY <2>1, <2>2, SourcesKept
<1>12. Fields'
    BY <1>1, NotNone DEF UdpOpenFails, Goto, Of, Free, server, loops, gateway, history,
           Forget, IInv, Types, ProcsOK, ConnOK, ServerOK, LoopsOK, Loop, Fields, Sockets,
           NothingLeft, ReadyHasSender
<1> QED
    BY <1>2, <1>3, <1>4, <1>6, <1>8, <1>10, <1>11, <1>12 DEF IInv, Types, MovesOK

LEMMA LaunchOpusInv ==
    ASSUME IInv, NEW d \in Dial, LaunchOpus(d),
           moves' \in 0 .. MaxMoves
    PROVE  IInv'
<1>1. d \in Proc
    BY NotNone
<1>2. LoopsOK'
    <2>1. udp[Of(d)] \in Dial \cup {None} /\ close[Of(d)] \in Dial \cup {None}
        BY <1>1 DEF LaunchOpus, Of, IInv, Types, ProcsOK, ConnOK
    <2>2. \A l \in {"start", "run"}, at \in {{"none", "start", "run", "stop"}, {"none", "run"}} :
            l \in at => [at |-> l, udp |-> udp[Of(d)], stop |-> close[Of(d)]] \in Loop(at)
        BY <2>1 DEF Loop
    <2>3. sender' \in [Dial -> Loop({"none", "start", "run", "stop"})]
        BY <2>2 DEF LaunchOpus, IInv, Types, LoopsOK
    <2>4. receiver' \in [Dial -> Loop({"none", "run"})]
        BY <2>2 DEF LaunchOpus, IInv, Types, LoopsOK
    <2> QED  BY <2>3, <2>4 DEF LaunchOpus, IInv, Types, LoopsOK
<1>3. ConnOK' /\ ServerOK' /\ GatewayOK' /\ HistoryOK'
    BY Frames DEF LaunchOpus, Goto, Of, conn, server, gateway, history, Forget, fields
<1>4. ProcsOK'
    BY <1>1, NotNone DEF LaunchOpus, Goto, Of, conn, server, gateway, history, Forget,
           fields, IInv, Types, ProcsOK, ConnOK, Afters
<1>5. Unlocked(d) /\ UNCHANGED <<lock, ws, serves, reconnecting>>
    BY <1>1 DEF LaunchOpus, Goto, Of, conn, server, gateway, history, Forget, fields, IInv,
           Types, ProcsOK, ServerOK, GatewayOK, Afters, Holding, Alone, Unlocked
<1>6. Locking'
    BY <1>1, <1>5, LockingKept DEF IInv
<1>7. pc'[d] # "identify" /\ (d \in Dial => pc[d] # "idle")
    BY <1>1, <1>5, NotNone DEF LaunchOpus, Goto, Of, conn, server, gateway, history,
           Forget, fields, Unlocked, Holding
<1>8. Dialling'
    BY <1>1, <1>5, <1>7, DiallingKept DEF IInv, Unlocked
<1>9. ReconMove(d)
    BY <1>1, NotNone DEF LaunchOpus, Goto, Of, conn, server, gateway, history, Forget,
           fields, IInv, Types, ProcsOK, Reconnecting, ReconLabels, Outside, ReconMove
<1>10. Reconnecting'
    BY <1>1, <1>5, <1>9, NotNone, ReconnectingKept DEF IInv, Unlocked, Alone
<1>11. Sources'
    <2>1. \A x \in Dial : x # reading[d] => receiver'[x] = receiver[x]
        BY DEF LaunchOpus, IInv, Types, LoopsOK
    <2>2. reading[d] # None => owner[reading[d]] # None
        BY DEF IInv, Sources
    <2>3. Made
        BY <2>1, <2>2, NotNone DEF LaunchOpus, conn, fields, server, Made
    <2>4. Read
        BY <1>1, NotNone DEF LaunchOpus, Goto, Forget, IInv, Types, ProcsOK, Read
    <2> QED  BY <2>3, <2>4, SourcesKept
<1>12. Fields'
    BY <1>1, NotNone DEF LaunchOpus, Goto, Of, conn, server, gateway, history, Forget,
           fields, IInv, Types, ProcsOK, ConnOK, ServerOK, LoopsOK, Loop, Fields, Sockets,
           NothingLeft, ReadyHasSender
<1> QED
    BY <1>2, <1>3, <1>4, <1>6, <1>8, <1>10, <1>11, <1>12 DEF IInv, Types, MovesOK

LEMMA ReadMovedInv ==
    ASSUME IInv, NEW d \in Dial, ReadMoved(d),
           moves' \in 0 .. MaxMoves
    PROVE  IInv'
<1>1. d \in Proc
    BY NotNone
<1>2. ConnOK' /\ ServerOK' /\ LoopsOK' /\ GatewayOK' /\ HistoryOK'
    BY Frames DEF ReadMoved, Goto, Of, Free, conn, server, loops, gateway, history,
           Forget, fields
<1>3. ProcsOK'
    BY <1>1, NotNone DEF ReadMoved, Goto, Of, Free, conn, server, loops, gateway,
           history, Forget, fields, IInv, Types, ProcsOK, ConnOK, Afters
<1>4. Unlocked(d) /\ UNCHANGED <<lock, ws, serves, reconnecting>>
    BY <1>1 DEF ReadMoved, Goto, Of, Free, conn, server, loops, gateway, history,
           Forget, fields, IInv, Types, ProcsOK, ServerOK, GatewayOK, Afters, Holding,
           Alone, Unlocked
<1>5. Locking'
    BY <1>1, <1>4, LockingKept DEF IInv
<1>6. pc'[d] # "identify" /\ (d \in Dial => pc[d] # "idle")
    BY <1>1, <1>4, NotNone DEF ReadMoved, Goto, Of, Free, conn, server, loops,
           gateway, history, Forget, fields, Unlocked, Holding
<1>7. Dialling'
    BY <1>1, <1>4, <1>6, DiallingKept DEF IInv, Unlocked
<1>8. ReconMove(d)
    BY <1>1, NotNone DEF ReadMoved, Goto, Of, Free, conn, server, loops, gateway,
           history, Forget, fields, IInv, Types, ProcsOK, Reconnecting, ReconLabels,
           Outside, ReconMove
<1>9. Reconnecting'
    BY <1>1, <1>4, <1>8, NotNone, ReconnectingKept DEF IInv, Unlocked, Alone
<1>10. Sources'
    <2>1. Made
        BY DEF ReadMoved, Goto, Of, Free, conn, server, loops, gateway, history,
               Forget, fields, Made
    <2>2. Read
        BY <1>1, NotNone DEF ReadMoved, Goto, Of, Free, conn, server, loops, gateway,
               history, Forget, fields, IInv, Types, ProcsOK, Afters, procs, Read
    <2> QED  BY <2>1, <2>2, SourcesKept
<1>11. Fields'
    BY Frames DEF ReadMoved, Goto, Of, Free, conn, server, loops, gateway, history,
           Forget, fields, procs, Fields
<1> QED
    BY <1>2, <1>3, <1>5, <1>7, <1>9, <1>10, <1>11 DEF IInv, Types, MovesOK

LEMMA AbandonInv ==
    ASSUME IInv, NEW d \in Dial, Abandon(d),
           moves' \in 0 .. MaxMoves
    PROVE  IInv'
<1>1. d \in Proc
    BY NotNone
<1>2. ConnOK'
    BY <1>1, NotNone DEF Abandon, Goto, Of, Free, server, loops, gateway, history,
           Forget, IInv, Types, ConnOK, ProcsOK
<1>3. ServerOK' /\ LoopsOK' /\ GatewayOK' /\ HistoryOK'
    BY Frames DEF Abandon, Goto, Of, Free, server, loops, gateway, history, Forget
<1>4. ProcsOK'
    BY <1>1, NotNone DEF Abandon, Goto, Of, Free, server, loops, gateway, history,
           Forget, IInv, Types, ProcsOK, ConnOK, Afters
<1>5. Locking'
    BY <1>1, NotNone DEF Abandon, Goto, Of, Free, server, loops, gateway, history,
           Forget, IInv, Types, ProcsOK, ConnOK, Locking, Holding, Afters
<1>6. Dialling'
    <2>1. /\ Of(d) \in Voice /\ lock[Of(d)] = None /\ ws' = [ws EXCEPT ![Of(d)] = None]
          /\ pc[d] = "moved" /\ pc' = [pc EXCEPT ![d] = "wait"] /\ voice' = voice
        BY <1>1 DEF Abandon, Goto, Free, Of, IInv, Types, ProcsOK
    <2>2. ASSUME NEW q \in Proc, pc'[q] = "identify"
          PROVE  ws'[voice'[q]] # None /\ pc'[ws'[voice'[q]]] = "idle"
        <3>1. pc[q] = "identify" /\ voice[q] \in Voice /\ voice'[q] = voice[q]
            BY <2>1, <2>2 DEF IInv, Types, ProcsOK
        <3>2. lock[voice[q]] = q
            BY <3>1 DEF IInv, Locking, Holding
        <3>3. voice[q] # Of(d)
            BY <2>1, <3>2, NotNone
        <3>4. ws'[voice[q]] = ws[voice[q]] /\ ws[voice[q]] # None /\ pc[ws[voice[q]]] = "idle"
            BY <2>1, <3>1, <3>3 DEF IInv, Types, ConnOK, Dialling
        <3>5. ws[voice[q]] \in Proc
            BY <3>1, <3>4, NotNone DEF IInv, Types, ConnOK
        <3> QED  BY <2>1, <3>1, <3>4, <3>5 DEF IInv, Types, ProcsOK
    <2>3. \A v, w \in Voice : ws'[v] # None /\ ws'[v] = ws'[w] => v = w
        BY <2>1 DEF IInv, Types, ConnOK, Dialling
    <2> QED  BY <2>2, <2>3 DEF Dialling
<1>7. Reconnecting'
    <2>1. \A q \in Recon : pc'[q] = pc[q] /\ after'[q] = after[q]
        BY NotNone DEF Abandon, Goto, IInv, Types, ProcsOK
    <2>2. UNCHANGED <<serves, reconnecting>>
        BY DEF Abandon, Goto
    <2> QED  BY <2>1, <2>2, ReconnectingKept DEF IInv
<1>8. Sources'
    <2>1. Made
        BY <1>1, NotNone DEF Abandon, Goto, Of, Free, server, loops, gateway, history,
               Forget, IInv, Types, ProcsOK, ConnOK, ServerOK, LoopsOK, Made, conn, fields
    <2>2. Read
        BY <1>1, NotNone DEF Abandon, Goto, Of, Free, server, loops, gateway, history,
               Forget, IInv, Types, ProcsOK, Afters, procs, Read
    <2> QED  BY <2>1, <2>2, SourcesKept
<1>9. Fields'
    BY <1>1, NotNone DEF Abandon, Goto, Of, Free, server, loops, gateway, history,
           Forget, IInv, Types, ProcsOK, ConnOK, ServerOK, LoopsOK, Loop, Fields, Sockets,
           NothingLeft, ReadyHasSender
<1> QED
    BY <1>2, <1>3, <1>4, <1>5, <1>6, <1>7, <1>8, <1>9 DEF IInv, Types, MovesOK

LEMMA ReadRefusedInv ==
    ASSUME IInv, NEW d \in Dial, ReadRefused(d),
           moves' \in 0 .. MaxMoves
    PROVE  IInv'
<1>1. d \in Proc
    BY NotNone
<1>2. ConnOK' /\ ServerOK' /\ LoopsOK' /\ GatewayOK' /\ HistoryOK'
    BY Frames DEF ReadRefused, Invoke, conn, server, loops, gateway, history, Forget,
           fields
<1>3. ProcsOK'
    BY <1>1, NotNone DEF ReadRefused, Invoke, conn, server, loops, gateway, history,
           Forget, fields, IInv, Types, ProcsOK, ConnOK, Afters
<1>4. Unlocked(d) /\ UNCHANGED <<lock, ws, serves, reconnecting>>
    BY <1>1 DEF ReadRefused, Invoke, conn, server, loops, gateway, history, Forget, fields,
           IInv, Types, ProcsOK, ServerOK, GatewayOK, Afters, Holding, Alone, Unlocked
<1>5. Locking'
    BY <1>1, <1>4, LockingKept DEF IInv
<1>6. pc'[d] # "identify" /\ (d \in Dial => pc[d] # "idle")
    BY <1>1, <1>4, NotNone DEF ReadRefused, Invoke, conn, server, loops, gateway, history,
           Forget, fields, Unlocked, Holding
<1>7. Dialling'
    BY <1>1, <1>4, <1>6, DiallingKept DEF IInv, Unlocked
<1>8. ReconMove(d)
    BY <1>1, NotNone DEF ReadRefused, Invoke, conn, server, loops, gateway, history,
           Forget, fields, IInv, Types, ProcsOK, Reconnecting, ReconLabels, Outside,
           ReconMove
<1>9. Reconnecting'
    BY <1>1, <1>4, <1>8, NotNone, ReconnectingKept DEF IInv, Unlocked, Alone
<1>10. Sources'
    <2>1. Made
        BY DEF ReadRefused, Invoke, conn, server, loops, gateway, history, Forget, fields,
               Made
    <2>2. Read
        BY <1>1, NotNone DEF ReadRefused, Invoke, conn, server, loops, gateway, history,
               Forget, fields, IInv, Types, ProcsOK, Afters, procs, Read
    <2> QED  BY <2>1, <2>2, SourcesKept
<1>11. Fields'
    BY Frames DEF ReadRefused, Invoke, conn, server, loops, gateway, history, Forget,
           fields, procs, Fields
<1> QED
    BY <1>2, <1>3, <1>5, <1>7, <1>9, <1>10, <1>11 DEF IInv, Types, MovesOK

LEMMA ReadErrorInv ==
    ASSUME IInv, NEW d \in Dial, ReadError(d),
           moves' \in 0 .. MaxMoves
    PROVE  IInv'
<1>1. d \in Proc
    BY NotNone
<1>2. ConnOK' /\ ServerOK' /\ LoopsOK' /\ GatewayOK' /\ HistoryOK'
    BY Frames DEF ReadError, Goto, Of, Free, LaunchReconnect, conn, server, loops, gateway,
           history, Forget, fields
<1>3. ProcsOK'
    BY <1>1, NotNone DEF ReadError, Goto, Of, Free, LaunchReconnect, conn, server, loops,
           gateway, history, Forget, fields, IInv, Types, ProcsOK, ConnOK, Afters
<1>4. Locking'
    BY <1>1, NotNone DEF ReadError, Goto, Of, Free, LaunchReconnect, conn, server, loops,
           gateway, history, Forget, fields, IInv, Types, ProcsOK, ConnOK, Locking,
           Holding, Afters
<1>5. Dialling'
    BY <1>1, NotNone DEF ReadError, Goto, Of, Free, LaunchReconnect, conn, server, loops,
           gateway, history, Forget, fields, IInv, Types, ProcsOK, ConnOK, Locking,
           Holding, Dialling, Afters
<1>6. Reconnecting'
    <2>1. UNCHANGED <<serves, reconnecting>>
        BY DEF ReadError, Goto, Of, Free, LaunchReconnect, conn, server, loops, gateway,
               history, Forget, fields
    <2>2. ASSUME NEW r \in Recon
          PROVE  (pc'[r] = pc[r] /\ after'[r] = after[r]) \/ ReconMove(r)
        <3>1. (pc'[r] = pc[r] /\ after'[r] = after[r]) \/ (pc[r] = "idle" /\ pc'[r] = "reconnect")
            BY NotNone DEF ReadError, Goto, Of, Free, LaunchReconnect, conn, server, loops,
                   gateway, history, Forget, fields, IInv, Types, ProcsOK
        <3> QED  BY <3>1 DEF ReconMove, ReconLabels, Outside
    <2> QED  BY <2>1, <2>2, ReconnectingKept DEF IInv
<1>7. Sources'
    <2>1. Made
        BY DEF ReadError, Goto, Of, Free, LaunchReconnect, conn, server, loops, gateway,
               history, Forget, fields, Made
    <2>2. Read
        BY <1>1, NotNone DEF ReadError, Goto, Of, Free, LaunchReconnect, conn, server,
               loops, gateway, history, Forget, fields, IInv, Types, ProcsOK, Afters,
               procs, Read
    <2> QED  BY <2>1, <2>2, SourcesKept
<1>8. Fields'
    BY Frames DEF ReadError, Goto, Of, Free, LaunchReconnect, conn, server, loops, gateway,
           history, Forget, fields, procs, Fields
<1> QED
    BY <1>2, <1>3, <1>4, <1>5, <1>6, <1>7, <1>8 DEF IInv, Types, MovesOK

LEMMA ReconnectedInv ==
    ASSUME IInv, NEW d \in Dial, Reconnected(d),
           moves' \in 0 .. MaxMoves
    PROVE  IInv'
<1>1. d \in Proc
    BY NotNone
<1>2. ConnOK' /\ ServerOK' /\ LoopsOK' /\ GatewayOK' /\ HistoryOK'
    BY Frames DEF Reconnected, Goto, Of, Free, conn, server, loops, gateway, history,
           Forget, fields
<1>3. ProcsOK'
    BY <1>1, NotNone DEF Reconnected, Goto, Of, Free, conn, server, loops, gateway,
           history, Forget, fields, IInv, Types, ProcsOK, ConnOK, Afters
<1>4. Unlocked(d) /\ UNCHANGED <<lock, ws, serves, reconnecting>>
    BY <1>1 DEF Reconnected, Goto, Of, Free, conn, server, loops, gateway, history, Forget,
           fields, IInv, Types, ProcsOK, ServerOK, GatewayOK, Afters, Holding, Alone,
           Unlocked
<1>5. Locking'
    BY <1>1, <1>4, LockingKept DEF IInv
<1>6. pc'[d] # "identify" /\ (d \in Dial => pc[d] # "idle")
    BY <1>1, <1>4, NotNone DEF Reconnected, Goto, Of, Free, conn, server, loops, gateway,
           history, Forget, fields, Unlocked, Holding
<1>7. Dialling'
    BY <1>1, <1>4, <1>6, DiallingKept DEF IInv, Unlocked
<1>8. ReconMove(d)
    BY <1>1, NotNone DEF Reconnected, Goto, Of, Free, conn, server, loops, gateway,
           history, Forget, fields, IInv, Types, ProcsOK, Reconnecting, ReconLabels,
           Outside, ReconMove
<1>9. Reconnecting'
    BY <1>1, <1>4, <1>8, NotNone, ReconnectingKept DEF IInv, Unlocked, Alone
<1>10. Sources'
    <2>1. Made
        BY DEF Reconnected, Goto, Of, Free, conn, server, loops, gateway, history, Forget,
               fields, Made
    <2>2. Read
        BY <1>1, NotNone DEF Reconnected, Goto, Of, Free, conn, server, loops, gateway,
               history, Forget, fields, IInv, Types, ProcsOK, Afters, procs, Read
    <2> QED  BY <2>1, <2>2, SourcesKept
<1>11. Fields'
    BY Frames DEF Reconnected, Goto, Of, Free, conn, server, loops, gateway, history,
           Forget, fields, procs, Fields
<1> QED
    BY <1>2, <1>3, <1>5, <1>7, <1>9, <1>10, <1>11 DEF IInv, Types, MovesOK

LEMMA NotReconnectedInv ==
    ASSUME IInv, NEW d \in Dial, NotReconnected(d),
           moves' \in 0 .. MaxMoves
    PROVE  IInv'
<1>1. d \in Proc
    BY NotNone
<1>2. ConnOK' /\ ServerOK' /\ LoopsOK' /\ GatewayOK' /\ HistoryOK'
    BY Frames DEF NotReconnected, Goto, Of, Free, conn, server, loops, gateway, history,
           Forget, fields
<1>3. ProcsOK'
    BY <1>1, NotNone DEF NotReconnected, Goto, Of, Free, conn, server, loops, gateway,
           history, Forget, fields, IInv, Types, ProcsOK, ConnOK, Afters
<1>4. Unlocked(d) /\ UNCHANGED <<lock, ws, serves, reconnecting>>
    BY <1>1 DEF NotReconnected, Goto, Of, Free, conn, server, loops, gateway, history,
           Forget, fields, IInv, Types, ProcsOK, ServerOK, GatewayOK, Afters, Holding,
           Alone, Unlocked
<1>5. Locking'
    BY <1>1, <1>4, LockingKept DEF IInv
<1>6. pc'[d] # "identify" /\ (d \in Dial => pc[d] # "idle")
    BY <1>1, <1>4, NotNone DEF NotReconnected, Goto, Of, Free, conn, server, loops,
           gateway, history, Forget, fields, Unlocked, Holding
<1>7. Dialling'
    BY <1>1, <1>4, <1>6, DiallingKept DEF IInv, Unlocked
<1>8. ReconMove(d)
    BY <1>1, NotNone DEF NotReconnected, Goto, Of, Free, conn, server, loops, gateway,
           history, Forget, fields, IInv, Types, ProcsOK, Reconnecting, ReconLabels,
           Outside, ReconMove
<1>9. Reconnecting'
    BY <1>1, <1>4, <1>8, NotNone, ReconnectingKept DEF IInv, Unlocked, Alone
<1>10. Sources'
    <2>1. Made
        BY DEF NotReconnected, Goto, Of, Free, conn, server, loops, gateway, history,
               Forget, fields, Made
    <2>2. Read
        BY <1>1, NotNone DEF NotReconnected, Goto, Of, Free, conn, server, loops, gateway,
               history, Forget, fields, IInv, Types, ProcsOK, Afters, procs, Read
    <2> QED  BY <2>1, <2>2, SourcesKept
<1>11. Fields'
    BY Frames DEF NotReconnected, Goto, Of, Free, conn, server, loops, gateway, history,
           Forget, fields, procs, Fields
<1> QED
    BY <1>2, <1>3, <1>5, <1>7, <1>9, <1>10, <1>11 DEF IInv, Types, MovesOK

LEMMA DeleteInv ==
    ASSUME IInv, NEW p \in Proc, Delete(p),
           moves' \in 0 .. MaxMoves
    PROVE  IInv'
<1>1. ConnOK'
    BY NotNone DEF Delete, Goto, Invoke, fields, server, loops, gateway, history, Forget,
           IInv, Types, ConnOK, ProcsOK
<1>2. ServerOK' /\ LoopsOK' /\ GatewayOK' /\ HistoryOK'
    BY Frames DEF Delete, Goto, Invoke, fields, server, loops, gateway, history, Forget
<1>3. ProcsOK'
    BY NotNone DEF Delete, Goto, Invoke, fields, server, loops, gateway, history, Forget,
           IInv, Types, ProcsOK, ConnOK, Afters
<1>4. Unlocked(p) /\ UNCHANGED <<lock, ws, serves, reconnecting>>
    BY DEF Delete, Goto, Invoke, fields, server, loops, gateway, history, Forget, IInv,
           Types, ProcsOK, ServerOK, GatewayOK, Afters, Holding, Alone, Unlocked
<1>5. Locking'
    BY <1>4, LockingKept DEF IInv
<1>6. pc'[p] # "identify" /\ (p \in Dial => pc[p] # "idle")
    BY <1>4, NotNone DEF Delete, Goto, Invoke, fields, server, loops, gateway, history,
           Forget, Unlocked, Holding
<1>7. Dialling'
    BY <1>4, <1>6, DiallingKept DEF IInv, Unlocked
<1>8. ReconMove(p)
    BY NotNone DEF Delete, Goto, Invoke, fields, server, loops, gateway, history, Forget,
           IInv, Types, ProcsOK, Reconnecting, ReconLabels, Outside, ReconMove
<1>9. Reconnecting'
    BY <1>4, <1>8, NotNone, ReconnectingKept DEF IInv, Unlocked, Alone
<1>10. Sources'
    <2>1. Made
        BY NotNone DEF Delete, Goto, Invoke, fields, server, loops, gateway, history,
               Forget, IInv, Types, ProcsOK, ConnOK, ServerOK, LoopsOK, Made, conn
    <2>2. Read
        BY NotNone DEF Delete, Goto, Invoke, fields, server, loops, gateway, history,
               Forget, IInv, Types, ProcsOK, Afters, procs, Read
    <2> QED  BY <2>1, <2>2, SourcesKept
<1>11. Fields'
    BY NotNone DEF Delete, Goto, Invoke, fields, server, loops, gateway, history, Forget,
           IInv, Types, ProcsOK, ConnOK, ServerOK, LoopsOK, Loop, Fields, Sockets,
           NothingLeft, ReadyHasSender
<1> QED
    BY <1>1, <1>2, <1>3, <1>5, <1>7, <1>9, <1>10, <1>11 DEF IInv, Types, MovesOK

-----------------------------------------------------------------------------
(* The other goroutines of a Dial. *)

LEMMA BeatInv ==
    ASSUME IInv, NEW d \in Dial, Beat(d),
           moves' \in 0 .. MaxMoves
    PROVE  IInv'
<1>1. d \in Proc
    BY NotNone
<1>2. LoopsOK'
    BY <1>1, NotNone DEF Beat, conn, server, procs, gateway, history, fields, IInv, Types,
           LoopsOK, ConnOK, ProcsOK, Loop
<1>3. ConnOK' /\ ServerOK' /\ GatewayOK' /\ HistoryOK'
    BY Frames DEF Beat, conn, server, procs, gateway, history, fields
<1>4. ProcsOK' /\ Locking' /\ Dialling' /\ Reconnecting'
    BY ProcsKept DEF Beat, conn, server, procs, gateway, history, fields
<1>5. Sources'
    <2>1. Made
        BY <1>1, NotNone DEF Beat, conn, server, procs, gateway, history, fields, IInv,
               Types, ProcsOK, ConnOK, ServerOK, LoopsOK, Made, loops
    <2>2. Read
        BY <1>1, NotNone DEF Beat, conn, server, procs, gateway, history, fields, IInv,
               Types, ProcsOK, Afters, Read
    <2> QED  BY <2>1, <2>2, SourcesKept
<1>6. Fields'
    BY <1>1, NotNone DEF Beat, conn, server, procs, gateway, history, fields, IInv, Types,
           ProcsOK, ConnOK, ServerOK, LoopsOK, Loop, Fields, Sockets, NothingLeft,
           ReadyHasSender
<1> QED
    BY <1>2, <1>3, <1>4, <1>5, <1>6 DEF IInv, Types, MovesOK

LEMMA SenderStartsInv ==
    ASSUME IInv, NEW d \in Dial, SenderStarts(d),
           moves' \in 0 .. MaxMoves
    PROVE  IInv'
<1>1. d \in Proc
    BY NotNone
<1>2. ConnOK'
    BY <1>1, NotNone DEF SenderStarts, SetReady, Free, Idle, server, procs, gateway,
           history, IInv, Types, ConnOK, ProcsOK
<1>3. LoopsOK'
    <2>1. sender' = [sender EXCEPT ![d] = [@ EXCEPT !.at = "run"]] /\ UNCHANGED <<beat, receiver>>
        BY DEF SenderStarts, SetReady
    <2>2. sender' \in [Dial -> Loop({"none", "start", "run", "stop"})]
        BY <2>1 DEF IInv, Types, LoopsOK, Loop
    <2> QED  BY <2>1, <2>2 DEF IInv, Types, LoopsOK
<1>4. ServerOK' /\ GatewayOK' /\ HistoryOK'
    BY Frames DEF SenderStarts, SetReady, Free, Idle, server, procs, gateway, history
<1>5. ProcsOK' /\ Locking' /\ Dialling' /\ Reconnecting'
    BY ProcsKept DEF SenderStarts, SetReady, Free, Idle, server, procs, gateway, history
<1>6. Sources'
    <2>1. Made
        BY <1>1, NotNone DEF SenderStarts, SetReady, Free, Idle, server, procs, gateway,
               history, IInv, Types, ProcsOK, ConnOK, ServerOK, LoopsOK, Made, conn,
               fields, loops
    <2>2. Read
        BY <1>1, NotNone DEF SenderStarts, SetReady, Free, Idle, server, procs, gateway,
               history, IInv, Types, ProcsOK, Afters, Read
    <2> QED  BY <2>1, <2>2, SourcesKept
<1>7. Fields'
    BY <1>1, NotNone DEF SenderStarts, SetReady, Free, Idle, server, procs, gateway,
           history, IInv, Types, ProcsOK, ConnOK, ServerOK, LoopsOK, Loop, Fields, Sockets,
           NothingLeft, ReadyHasSender
<1> QED
    BY <1>2, <1>3, <1>4, <1>5, <1>6, <1>7 DEF IInv, Types, MovesOK

LEMMA SenderEndsInv ==
    ASSUME IInv, NEW d \in Dial, SenderEnds(d),
           moves' \in 0 .. MaxMoves
    PROVE  IInv'
<1>1. d \in Proc
    BY NotNone
<1>2. ConnOK'
    BY <1>1, NotNone DEF SenderEnds, SetReady, Free, Idle, server, procs, gateway, history,
           IInv, Types, ConnOK, ProcsOK
<1>3. LoopsOK'
    BY <1>1, NotNone DEF SenderEnds, SetReady, Free, Idle, server, procs, gateway, history,
           IInv, Types, LoopsOK, ConnOK, ProcsOK, Loop
<1>4. ServerOK' /\ GatewayOK' /\ HistoryOK'
    BY Frames DEF SenderEnds, SetReady, Free, Idle, server, procs, gateway, history
<1>5. ProcsOK' /\ Locking' /\ Dialling' /\ Reconnecting'
    BY ProcsKept DEF SenderEnds, SetReady, Free, Idle, server, procs, gateway, history
<1>6. Sources'
    <2>1. Made
        BY <1>1, NotNone DEF SenderEnds, SetReady, Free, Idle, server, procs, gateway,
               history, IInv, Types, ProcsOK, ConnOK, ServerOK, LoopsOK, Made, conn,
               fields, loops
    <2>2. Read
        BY <1>1, NotNone DEF SenderEnds, SetReady, Free, Idle, server, procs, gateway,
               history, IInv, Types, ProcsOK, Afters, Read
    <2> QED  BY <2>1, <2>2, SourcesKept
<1>7. Fields'
    BY <1>1, NotNone DEF SenderEnds, SetReady, Free, Idle, server, procs, gateway, history,
           IInv, Types, ProcsOK, ConnOK, ServerOK, LoopsOK, Loop, Fields, Sockets,
           NothingLeft, ReadyHasSender
<1> QED
    BY <1>2, <1>3, <1>4, <1>5, <1>6, <1>7 DEF IInv, Types, MovesOK

LEMMA SenderStopsInv ==
    ASSUME IInv, NEW d \in Dial, SenderStops(d),
           moves' \in 0 .. MaxMoves
    PROVE  IInv'
<1>1. d \in Proc
    BY NotNone
<1>2. LoopsOK'
    <2>1. sender' = [sender EXCEPT ![d].at = "stop"] /\ UNCHANGED <<beat, receiver>>
        BY DEF SenderStops, SenderReturns
    <2>2. sender' \in [Dial -> Loop({"none", "start", "run", "stop"})]
        BY <2>1 DEF IInv, Types, LoopsOK, Loop
    <2> QED  BY <2>1, <2>2 DEF IInv, Types, LoopsOK
<1>3. ConnOK' /\ ServerOK' /\ GatewayOK' /\ HistoryOK'
    BY Frames DEF SenderStops, SenderReturns, conn, server, procs, gateway, history, fields
<1>4. ProcsOK' /\ Locking' /\ Dialling' /\ Reconnecting'
    BY ProcsKept DEF SenderStops, SenderReturns, conn, server, procs, gateway, history,
           fields
<1>5. Sources'
    <2>1. Made
        BY <1>1, NotNone DEF SenderStops, SenderReturns, conn, server, procs, gateway,
               history, fields, IInv, Types, ProcsOK, ConnOK, ServerOK, LoopsOK, Made,
               loops
    <2>2. Read
        BY <1>1, NotNone DEF SenderStops, SenderReturns, conn, server, procs, gateway,
               history, fields, IInv, Types, ProcsOK, Afters, Read
    <2> QED  BY <2>1, <2>2, SourcesKept
<1>6. Fields'
    BY <1>1, NotNone DEF SenderStops, SenderReturns, conn, server, procs, gateway, history,
           fields, IInv, Types, ProcsOK, ConnOK, ServerOK, LoopsOK, Loop, Fields, Sockets,
           NothingLeft, ReadyHasSender
<1> QED
    BY <1>2, <1>3, <1>4, <1>5, <1>6 DEF IInv, Types, MovesOK

LEMMA SenderFailsInv ==
    ASSUME IInv, NEW d \in Dial, SenderFails(d),
           moves' \in 0 .. MaxMoves
    PROVE  IInv'
<1>1. d \in Proc
    BY NotNone
<1>2. LoopsOK'
    BY <1>1, NotNone DEF SenderFails, SenderReturns, conn, server, procs, gateway, history,
           fields, IInv, Types, LoopsOK, ConnOK, ProcsOK, Loop
<1>3. ConnOK' /\ ServerOK' /\ GatewayOK' /\ HistoryOK'
    BY Frames DEF SenderFails, SenderReturns, conn, server, procs, gateway, history, fields
<1>4. ProcsOK' /\ Locking' /\ Dialling' /\ Reconnecting'
    BY ProcsKept DEF SenderFails, SenderReturns, conn, server, procs, gateway, history,
           fields
<1>5. Sources'
    <2>1. Made
        BY <1>1, NotNone DEF SenderFails, SenderReturns, conn, server, procs, gateway,
               history, fields, IInv, Types, ProcsOK, ConnOK, ServerOK, LoopsOK, Made,
               loops
    <2>2. Read
        BY <1>1, NotNone DEF SenderFails, SenderReturns, conn, server, procs, gateway,
               history, fields, IInv, Types, ProcsOK, Afters, Read
    <2> QED  BY <2>1, <2>2, SourcesKept
<1>6. Fields'
    BY <1>1, NotNone DEF SenderFails, SenderReturns, conn, server, procs, gateway, history,
           fields, IInv, Types, ProcsOK, ConnOK, ServerOK, LoopsOK, Loop, Fields, Sockets,
           NothingLeft, ReadyHasSender
<1> QED
    BY <1>2, <1>3, <1>4, <1>5, <1>6 DEF IInv, Types, MovesOK

LEMMA ReceiverClosedInv ==
    ASSUME IInv, NEW d \in Dial, ReceiverClosed(d),
           moves' \in 0 .. MaxMoves
    PROVE  IInv'
<1>1. d \in Proc
    BY NotNone
<1>2. LoopsOK'
    BY <1>1, NotNone DEF ReceiverClosed, Free, Idle, conn, server, procs, gateway, history,
           fields, IInv, Types, LoopsOK, ConnOK, ProcsOK, Loop
<1>3. ConnOK' /\ ServerOK' /\ GatewayOK' /\ HistoryOK'
    BY Frames DEF ReceiverClosed, Free, Idle, conn, server, procs, gateway, history, fields
<1>4. ProcsOK' /\ Locking' /\ Dialling' /\ Reconnecting'
    BY ProcsKept DEF ReceiverClosed, Free, Idle, conn, server, procs, gateway, history,
           fields
<1>5. Sources'
    <2>1. Made
        BY <1>1, NotNone DEF ReceiverClosed, Free, Idle, conn, server, procs, gateway,
               history, fields, IInv, Types, ProcsOK, ConnOK, ServerOK, LoopsOK, Made,
               loops
    <2>2. Read
        BY <1>1, NotNone DEF ReceiverClosed, Free, Idle, conn, server, procs, gateway,
               history, fields, IInv, Types, ProcsOK, Afters, Read
    <2> QED  BY <2>1, <2>2, SourcesKept
<1>6. Fields'
    BY <1>1, NotNone DEF ReceiverClosed, Free, Idle, conn, server, procs, gateway, history,
           fields, IInv, Types, ProcsOK, ConnOK, ServerOK, LoopsOK, Loop, Fields, Sockets,
           NothingLeft, ReadyHasSender
<1> QED
    BY <1>2, <1>3, <1>4, <1>5, <1>6 DEF IInv, Types, MovesOK

LEMMA ReceiverFailsInv ==
    ASSUME IInv, NEW d \in Dial, ReceiverFails(d),
           moves' \in 0 .. MaxMoves
    PROVE  IInv'
<1>1. d \in Proc
    BY NotNone
<1>2. LoopsOK'
    BY <1>1, NotNone DEF ReceiverFails, Start, Free, Idle, conn, server, gateway, history,
           fields, IInv, Types, LoopsOK, ConnOK, ProcsOK, Loop
<1>3. ConnOK' /\ ServerOK' /\ GatewayOK' /\ HistoryOK'
    BY Frames DEF ReceiverFails, Start, Free, Idle, conn, server, gateway, history, fields
<1>4. ProcsOK'
    <2>1. PICK r \in Recon : Start(r, owner[d], "reconnect")
        BY DEF ReceiverFails
    <2>2. owner[d] \in Voice
        BY DEF ReceiverFails, IInv, Types, ServerOK, Sources
    <2> QED  BY <2>1, <2>2, NotNone DEF Start, IInv, Types, ProcsOK
<1>5. Locking'
    BY <1>1, NotNone DEF ReceiverFails, Start, Free, Idle, conn, server, gateway, history,
           fields, IInv, Types, ProcsOK, ConnOK, Locking, Holding, Afters
<1>6. Dialling'
    BY <1>1, NotNone DEF ReceiverFails, Start, Free, Idle, conn, server, gateway, history,
           fields, IInv, Types, ProcsOK, ConnOK, Locking, Holding, Dialling, Afters
<1>7. Reconnecting'
    <2>1. UNCHANGED <<serves, reconnecting>>
        BY DEF ReceiverFails, Start, Free, Idle, conn, server, gateway, history, fields
    <2>2. ASSUME NEW r \in Recon
          PROVE  (pc'[r] = pc[r] /\ after'[r] = after[r]) \/ ReconMove(r)
        <3>1. (pc'[r] = pc[r] /\ after'[r] = after[r]) \/ (pc[r] = "idle" /\ pc'[r] = "reconnect")
            BY NotNone DEF ReceiverFails, Start, Free, Idle, conn, server, gateway,
                   history, fields, IInv, Types, ProcsOK
        <3> QED  BY <3>1 DEF ReconMove, ReconLabels, Outside
    <2> QED  BY <2>1, <2>2, ReconnectingKept DEF IInv
<1>8. Sources'
    <2>1. Made
        BY <1>1, NotNone DEF ReceiverFails, Start, Free, Idle, conn, server, gateway,
               history, fields, IInv, Types, ProcsOK, ConnOK, ServerOK, LoopsOK, Made,
               loops
    <2>2. Read
        BY <1>1, NotNone DEF ReceiverFails, Start, Free, Idle, conn, server, gateway,
               history, fields, IInv, Types, ProcsOK, Afters, procs, Read
    <2> QED  BY <2>1, <2>2, SourcesKept
<1>9. Fields'
    BY <1>1, NotNone DEF ReceiverFails, Start, Free, Idle, conn, server, gateway, history,
           fields, IInv, Types, ProcsOK, ConnOK, ServerOK, LoopsOK, Loop, Fields, Sockets,
           NothingLeft, ReadyHasSender
<1> QED
    BY <1>2, <1>3, <1>4, <1>5, <1>6, <1>7, <1>8, <1>9 DEF IInv, Types, MovesOK

LEMMA ReceiverStopsInv ==
    ASSUME IInv, NEW d \in Dial, ReceiverStops(d),
           moves' \in 0 .. MaxMoves
    PROVE  IInv'
<1>1. d \in Proc
    BY NotNone
<1>2. LoopsOK'
    BY <1>1, NotNone DEF ReceiverStops, Idle, conn, server, procs, gateway, history,
           fields, IInv, Types, LoopsOK, ConnOK, ProcsOK, Loop
<1>3. ConnOK' /\ ServerOK' /\ GatewayOK' /\ HistoryOK'
    BY Frames DEF ReceiverStops, Idle, conn, server, procs, gateway, history, fields
<1>4. ProcsOK' /\ Locking' /\ Dialling' /\ Reconnecting'
    BY ProcsKept DEF ReceiverStops, Idle, conn, server, procs, gateway, history, fields
<1>5. Sources'
    <2>1. Made
        BY <1>1, NotNone DEF ReceiverStops, Idle, conn, server, procs, gateway, history,
               fields, IInv, Types, ProcsOK, ConnOK, ServerOK, LoopsOK, Made, loops
    <2>2. Read
        BY <1>1, NotNone DEF ReceiverStops, Idle, conn, server, procs, gateway, history,
               fields, IInv, Types, ProcsOK, Afters, Read
    <2> QED  BY <2>1, <2>2, SourcesKept
<1>6. Fields'
    BY <1>1, NotNone DEF ReceiverStops, Idle, conn, server, procs, gateway, history,
           fields, IInv, Types, ProcsOK, ConnOK, ServerOK, LoopsOK, Loop, Fields, Sockets,
           NothingLeft, ReadyHasSender
<1> QED
    BY <1>2, <1>3, <1>4, <1>5, <1>6 DEF IInv, Types, MovesOK

-----------------------------------------------------------------------------
(* ChannelVoiceJoin, Disconnect and reconnect. *)

LEMMA ChannelVoiceJoinInv ==
    ASSUME IInv, NEW p \in Proc,
           pc[p] = "pause" \/ (pc[p] = "idle" /\ p \in App), ChannelVoiceJoin(p),
           moves' \in 0 .. MaxMoves
    PROVE  IInv'
<1>1. ConnOK'
    BY NotNone DEF ChannelVoiceJoin, Spare, server, loops, gateway, history, IInv, Types,
           ConnOK, ProcsOK
<1>2. ServerOK' /\ LoopsOK' /\ GatewayOK' /\ HistoryOK'
    BY Frames DEF ChannelVoiceJoin, Spare, server, loops, gateway, history
<1>3. ProcsOK'
    BY NotNone DEF ChannelVoiceJoin, Spare, server, loops, gateway, history, IInv, Types,
           ProcsOK, ConnOK, Afters
<1>4. Unlocked(p) /\ UNCHANGED <<lock, ws, serves, reconnecting>>
    BY DEF ChannelVoiceJoin, Spare, server, loops, gateway, history, IInv, Types, ProcsOK,
           ServerOK, GatewayOK, Afters, Holding, Alone, Unlocked
<1>5. Locking'
    BY <1>4, LockingKept DEF IInv
<1>6. pc'[p] # "identify" /\ (p \in Dial => pc[p] # "idle")
    BY <1>4, NotNone DEF ChannelVoiceJoin, Spare, server, loops, gateway, history,
           Unlocked, Holding
<1>7. Dialling'
    BY <1>4, <1>6, DiallingKept DEF IInv, Unlocked
<1>8. ReconMove(p)
    BY NotNone DEF ChannelVoiceJoin, Spare, server, loops, gateway, history, IInv, Types,
           ProcsOK, Reconnecting, ReconLabels, Outside, ReconMove
<1>9. Reconnecting'
    BY <1>4, <1>8, NotNone, ReconnectingKept DEF IInv, Unlocked, Alone
<1>10. Sources'
    <2>1. Made
        BY NotNone DEF ChannelVoiceJoin, Spare, server, loops, gateway, history, IInv,
               Types, ProcsOK, ConnOK, ServerOK, LoopsOK, Made, conn, fields
    <2>2. Read
        BY NotNone DEF ChannelVoiceJoin, Spare, server, loops, gateway, history, IInv,
               Types, ProcsOK, Afters, procs, Read
    <2> QED  BY <2>1, <2>2, SourcesKept
<1>11. Fields'
    BY NotNone DEF ChannelVoiceJoin, Spare, server, loops, gateway, history, IInv, Types,
           ProcsOK, ConnOK, ServerOK, LoopsOK, Loop, Fields, Sockets, NothingLeft,
           ReadyHasSender
<1> QED
    BY <1>1, <1>2, <1>3, <1>5, <1>7, <1>9, <1>10, <1>11 DEF IInv, Types, MovesOK

LEMMA InsertInv ==
    ASSUME IInv, NEW p \in Proc, Insert(p),
           moves' \in 0 .. MaxMoves
    PROVE  IInv'
<1>0. ConnOK'
    BY DEF Insert, Goto, Of, fields, IInv, Types, ConnOK, ProcsOK
<1>1. ServerOK' /\ LoopsOK' /\ GatewayOK' /\ HistoryOK'
    BY Frames DEF Insert, Goto, Of, Free, conn, server, loops, gateway, history, Forget,
           fields
<1>2. ProcsOK'
    BY NotNone DEF Insert, Goto, Of, Free, conn, server, loops, gateway, history,
           Forget, fields, IInv, Types, ProcsOK, ConnOK, Afters
<1>3. Unlocked(p) /\ UNCHANGED <<lock, ws, serves, reconnecting>>
    BY DEF Insert, Goto, Of, Free, conn, server, loops, gateway, history, Forget,
           fields, IInv, Types, ProcsOK, ServerOK, GatewayOK, Afters, Holding, Alone,
           Unlocked
<1>4. Locking'
    BY <1>3, LockingKept DEF IInv
<1>5. pc'[p] # "identify" /\ (p \in Dial => pc[p] # "idle")
    BY <1>3, NotNone DEF Insert, Goto, Of, Free, conn, server, loops, gateway, history,
           Forget, fields, Unlocked, Holding
<1>6. Dialling'
    BY <1>3, <1>5, DiallingKept DEF IInv, Unlocked
<1>7. ReconMove(p)
    BY NotNone DEF Insert, Goto, Of, Free, conn, server, loops, gateway, history,
           Forget, fields, IInv, Types, ProcsOK, Reconnecting, ReconLabels, Outside,
           ReconMove
<1>8. Reconnecting'
    BY <1>3, <1>7, NotNone, ReconnectingKept DEF IInv, Unlocked, Alone
<1>9. Sources'
    <2>1. Made
        BY DEF Insert, Goto, Of, Free, conn, server, loops, gateway, history, Forget,
               fields, Made
    <2>2. Read
        BY NotNone DEF Insert, Goto, Of, Free, conn, server, loops, gateway, history,
               Forget, fields, IInv, Types, ProcsOK, Afters, procs, Read
    <2> QED  BY <2>1, <2>2, SourcesKept
<1>10. Fields'
    BY Frames DEF Insert, Goto, Of, Free, conn, server, loops, gateway, history, Forget,
           fields, procs, Fields
<1> QED
    BY <1>0, <1>1, <1>2, <1>4, <1>6, <1>8, <1>9, <1>10 DEF IInv, Types, MovesOK

LEMMA AskInv ==
    ASSUME IInv, NEW p \in Proc, Ask(p),
           moves' \in 0 .. MaxMoves
    PROVE  IInv'
<1>1. GatewayOK'
    BY NotNone DEF Ask, Goto, Of, Free, Crash, Joins, conn, server, loops, history, Forget,
           procs, gateway, fields, IInv, Types, GatewayOK
<1>2. HistoryOK'
    BY NotNone DEF Ask, Goto, Of, Free, Crash, Joins, conn, server, loops, history, Forget,
           procs, gateway, fields, IInv, Types, HistoryOK, ConnOK, ProcsOK
<1>3. ConnOK' /\ ServerOK' /\ LoopsOK'
    BY Frames DEF Ask, Goto, Of, Free, Crash, Joins, conn, server, loops, history, Forget,
           procs, gateway, fields
<1>4. ProcsOK'
    BY NotNone DEF Ask, Goto, Of, Free, Crash, Joins, conn, server, loops, history, Forget,
           procs, gateway, fields, IInv, Types, ProcsOK, ConnOK, Afters
<1>5. Unlocked(p) /\ UNCHANGED <<lock, ws, serves, reconnecting>>
    BY DEF Ask, Goto, Of, Free, Crash, Joins, conn, server, loops, history, Forget, procs,
           gateway, fields, IInv, Types, ProcsOK, ServerOK, GatewayOK, Afters, Holding,
           Alone, Unlocked
<1>6. Locking'
    BY <1>5, LockingKept DEF IInv
<1>7. pc'[p] # "identify" /\ (p \in Dial => pc[p] # "idle")
    BY <1>5, NotNone DEF Ask, Goto, Of, Free, Crash, Joins, conn, server, loops, history,
           Forget, procs, gateway, fields, Unlocked, Holding
<1>8. Dialling'
    BY <1>5, <1>7, DiallingKept DEF IInv, Unlocked
<1>9. ReconMove(p)
    BY NotNone DEF Ask, Goto, Of, Free, Crash, Joins, conn, server, loops, history, Forget,
           procs, gateway, fields, IInv, Types, ProcsOK, Reconnecting, ReconLabels,
           Outside, ReconMove
<1>10. Reconnecting'
    BY <1>5, <1>9, NotNone, ReconnectingKept DEF IInv, Unlocked, Alone
<1>11. Sources'
    <2>1. Made
        BY DEF Ask, Goto, Of, Free, Crash, Joins, conn, server, loops, history, Forget,
               procs, gateway, fields, Made
    <2>2. Read
        BY NotNone DEF Ask, Goto, Of, Free, Crash, Joins, conn, server, loops, history,
               Forget, procs, gateway, fields, IInv, Types, ProcsOK, Afters, Read
    <2> QED  BY <2>1, <2>2, SourcesKept
<1>12. Fields'
    BY NotNone DEF Ask, Goto, Of, Free, Crash, Joins, conn, server, loops, history, Forget,
           procs, gateway, fields, IInv, Types, ProcsOK, ConnOK, ServerOK, LoopsOK, Loop,
           Fields, Sockets, NothingLeft, ReadyHasSender
<1> QED
    BY <1>1, <1>2, <1>3, <1>4, <1>6, <1>8, <1>10, <1>11, <1>12 DEF IInv, Types, MovesOK

LEMMA AskFailsInv ==
    ASSUME IInv, NEW p \in Proc, AskFails(p),
           moves' \in 0 .. MaxMoves
    PROVE  IInv'
<1>1. GatewayOK'
    BY NotNone DEF AskFails, Goto, Of, Free, NotHeard, conn, server, loops, history,
           Forget, fields, IInv, Types, GatewayOK
<1>2. ConnOK' /\ ServerOK' /\ LoopsOK' /\ HistoryOK'
    BY Frames DEF AskFails, Goto, Of, Free, NotHeard, conn, server, loops, history, Forget,
           fields
<1>3. ProcsOK'
    BY NotNone DEF AskFails, Goto, Of, Free, NotHeard, conn, server, loops, history,
           Forget, fields, IInv, Types, ProcsOK, ConnOK, Afters
<1>4. Unlocked(p) /\ UNCHANGED <<lock, ws, serves, reconnecting>>
    BY DEF AskFails, Goto, Of, Free, NotHeard, conn, server, loops, history, Forget,
           fields, IInv, Types, ProcsOK, ServerOK, GatewayOK, Afters, Holding, Alone,
           Unlocked
<1>5. Locking'
    BY <1>4, LockingKept DEF IInv
<1>6. pc'[p] # "identify" /\ (p \in Dial => pc[p] # "idle")
    BY <1>4, NotNone DEF AskFails, Goto, Of, Free, NotHeard, conn, server, loops, history,
           Forget, fields, Unlocked, Holding
<1>7. Dialling'
    BY <1>4, <1>6, DiallingKept DEF IInv, Unlocked
<1>8. ReconMove(p)
    BY NotNone DEF AskFails, Goto, Of, Free, NotHeard, conn, server, loops, history,
           Forget, fields, IInv, Types, ProcsOK, Reconnecting, ReconLabels, Outside,
           ReconMove
<1>9. Reconnecting'
    BY <1>4, <1>8, NotNone, ReconnectingKept DEF IInv, Unlocked, Alone
<1>10. Sources'
    <2>1. Made
        BY DEF AskFails, Goto, Of, Free, NotHeard, conn, server, loops, history, Forget,
               fields, Made
    <2>2. Read
        BY NotNone DEF AskFails, Goto, Of, Free, NotHeard, conn, server, loops, history,
               Forget, fields, IInv, Types, ProcsOK, Afters, procs, Read
    <2> QED  BY <2>1, <2>2, SourcesKept
<1>11. Fields'
    BY Frames DEF AskFails, Goto, Of, Free, NotHeard, conn, server, loops, history, Forget,
           fields, procs, gateway, Fields
<1> QED
    BY <1>1, <1>2, <1>3, <1>5, <1>7, <1>9, <1>10, <1>11 DEF IInv, Types, MovesOK

LEMMA ConnectedInv ==
    ASSUME IInv, NEW p \in Proc, Connected(p),
           moves' \in 0 .. MaxMoves
    PROVE  IInv'
<1>1. ConnOK' /\ ServerOK' /\ LoopsOK' /\ GatewayOK' /\ HistoryOK'
    BY Frames DEF Connected, Goto, Of, Free, conn, server, loops, gateway, history, Forget,
           fields
<1>2. ProcsOK'
    BY NotNone DEF Connected, Goto, Of, Free, conn, server, loops, gateway, history,
           Forget, fields, IInv, Types, ProcsOK, ConnOK, Afters
<1>3. Unlocked(p) /\ UNCHANGED <<lock, ws, serves, reconnecting>>
    BY DEF Connected, Goto, Of, Free, conn, server, loops, gateway, history, Forget,
           fields, IInv, Types, ProcsOK, ServerOK, GatewayOK, Afters, Holding, Alone,
           Unlocked
<1>4. Locking'
    BY <1>3, LockingKept DEF IInv
<1>5. pc'[p] # "identify" /\ (p \in Dial => pc[p] # "idle")
    BY <1>3, NotNone DEF Connected, Goto, Of, Free, conn, server, loops, gateway, history,
           Forget, fields, Unlocked, Holding
<1>6. Dialling'
    BY <1>3, <1>5, DiallingKept DEF IInv, Unlocked
<1>7. ReconMove(p)
    BY NotNone DEF Connected, Goto, Of, Free, conn, server, loops, gateway, history,
           Forget, fields, IInv, Types, ProcsOK, Reconnecting, ReconLabels, Outside,
           ReconMove
<1>8. Reconnecting'
    BY <1>3, <1>7, NotNone, ReconnectingKept DEF IInv, Unlocked, Alone
<1>9. Sources'
    <2>1. Made
        BY DEF Connected, Goto, Of, Free, conn, server, loops, gateway, history, Forget,
               fields, Made
    <2>2. Read
        BY NotNone DEF Connected, Goto, Of, Free, conn, server, loops, gateway, history,
               Forget, fields, IInv, Types, ProcsOK, Afters, procs, Read
    <2> QED  BY <2>1, <2>2, SourcesKept
<1>10. Fields'
    BY Frames DEF Connected, Goto, Of, Free, conn, server, loops, gateway, history, Forget,
           fields, procs, Fields
<1> QED
    BY <1>1, <1>2, <1>4, <1>6, <1>8, <1>9, <1>10 DEF IInv, Types, MovesOK

LEMMA NotConnectedInv ==
    ASSUME IInv, NEW p \in Proc, NotConnected(p),
           moves' \in 0 .. MaxMoves
    PROVE  IInv'
<1>1. ConnOK' /\ ServerOK' /\ LoopsOK' /\ GatewayOK' /\ HistoryOK'
    BY Frames DEF NotConnected, Invoke, Of, Free, conn, server, loops, gateway, history,
           Forget, fields
<1>2. ProcsOK'
    BY NotNone DEF NotConnected, Invoke, Of, Free, conn, server, loops, gateway, history,
           Forget, fields, IInv, Types, ProcsOK, ConnOK, Afters
<1>3. Unlocked(p) /\ UNCHANGED <<lock, ws, serves, reconnecting>>
    BY DEF NotConnected, Invoke, Of, Free, conn, server, loops, gateway, history, Forget,
           fields, IInv, Types, ProcsOK, ServerOK, GatewayOK, Afters, Holding, Alone,
           Unlocked
<1>4. Locking'
    BY <1>3, LockingKept DEF IInv
<1>5. pc'[p] # "identify" /\ (p \in Dial => pc[p] # "idle")
    BY <1>3, NotNone DEF NotConnected, Invoke, Of, Free, conn, server, loops, gateway,
           history, Forget, fields, Unlocked, Holding
<1>6. Dialling'
    BY <1>3, <1>5, DiallingKept DEF IInv, Unlocked
<1>7. ReconMove(p)
    BY NotNone DEF NotConnected, Invoke, Of, Free, conn, server, loops, gateway, history,
           Forget, fields, IInv, Types, ProcsOK, Reconnecting, ReconLabels, Outside,
           ReconMove
<1>8. Reconnecting'
    BY <1>3, <1>7, NotNone, ReconnectingKept DEF IInv, Unlocked, Alone
<1>9. Sources'
    <2>1. Made
        BY DEF NotConnected, Invoke, Of, Free, conn, server, loops, gateway, history,
               Forget, fields, Made
    <2>2. Read
        BY NotNone DEF NotConnected, Invoke, Of, Free, conn, server, loops, gateway,
               history, Forget, fields, IInv, Types, ProcsOK, Afters, procs, Read
    <2> QED  BY <2>1, <2>2, SourcesKept
<1>10. Fields'
    BY Frames DEF NotConnected, Invoke, Of, Free, conn, server, loops, gateway, history,
           Forget, fields, procs, Fields
<1> QED
    BY <1>1, <1>2, <1>4, <1>6, <1>8, <1>9, <1>10 DEF IInv, Types, MovesOK

LEMMA DisconnectInv ==
    ASSUME IInv, NEW a \in App, NEW v \in Voice, Disconnect(a, v),
           moves' \in 0 .. MaxMoves
    PROVE  IInv'
<1>1. a \in Proc
    BY NotNone
<1>2. ConnOK'
    BY <1>1, NotNone DEF Disconnect, Free, Crash, Leaves, NotHeard, server, loops, history,
           conn, procs, gateway, fields, IInv, Types, ConnOK, ProcsOK
<1>3. GatewayOK'
    BY <1>1, NotNone DEF Disconnect, Free, Crash, Leaves, NotHeard, server, loops, history,
           conn, procs, gateway, fields, IInv, Types, GatewayOK
<1>4. HistoryOK'
    BY <1>1, NotNone DEF Disconnect, Free, Crash, Leaves, NotHeard, server, loops, history,
           conn, procs, gateway, fields, IInv, Types, HistoryOK, ConnOK, ProcsOK
<1>5. ServerOK' /\ LoopsOK'
    BY Frames DEF Disconnect, Free, Crash, Leaves, NotHeard, server, loops, history, conn,
           procs, gateway, fields
<1>6. ProcsOK'
    BY <1>1, NotNone DEF Disconnect, Free, Crash, Leaves, NotHeard, server, loops, history,
           conn, procs, gateway, fields, IInv, Types, ProcsOK, ConnOK, Afters
<1>7. Unlocked(a) /\ UNCHANGED <<lock, ws, serves, reconnecting>>
    BY <1>1 DEF Disconnect, Free, Crash, Leaves, NotHeard, server, loops, history, conn,
           procs, gateway, fields, IInv, Types, ProcsOK, ServerOK, GatewayOK, Afters,
           Holding, Alone, Unlocked
<1>8. Locking'
    BY <1>1, <1>7, LockingKept DEF IInv
<1>9. pc'[a] # "identify" /\ (a \in Dial => pc[a] # "idle")
    BY <1>1, <1>7, NotNone DEF Disconnect, Free, Crash, Leaves, NotHeard, server, loops,
           history, conn, procs, gateway, fields, Unlocked, Holding
<1>10. Dialling'
    BY <1>1, <1>7, <1>9, DiallingKept DEF IInv, Unlocked
<1>11. ReconMove(a)
    BY <1>1, NotNone DEF Disconnect, Free, Crash, Leaves, NotHeard, server, loops, history,
           conn, procs, gateway, fields, IInv, Types, ProcsOK, Reconnecting, ReconLabels,
           Outside, ReconMove
<1>12. Reconnecting'
    BY <1>1, <1>7, <1>11, NotNone, ReconnectingKept DEF IInv, Unlocked, Alone
<1>13. Sources'
    <2>1. Made
        BY <1>1, NotNone DEF Disconnect, Free, Crash, Leaves, NotHeard, server, loops,
               history, conn, procs, gateway, fields, IInv, Types, ProcsOK, ConnOK,
               ServerOK, LoopsOK, Made
    <2>2. Read
        BY <1>1, NotNone DEF Disconnect, Free, Crash, Leaves, NotHeard, server, loops,
               history, conn, procs, gateway, fields, IInv, Types, ProcsOK, Afters, Read
    <2> QED  BY <2>1, <2>2, SourcesKept
<1>14. Fields'
    BY <1>1, NotNone DEF Disconnect, Free, Crash, Leaves, NotHeard, server, loops, history,
           conn, procs, gateway, fields, IInv, Types, ProcsOK, ConnOK, ServerOK, LoopsOK,
           Loop, Fields, Sockets, NothingLeft, ReadyHasSender
<1> QED
    BY <1>2, <1>3, <1>4, <1>5, <1>6, <1>8, <1>10, <1>12, <1>13, <1>14 DEF IInv, Types,
           MovesOK

LEMMA ReconnectBeginsInv ==
    ASSUME IInv, NEW r \in Recon, ReconnectBegins(r),
           moves' \in 0 .. MaxMoves
    PROVE  IInv'
<1>1. r \in Proc
    BY NotNone
<1>2. ConnOK'
    BY <1>1, NotNone DEF ReconnectBegins, Goto, Of, Free, server, loops, gateway, Forget,
           IInv, Types, ConnOK, ProcsOK
<1>3. HistoryOK'
    BY <1>1, NotNone DEF ReconnectBegins, Goto, Of, Free, server, loops, gateway, Forget,
           IInv, Types, HistoryOK, ConnOK, ProcsOK
<1>4. ServerOK' /\ LoopsOK' /\ GatewayOK'
    BY Frames DEF ReconnectBegins, Goto, Of, Free, server, loops, gateway, Forget
<1>5. ProcsOK'
    BY <1>1, NotNone DEF ReconnectBegins, Goto, Of, Free, server, loops, gateway, Forget,
           IInv, Types, ProcsOK, ConnOK, Afters
<1>6. Locking'
    BY <1>1, NotNone DEF ReconnectBegins, Goto, Of, Free, server, loops, gateway, Forget,
           IInv, Types, ProcsOK, ConnOK, Locking, Holding, Afters
<1>7. Dialling'
    BY <1>1, NotNone DEF ReconnectBegins, Goto, Of, Free, server, loops, gateway, Forget,
           IInv, Types, ProcsOK, ConnOK, Locking, Holding, Dialling, Afters
<1>8. Reconnecting'
    <2> DEFINE v == Of(r)
    <2>1. v \in Voice /\ pc[r] = "reconnect" /\ serves[r] = None
        BY <1>1 DEF ReconnectBegins, Of, IInv, Types, ProcsOK, Reconnecting, Outside
    <2>2. \A q \in Recon : q # r => pc'[q] = pc[q] /\ after'[q] = after[q] /\ q \in Proc
        BY <1>1, NotNone DEF ReconnectBegins, Goto, IInv, Types, ProcsOK
    <2>3. CASE reconnecting[v]
        <3>1. pc'[r] = "idle" /\ serves' = serves /\ reconnecting' = reconnecting
            BY <1>1, <2>1, <2>3 DEF ReconnectBegins, Goto, Of, IInv, Types, ProcsOK, ConnOK
        <3>2. ReconMove(r)
            BY <2>1, <3>1 DEF ReconMove, ReconLabels, Outside
        <3> QED  BY <2>2, <3>1, <3>2, ReconnectingKept DEF IInv
    <2>4. CASE ~reconnecting[v]
        <3>1. /\ pc'[r] = "Close" /\ after'[r] = "pause" /\ serves' = [serves EXCEPT ![r] = v]
              /\ reconnecting' = [reconnecting EXCEPT ![v] = TRUE]
            BY <1>1, <2>1, <2>4 DEF ReconnectBegins, Of, IInv, Types, ProcsOK
        <3>2. \A q \in Recon : serves[q] # v
            BY <2>1, <2>4 DEF IInv, Reconnecting
        <3>3. serves'[r] = v /\ \A q \in Recon : q # r => serves'[q] = serves[q]
            BY <3>1 DEF IInv, Types, ProcsOK
        <3>4. \A w \in Voice : reconnecting'[w] <=> \E q \in Recon : serves'[q] = w
            <4>1. ASSUME NEW w \in Voice
                  PROVE  reconnecting'[w] <=> \E q \in Recon : serves'[q] = w
                <5>1. CASE w = v
                    BY <2>1, <3>1, <3>3, <5>1 DEF IInv, Types, ConnOK
                <5>2. CASE w # v
                    <6>1. reconnecting'[w] = reconnecting[w]
                        BY <3>1, <5>2 DEF IInv, Types, ConnOK
                    <6>2. (\E q \in Recon : serves'[q] = w) <=> \E q \in Recon : serves[q] = w
                        BY <2>1, <3>3, <5>2, NotNone
                    <6> QED  BY <6>1, <6>2 DEF IInv, Reconnecting
                <5> QED  BY <5>1, <5>2
            <4> QED  BY <4>1
        <3>5. \A q, s \in Recon : serves'[q] # None /\ serves'[q] = serves'[s] => q = s
            BY <3>2, <3>3 DEF IInv, Reconnecting
        <3>6. ASSUME NEW q \in Recon
              PROVE  /\ pc'[q] \in ReconLabels
                     /\ pc'[q] \in {"Close", "closing"} => after'[q] \in {"pause", "failed"}
                     /\ serves'[q] = None <=> pc'[q] \in Outside
            <4>1. CASE q = r
                BY <2>1, <3>1, <3>3, <4>1, NotNone DEF ReconLabels, Outside
            <4>2. CASE q # r
                BY <2>2, <3>3, <4>2 DEF IInv, Reconnecting
            <4> QED  BY <4>1, <4>2
        <3> QED  BY <3>4, <3>5, <3>6 DEF Reconnecting
    <2> QED  BY <2>3, <2>4
<1>9. Sources'
    <2>1. Made
        BY <1>1, NotNone DEF ReconnectBegins, Goto, Of, Free, server, loops, gateway,
               Forget, IInv, Types, ProcsOK, ConnOK, ServerOK, LoopsOK, Made, conn, fields
    <2>2. Read
        BY <1>1, NotNone DEF ReconnectBegins, Goto, Of, Free, server, loops, gateway,
               Forget, IInv, Types, ProcsOK, Afters, procs, Read
    <2> QED  BY <2>1, <2>2, SourcesKept
<1>10. Fields'
    BY <1>1, NotNone DEF ReconnectBegins, Goto, Of, Free, server, loops, gateway, Forget,
           IInv, Types, ProcsOK, ConnOK, ServerOK, LoopsOK, Loop, Fields, Sockets,
           NothingLeft, ReadyHasSender
<1> QED
    BY <1>2, <1>3, <1>4, <1>5, <1>6, <1>7, <1>8, <1>9, <1>10 DEF IInv, Types, MovesOK

LEMMA JoinFailedInv ==
    ASSUME IInv, NEW r \in Recon, JoinFailed(r),
           moves' \in 0 .. MaxMoves
    PROVE  IInv'
<1>1. r \in Proc
    BY NotNone
<1>2. GatewayOK'
    BY <1>1, NotNone DEF JoinFailed, Goto, Crash, Leaves, NotHeard, conn, server, loops,
           history, Forget, procs, gateway, fields, IInv, Types, GatewayOK
<1>3. HistoryOK'
    BY <1>1, NotNone DEF JoinFailed, Goto, Crash, Leaves, NotHeard, conn, server, loops,
           history, Forget, procs, gateway, fields, IInv, Types, HistoryOK, ConnOK, ProcsOK
<1>4. ConnOK' /\ ServerOK' /\ LoopsOK'
    BY Frames DEF JoinFailed, Goto, Crash, Leaves, NotHeard, conn, server, loops, history,
           Forget, procs, gateway, fields
<1>5. ProcsOK'
    BY <1>1, NotNone DEF JoinFailed, Goto, Crash, Leaves, NotHeard, conn, server, loops,
           history, Forget, procs, gateway, fields, IInv, Types, ProcsOK, ConnOK, Afters
<1>6. Unlocked(r) /\ UNCHANGED <<lock, ws, serves, reconnecting>>
    BY <1>1 DEF JoinFailed, Goto, Crash, Leaves, NotHeard, conn, server, loops, history,
           Forget, procs, gateway, fields, IInv, Types, ProcsOK, ServerOK, GatewayOK,
           Afters, Holding, Alone, Unlocked
<1>7. Locking'
    BY <1>1, <1>6, LockingKept DEF IInv
<1>8. pc'[r] # "identify" /\ (r \in Dial => pc[r] # "idle")
    BY <1>1, <1>6, NotNone DEF JoinFailed, Goto, Crash, Leaves, NotHeard, conn, server,
           loops, history, Forget, procs, gateway, fields, Unlocked, Holding
<1>9. Dialling'
    BY <1>1, <1>6, <1>8, DiallingKept DEF IInv, Unlocked
<1>10. ReconMove(r)
    BY <1>1, NotNone DEF JoinFailed, Goto, Crash, Leaves, NotHeard, conn, server, loops,
           history, Forget, procs, gateway, fields, IInv, Types, ProcsOK, Reconnecting,
           ReconLabels, Outside, ReconMove
<1>11. Reconnecting'
    BY <1>1, <1>6, <1>10, NotNone, ReconnectingKept DEF IInv, Unlocked, Alone
<1>12. Sources'
    <2>1. Made
        BY DEF JoinFailed, Goto, Crash, Leaves, NotHeard, conn, server, loops, history,
               Forget, procs, gateway, fields, Made
    <2>2. Read
        BY <1>1, NotNone DEF JoinFailed, Goto, Crash, Leaves, NotHeard, conn, server,
               loops, history, Forget, procs, gateway, fields, IInv, Types, ProcsOK,
               Afters, Read
    <2> QED  BY <2>1, <2>2, SourcesKept
<1>13. Fields'
    BY <1>1, NotNone DEF JoinFailed, Goto, Crash, Leaves, NotHeard, conn, server, loops,
           history, Forget, procs, gateway, fields, IInv, Types, ProcsOK, ConnOK, ServerOK,
           LoopsOK, Loop, Fields, Sockets, NothingLeft, ReadyHasSender
<1> QED
    BY <1>2, <1>3, <1>4, <1>5, <1>7, <1>9, <1>11, <1>12, <1>13 DEF IInv, Types, MovesOK

LEMMA ReconnectEndsInv ==
    ASSUME IInv, NEW r \in Recon, ReconnectEnds(r),
           moves' \in 0 .. MaxMoves
    PROVE  IInv'
<1>1. r \in Proc
    BY NotNone
<1>2. ConnOK'
    BY <1>1, NotNone DEF ReconnectEnds, Free, server, loops, gateway, history, IInv, Types,
           ConnOK, ProcsOK
<1>3. ServerOK' /\ LoopsOK' /\ GatewayOK' /\ HistoryOK'
    BY Frames DEF ReconnectEnds, Free, server, loops, gateway, history
<1>4. ProcsOK'
    BY <1>1, NotNone DEF ReconnectEnds, Free, server, loops, gateway, history, IInv, Types,
           ProcsOK, ConnOK, Afters
<1>5. Locking'
    BY <1>1, NotNone DEF ReconnectEnds, Free, server, loops, gateway, history, IInv, Types,
           ProcsOK, ConnOK, Locking, Holding, Afters
<1>6. Dialling'
    BY <1>1, NotNone DEF ReconnectEnds, Free, server, loops, gateway, history, IInv, Types,
           ProcsOK, ConnOK, Locking, Holding, Dialling, Afters
<1>7. Reconnecting'
    <2> DEFINE v == serves[r]
    <2>1. v \in Voice /\ pc[r] = "done"
        BY DEF ReconnectEnds, IInv, Types, ProcsOK, Reconnecting, Outside
    <2>2. /\ pc'[r] = "idle" /\ serves'[r] = None
          /\ \A q \in Recon : q # r => /\ serves'[q] = serves[q] /\ pc'[q] = pc[q]
                                       /\ after'[q] = after[q]
          /\ reconnecting' = [reconnecting EXCEPT ![v] = FALSE]
        BY <1>1, NotNone DEF ReconnectEnds, IInv, Types, ProcsOK
    <2>3. \A q \in Recon : q # r => serves[q] # v
        BY <2>1, NotNone DEF IInv, Reconnecting
    <2>4. ASSUME NEW w \in Voice
          PROVE  reconnecting'[w] <=> \E q \in Recon : serves'[q] = w
        <3>1. CASE w = v
            <4>1. ~reconnecting'[w]
                BY <2>1, <2>2, <3>1 DEF IInv, Types, ConnOK
            <4>2. \A q \in Recon : serves'[q] # w
                BY <2>1, <2>2, <2>3, <3>1, NotNone
            <4> QED  BY <4>1, <4>2
        <3>2. CASE w # v
            <4>1. reconnecting'[w] = reconnecting[w]
                BY <2>2, <3>2 DEF IInv, Types, ConnOK
            <4>2. (\E q \in Recon : serves'[q] = w) <=> \E q \in Recon : serves[q] = w
                BY <2>2, <3>2, NotNone
            <4> QED  BY <4>1, <4>2 DEF IInv, Reconnecting
        <3> QED  BY <3>1, <3>2
    <2>5. \A q, s \in Recon : serves'[q] # None /\ serves'[q] = serves'[s] => q = s
        BY <2>2 DEF IInv, Reconnecting
    <2>6. ASSUME NEW q \in Recon
          PROVE  /\ pc'[q] \in ReconLabels
                 /\ pc'[q] \in {"Close", "closing"} => after'[q] \in {"pause", "failed"}
                 /\ serves'[q] = None <=> pc'[q] \in Outside
        <3>1. CASE q = r
            BY <2>2, <3>1 DEF ReconLabels, Outside
        <3>2. CASE q # r
            BY <2>2, <3>2 DEF IInv, Reconnecting
        <3> QED  BY <3>1, <3>2
    <2> QED  BY <2>4, <2>5, <2>6 DEF Reconnecting
<1>8. Sources'
    <2>1. Made
        BY <1>1, NotNone DEF ReconnectEnds, Free, server, loops, gateway, history, IInv,
               Types, ProcsOK, ConnOK, ServerOK, LoopsOK, Made, conn, fields
    <2>2. Read
        BY <1>1, NotNone DEF ReconnectEnds, Free, server, loops, gateway, history, IInv,
               Types, ProcsOK, Afters, procs, Read
    <2> QED  BY <2>1, <2>2, SourcesKept
<1>9. Fields'
    BY <1>1, NotNone DEF ReconnectEnds, Free, server, loops, gateway, history, IInv, Types,
           ProcsOK, ConnOK, ServerOK, LoopsOK, Loop, Fields, Sockets, NothingLeft,
           ReadyHasSender
<1> QED
    BY <1>2, <1>3, <1>4, <1>5, <1>6, <1>7, <1>8, <1>9 DEF IInv, Types, MovesOK

-----------------------------------------------------------------------------
(* The gateway, the network and the servers. *)

LEMMA DeliverInv ==
    ASSUME IInv, NEW h \in Handler, NEW e \in owed, Deliver(h, e),
           moves' \in 0 .. MaxMoves
    PROVE  IInv'
<1>1. h \in Proc
    BY NotNone
<1>2. GatewayOK'
    BY <1>1, NotNone DEF Deliver, conn, server, procs, loops, history, fields, IInv, Types,
           GatewayOK
<1>3. ConnOK' /\ ServerOK' /\ LoopsOK' /\ HistoryOK'
    BY Frames DEF Deliver, conn, server, procs, loops, history, fields
<1>4. ProcsOK'
    BY <1>1, NotNone DEF Deliver, conn, server, procs, loops, history, fields, IInv, Types,
           ProcsOK, ConnOK, Afters
<1>5. Unlocked(h) /\ UNCHANGED <<lock, ws, serves, reconnecting>>
    BY <1>1 DEF Deliver, conn, server, procs, loops, history, fields, IInv, Types, ProcsOK,
           ServerOK, GatewayOK, Afters, Holding, Alone, Unlocked
<1>6. Locking'
    BY <1>1, <1>5, LockingKept DEF IInv
<1>7. pc'[h] # "identify" /\ (h \in Dial => pc[h] # "idle")
    BY <1>1, <1>5, NotNone DEF Deliver, conn, server, procs, loops, history, fields,
           Unlocked, Holding
<1>8. Dialling'
    BY <1>1, <1>5, <1>7, DiallingKept DEF IInv, Unlocked
<1>9. ReconMove(h)
    BY <1>1, NotNone DEF Deliver, conn, server, procs, loops, history, fields, IInv, Types,
           ProcsOK, Reconnecting, ReconLabels, Outside, ReconMove
<1>10. Reconnecting'
    BY <1>1, <1>5, <1>9, NotNone, ReconnectingKept DEF IInv, Unlocked, Alone
<1>11. Sources'
    <2>1. Made
        BY DEF Deliver, conn, server, procs, loops, history, fields, Made
    <2>2. Read
        BY <1>1, NotNone DEF Deliver, conn, server, procs, loops, history, fields, IInv,
               Types, ProcsOK, Afters, Read
    <2> QED  BY <2>1, <2>2, SourcesKept
<1>12. Fields'
    BY Frames DEF Deliver, conn, server, procs, loops, history, fields, gateway, Fields
<1> QED
    BY <1>2, <1>3, <1>4, <1>6, <1>8, <1>10, <1>11, <1>12 DEF IInv, Types, MovesOK

LEMMA OnVoiceStateUpdateInv ==
    ASSUME IInv, NEW h \in Handler, OnVoiceStateUpdate(h),
           moves' \in 0 .. MaxMoves
    PROVE  IInv'
<1>1. h \in Proc
    BY NotNone
<1>2. ConnOK'
    BY <1>1, NotNone DEF OnVoiceStateUpdate, Goto, Of, Free, server, loops, gateway,
           history, Forget, IInv, Types, ConnOK, ProcsOK
<1>3. ServerOK' /\ LoopsOK' /\ GatewayOK' /\ HistoryOK'
    BY Frames DEF OnVoiceStateUpdate, Goto, Of, Free, server, loops, gateway, history,
           Forget
<1>4. ProcsOK'
    BY <1>1, NotNone DEF OnVoiceStateUpdate, Goto, Of, Free, server, loops, gateway,
           history, Forget, IInv, Types, ProcsOK, ConnOK, Afters
<1>5. Unlocked(h) /\ UNCHANGED <<lock, ws, serves, reconnecting>>
    BY <1>1 DEF OnVoiceStateUpdate, Goto, Of, Free, server, loops, gateway, history,
           Forget, IInv, Types, ProcsOK, ServerOK, GatewayOK, Afters, Holding, Alone,
           Unlocked
<1>6. Locking'
    BY <1>1, <1>5, LockingKept DEF IInv
<1>7. pc'[h] # "identify" /\ (h \in Dial => pc[h] # "idle")
    BY <1>1, <1>5, NotNone DEF OnVoiceStateUpdate, Goto, Of, Free, server, loops, gateway,
           history, Forget, Unlocked, Holding
<1>8. Dialling'
    BY <1>1, <1>5, <1>7, DiallingKept DEF IInv, Unlocked
<1>9. ReconMove(h)
    BY <1>1, NotNone DEF OnVoiceStateUpdate, Goto, Of, Free, server, loops, gateway,
           history, Forget, IInv, Types, ProcsOK, Reconnecting, ReconLabels, Outside,
           ReconMove
<1>10. Reconnecting'
    BY <1>1, <1>5, <1>9, NotNone, ReconnectingKept DEF IInv, Unlocked, Alone
<1>11. Sources'
    <2>1. Made
        BY <1>1, NotNone DEF OnVoiceStateUpdate, Goto, Of, Free, server, loops, gateway,
               history, Forget, IInv, Types, ProcsOK, ConnOK, ServerOK, LoopsOK, Made,
               conn, fields
    <2>2. Read
        BY <1>1, NotNone DEF OnVoiceStateUpdate, Goto, Of, Free, server, loops, gateway,
               history, Forget, IInv, Types, ProcsOK, Afters, procs, Read
    <2> QED  BY <2>1, <2>2, SourcesKept
<1>12. Fields'
    BY <1>1, NotNone DEF OnVoiceStateUpdate, Goto, Of, Free, server, loops, gateway,
           history, Forget, IInv, Types, ProcsOK, ConnOK, ServerOK, LoopsOK, Loop, Fields,
           Sockets, NothingLeft, ReadyHasSender
<1> QED
    BY <1>2, <1>3, <1>4, <1>6, <1>8, <1>10, <1>11, <1>12 DEF IInv, Types, MovesOK

LEMMA LostInv ==
    ASSUME IInv, NEW d \in Dial, Lost(d),
           moves' \in 0 .. MaxMoves
    PROVE  IInv'
<1>1. d \in Proc
    BY NotNone
<1>2. ServerOK'
    BY <1>1, NotNone DEF Lost, NotHeard, Breaks, conn, procs, loops, history, fields, IInv,
           Types, ServerOK, ConnOK, ProcsOK
<1>3. GatewayOK'
    BY <1>1, NotNone DEF Lost, NotHeard, Breaks, conn, procs, loops, history, fields, IInv,
           Types, GatewayOK
<1>4. ConnOK' /\ LoopsOK' /\ HistoryOK'
    BY Frames DEF Lost, NotHeard, Breaks, conn, procs, loops, history, fields
<1>5. ProcsOK' /\ Locking' /\ Dialling' /\ Reconnecting'
    BY ProcsKept DEF Lost, NotHeard, Breaks, conn, procs, loops, history, fields
<1>6. Sources'
    <2>1. Made
        BY <1>1, NotNone DEF Lost, NotHeard, Breaks, conn, procs, loops, history, fields,
               IInv, Types, ProcsOK, ConnOK, ServerOK, LoopsOK, Made, server
    <2>2. Read
        BY <1>1, NotNone DEF Lost, NotHeard, Breaks, conn, procs, loops, history, fields,
               IInv, Types, ProcsOK, Afters, Read
    <2> QED  BY <2>1, <2>2, SourcesKept
<1>7. Fields'
    BY <1>1, NotNone DEF Lost, NotHeard, Breaks, conn, procs, loops, history, fields, IInv,
           Types, ProcsOK, ConnOK, ServerOK, LoopsOK, Loop, Fields, Sockets, NothingLeft,
           ReadyHasSender
<1> QED
    BY <1>2, <1>3, <1>4, <1>5, <1>6, <1>7 DEF IInv, Types, MovesOK

LEMMA RefusedInv ==
    ASSUME IInv, NEW d \in Dial, Refused(d),
           moves' \in 0 .. MaxMoves
    PROVE  IInv'
<1>1. d \in Proc
    BY NotNone
<1>2. ServerOK'
    BY <1>1, NotNone DEF Refused, NotHeard, Breaks, conn, procs, loops, history, fields,
           IInv, Types, ServerOK, ConnOK, ProcsOK
<1>3. GatewayOK'
    BY <1>1, NotNone DEF Refused, NotHeard, Breaks, conn, procs, loops, history, fields,
           IInv, Types, GatewayOK
<1>4. ConnOK' /\ LoopsOK' /\ HistoryOK'
    BY Frames DEF Refused, NotHeard, Breaks, conn, procs, loops, history, fields
<1>5. ProcsOK' /\ Locking' /\ Dialling' /\ Reconnecting'
    BY ProcsKept DEF Refused, NotHeard, Breaks, conn, procs, loops, history, fields
<1>6. Sources'
    <2>1. Made
        BY <1>1, NotNone DEF Refused, NotHeard, Breaks, conn, procs, loops, history,
               fields, IInv, Types, ProcsOK, ConnOK, ServerOK, LoopsOK, Made, server
    <2>2. Read
        BY <1>1, NotNone DEF Refused, NotHeard, Breaks, conn, procs, loops, history,
               fields, IInv, Types, ProcsOK, Afters, Read
    <2> QED  BY <2>1, <2>2, SourcesKept
<1>7. Fields'
    BY <1>1, NotNone DEF Refused, NotHeard, Breaks, conn, procs, loops, history, fields,
           IInv, Types, ProcsOK, ConnOK, ServerOK, LoopsOK, Loop, Fields, Sockets,
           NothingLeft, ReadyHasSender
<1> QED
    BY <1>2, <1>3, <1>4, <1>5, <1>6, <1>7 DEF IInv, Types, MovesOK

LEMMA MovedInv ==
    ASSUME IInv, NEW d \in Dial, Moved(d),
           moves' \in 0 .. MaxMoves
    PROVE  IInv'
<1>1. d \in Proc
    BY NotNone
<1>2. ServerOK'
    BY <1>1, NotNone DEF Moved, Leaves, Breaks, server, conn, procs, loops, history,
           fields, IInv, Types, ServerOK, ConnOK, ProcsOK
<1>3. GatewayOK'
    BY <1>1, NotNone DEF Moved, Leaves, Breaks, server, conn, procs, loops, history,
           fields, IInv, Types, GatewayOK
<1>4. ConnOK' /\ LoopsOK' /\ HistoryOK'
    BY Frames DEF Moved, Leaves, Breaks, server, conn, procs, loops, history, fields
<1>5. ProcsOK' /\ Locking' /\ Dialling' /\ Reconnecting'
    BY ProcsKept DEF Moved, Leaves, Breaks, server, conn, procs, loops, history, fields
<1>6. Sources'
    <2>1. Made
        BY <1>1, NotNone DEF Moved, Leaves, Breaks, server, conn, procs, loops, history,
               fields, IInv, Types, ProcsOK, ConnOK, ServerOK, LoopsOK, Made
    <2>2. Read
        BY <1>1, NotNone DEF Moved, Leaves, Breaks, server, conn, procs, loops, history,
               fields, IInv, Types, ProcsOK, Afters, Read
    <2> QED  BY <2>1, <2>2, SourcesKept
<1>7. Fields'
    BY <1>1, NotNone DEF Moved, Leaves, Breaks, server, conn, procs, loops, history,
           fields, IInv, Types, ProcsOK, ConnOK, ServerOK, LoopsOK, Loop, Fields, Sockets,
           NothingLeft, ReadyHasSender
<1> QED
    BY <1>2, <1>3, <1>4, <1>5, <1>6, <1>7 DEF IInv, Types, MovesOK

LEMMA RegionChangeInv ==
    ASSUME IInv, RegionChange,
           moves' \in 0 .. MaxMoves
    PROVE  IInv'
<1>1. GatewayOK'
    BY NotNone DEF RegionChange, conn, server, procs, loops, history, fields, IInv, Types,
           GatewayOK
<1>2. ConnOK' /\ ServerOK' /\ LoopsOK' /\ HistoryOK'
    BY Frames DEF RegionChange, conn, server, procs, loops, history, fields
<1>3. ProcsOK' /\ Locking' /\ Dialling' /\ Reconnecting'
    BY ProcsKept DEF RegionChange, conn, server, procs, loops, history, fields
<1>4. Sources'
    <2>1. Made
        BY DEF RegionChange, conn, server, procs, loops, history, fields, Made
    <2>2. Read
        BY NotNone DEF RegionChange, conn, server, procs, loops, history, fields, IInv,
               Types, ProcsOK, Afters, Read
    <2> QED  BY <2>1, <2>2, SourcesKept
<1>5. Fields'
    BY Frames DEF RegionChange, conn, server, procs, loops, history, fields, gateway,
           Fields
<1> QED
    BY <1>1, <1>2, <1>3, <1>4, <1>5 DEF IInv, Types, MovesOK

LEMMA OutageInv ==
    ASSUME IInv, Outage,
           moves' \in 0 .. MaxMoves
    PROVE  IInv'
<1>1. GatewayOK'
    BY NotNone DEF Outage, conn, server, procs, loops, history, fields, IInv, Types,
           GatewayOK
<1>2. ConnOK' /\ ServerOK' /\ LoopsOK' /\ HistoryOK'
    BY Frames DEF Outage, conn, server, procs, loops, history, fields
<1>3. ProcsOK' /\ Locking' /\ Dialling' /\ Reconnecting'
    BY ProcsKept DEF Outage, conn, server, procs, loops, history, fields
<1>4. Sources'
    <2>1. Made
        BY DEF Outage, conn, server, procs, loops, history, fields, Made
    <2>2. Read
        BY NotNone DEF Outage, conn, server, procs, loops, history, fields, IInv, Types,
               ProcsOK, Afters, Read
    <2> QED  BY <2>1, <2>2, SourcesKept
<1>5. Fields'
    BY Frames DEF Outage, conn, server, procs, loops, history, fields, gateway, Fields
<1> QED
    BY <1>1, <1>2, <1>3, <1>4, <1>5 DEF IInv, Types, MovesOK

LEMMA BackInv ==
    ASSUME IInv, Back,
           moves' \in 0 .. MaxMoves
    PROVE  IInv'
<1>1. GatewayOK'
    BY NotNone DEF Back, Start, conn, server, procs, loops, history, fields, IInv, Types,
           GatewayOK
<1>2. ConnOK' /\ ServerOK' /\ LoopsOK' /\ HistoryOK'
    BY Frames DEF Back, Start, conn, server, procs, loops, history, fields
<1>3. ProcsOK'
    BY NotNone DEF Back, Start, conn, server, procs, loops, history, fields, IInv, Types,
           ProcsOK, ConnOK, Afters
<1>4. Locking'
    BY NotNone DEF Back, Start, conn, server, procs, loops, history, fields, IInv, Types,
           ProcsOK, ConnOK, Locking, Holding, Afters
<1>5. Dialling'
    BY NotNone DEF Back, Start, conn, server, procs, loops, history, fields, IInv, Types,
           ProcsOK, ConnOK, Locking, Holding, Dialling, Afters
<1>6. Reconnecting'
    <2>1. UNCHANGED <<serves, reconnecting>>
        BY DEF Back, Start, conn, server, procs, loops, history, fields
    <2>2. ASSUME NEW r \in Recon
          PROVE  (pc'[r] = pc[r] /\ after'[r] = after[r]) \/ ReconMove(r)
        <3>1. (pc'[r] = pc[r] /\ after'[r] = after[r]) \/ (pc[r] = "idle" /\ pc'[r] = "reconnect")
            BY NotNone DEF Back, Start, conn, server, procs, loops, history, fields, IInv,
                   Types, ProcsOK
        <3> QED  BY <3>1 DEF ReconMove, ReconLabels, Outside
    <2> QED  BY <2>1, <2>2, ReconnectingKept DEF IInv
<1>7. Sources'
    <2>1. Made
        BY DEF Back, Start, conn, server, procs, loops, history, fields, Made
    <2>2. Read
        BY NotNone DEF Back, Start, conn, server, procs, loops, history, fields, IInv,
               Types, ProcsOK, Afters, Read
    <2> QED  BY <2>1, <2>2, SourcesKept
<1>8. Fields'
    BY Frames DEF Back, Start, conn, server, procs, loops, history, fields, gateway, Fields
<1> QED
    BY <1>1, <1>2, <1>3, <1>4, <1>5, <1>6, <1>7, <1>8 DEF IInv, Types, MovesOK

-----------------------------------------------------------------------------
(* Next *)

LEMMA ProgramCloseInv ==
    ASSUME IInv, NEW a \in App, NEW v \in Voice, pc[a] = "idle", Start(a, v, "Close"),
           UNCHANGED <<conn, server, loops, gateway, history>>,
           moves' \in 0 .. MaxMoves
    PROVE  IInv'
<1>1. a \in Proc /\ a \notin Dial /\ a \notin Recon
    BY NotNone
<1>2. ConnOK' /\ ServerOK' /\ LoopsOK' /\ GatewayOK' /\ HistoryOK'
    BY Frames
<1>3. ProcsOK'
    BY <1>1, NotNone DEF Start, IInv, Types, ProcsOK
<1>4. Unlocked(a) /\ UNCHANGED <<lock, ws, serves, reconnecting>>
    BY <1>1 DEF Start, IInv, Types, ProcsOK, Unlocked, Alone, Holding, conn, fields
<1>5. Locking'
    BY <1>1, <1>4, LockingKept DEF IInv
<1>6. pc'[a] # "identify"
    BY <1>4 DEF Unlocked, Holding
<1>7. Dialling'
    BY <1>1, <1>4, <1>6, DiallingKept DEF IInv, Unlocked
<1>8. \A r \in Recon : pc'[r] = pc[r] /\ after'[r] = after[r]
    BY <1>1, <1>4, NotNone DEF Unlocked, Alone
<1>9. Reconnecting'
    BY <1>4, <1>8, ReconnectingKept DEF IInv
<1>10. Made /\ Read
    BY <1>1, <1>4, NotNone DEF Start, conn, fields, server, loops, Made, Read, Unlocked, Alone
<1>11. Sources'
    BY <1>10, SourcesKept
<1>12. Fields'
    BY Frames DEF Fields, conn, fields, server, loops, history
<1> QED
    BY <1>2, <1>3, <1>5, <1>7, <1>9, <1>11, <1>12 DEF IInv, Types, MovesOK

LEMMA StutterInv == IInv /\ UNCHANGED vars => IInv'
<1> SUFFICES ASSUME IInv, UNCHANGED vars
             PROVE  IInv'
    OBVIOUS
<1>1. UNCHANGED <<conn, server, procs, loops, gateway, history, moves>>
    BY DEF vars
<1>2. UNCHANGED <<ws, lock, reconnecting, udp, close, stopped, forgotten, ready, owner, sender, receiver>>
    BY <1>1 DEF conn, fields, server, loops, history
<1>3. ConnOK' /\ ServerOK' /\ LoopsOK' /\ GatewayOK' /\ HistoryOK' /\ Fields'
    BY <1>1, <1>2, Frames DEF Fields
<1>4. ProcsOK' /\ Locking' /\ Dialling' /\ Reconnecting'
    BY <1>1, <1>2, ProcsKept
<1>5. Made /\ Read
    BY <1>1, <1>2 DEF procs, Made, Read
<1>6. Sources'
    BY <1>5, SourcesKept
<1> QED
    BY <1>1, <1>3, <1>4, <1>6 DEF IInv, Types, MovesOK

LEMMA ListenInv ==
    ASSUME IInv, NEW d \in Dial, Listen(d), moves' \in 0 .. MaxMoves
    PROVE  IInv'
BY ListenLoopInv, SelectInv, OnHelloInv, UdpOpenInv, UdpOpenRefusedInv, LaunchOpusInv,
   ReadMovedInv, AbandonInv, ReadRefusedInv, ReadErrorInv, ReconnectedInv, NotReconnectedInv DEF Listen

LEMMA ReconnectInv ==
    ASSUME IInv, NEW r \in Recon, Reconnect(r), moves' \in 0 .. MaxMoves
    PROVE  IInv'
<1>1. CASE TryAgain(r)
    <2>1. r \in Proc /\ pc[r] = "pause" /\ ChannelVoiceJoin(r)
        BY <1>1, NotNone DEF TryAgain
    <2> QED  BY <2>1, ChannelVoiceJoinInv
<1> QED
    BY <1>1, ReconnectBeginsInv, JoinFailedInv, ReconnectEndsInv DEF Reconnect

LEMMA StepsInv ==
    ASSUME IInv, NEW p \in Proc, Steps(p), moves' \in 0 .. MaxMoves
    PROVE  IInv'
<1>1. CASE Opens(p)
    BY <1>1, OpenRefusedInv, OpenInv, OpenGotSessionIDInv, DialSucceedsInv, IdentifyInv
       DEF Opens
<1>2. CASE Join(p)
    BY <1>2, InsertInv, AskInv, ConnectedInv DEF Join
<1>3. CASE CloseBegin(p) \/ CloseEnd(p) \/ Delete(p)
    BY <1>3, CloseBeginInv, CloseEndInv, DeleteInv
<1>4. CASE \/ p \in Dial /\ Listen(p)
           \/ p \in Recon /\ Reconnect(p)
           \/ p \in Handler /\ OnVoiceStateUpdate(p)
    BY <1>4, ListenInv, ReconnectInv, OnVoiceStateUpdateInv
<1> QED
    BY <1>1, <1>2, <1>3, <1>4 DEF Steps

LEMMA GoroutinesInv ==
    ASSUME IInv, NEW d \in Dial, Goroutines(d), moves' \in 0 .. MaxMoves
    PROVE  IInv'
BY BeatInv, SenderStartsInv, SenderStopsInv, SenderEndsInv, ReceiverClosedInv, ReceiverStopsInv
   DEF Goroutines

LEMMA FaultsInv ==
    ASSUME IInv, Faults, moves' \in 0 .. MaxMoves
    PROVE  IInv'
<1>1. CASE \E p \in Proc : \/ DialFails(p) \/ IdentifyFails(p) \/ AskFails(p)
                           \/ OpenGivesUp(p) \/ NotConnected(p)
    BY <1>1, DialFailsInv, IdentifyFailsInv, AskFailsInv, OpenGivesUpInv, NotConnectedInv
<1>2. CASE \E d \in Dial : \/ UdpOpenFails(d) \/ SenderFails(d) \/ ReceiverFails(d)
                           \/ Lost(d) \/ Refused(d) \/ Moved(d)
    BY <1>2, UdpOpenFailsInv, SenderFailsInv, ReceiverFailsInv, LostInv, RefusedInv, MovedInv
<1> QED
    BY <1>1, <1>2 DEF Faults

LEMMA ProgramInv ==
    ASSUME IInv, NEW a \in App, Program(a), moves' \in 0 .. MaxMoves
    PROVE  IInv'
<1>1. CASE pc[a] = "idle" /\ ChannelVoiceJoin(a)
    <2>1. a \in Proc
        BY NotNone
    <2> QED  BY <1>1, <2>1, ChannelVoiceJoinInv
<1>2. ASSUME NEW v \in Voice, Disconnect(a, v)
      PROVE  IInv'
    BY <1>2, DisconnectInv
<1>3. ASSUME NEW v \in Voice, pc[a] = "idle", Start(a, v, "Close"),
             UNCHANGED <<conn, server, loops, gateway, history>>
      PROVE  IInv'
    BY <1>3, ProgramCloseInv
<1> QED
    BY <1>1, <1>2, <1>3 DEF Program

LEMMA NextInv == IInv /\ [Next]_vars => IInv'
<1> SUFFICES ASSUME IInv, [Next]_vars
             PROVE  IInv'
    OBVIOUS
<1>1. CASE \E p \in Proc : Steps(p) /\ Runs
    <2>1. PICK p \in Proc : Steps(p) /\ moves' = moves
        BY <1>1 DEF Runs
    <2>2. moves' \in 0 .. MaxMoves
        BY <2>1 DEF IInv, Types, MovesOK
    <2> QED  BY <2>1, <2>2, StepsInv
<1>2. CASE \E d \in Dial : Goroutines(d) /\ Runs
    <2>1. PICK d \in Dial : Goroutines(d) /\ moves' = moves
        BY <1>2 DEF Runs
    <2>2. moves' \in 0 .. MaxMoves
        BY <2>1 DEF IInv, Types, MovesOK
    <2> QED  BY <2>1, <2>2, GoroutinesInv
<1>3. CASE \E h \in Handler, e \in owed : Deliver(h, e) /\ Runs
    <2>1. PICK h \in Handler, e \in owed : Deliver(h, e) /\ moves' = moves
        BY <1>3 DEF Runs
    <2>2. moves' \in 0 .. MaxMoves
        BY <2>1 DEF IInv, Types, MovesOK
    <2> QED  BY <2>1, <2>2, DeliverInv
<1>4. CASE Environment /\ Move
    <2>1. moves' \in 0 .. MaxMoves
        BY <1>4, VoiceAssumption DEF Move, IInv, Types, MovesOK
    <2> QED
        BY <1>4, <2>1, ProgramInv, FaultsInv, RegionChangeInv, OutageInv, BackInv DEF Environment
<1> QED
    BY <1>1, <1>2, <1>3, <1>4, StutterInv DEF Next

LEMMA InitInv == Init => IInv
<1> SUFFICES ASSUME Init
             PROVE  IInv
    OBVIOUS
<1>1. ConnOK /\ ServerOK /\ GatewayOK /\ HistoryOK
    BY DEF Init, ConnOK, ServerOK, GatewayOK, HistoryOK
<1>2. ProcsOK
    BY DEF Init, ProcsOK, Afters
<1>3. Idle \in Loop({"none", "start", "run", "stop"}) /\ Idle \in Loop({"none", "run"})
    BY DEF Idle, Loop
<1>4. LoopsOK
    BY <1>3 DEF Init, LoopsOK
<1>5. MovesOK
    BY VoiceAssumption DEF Init, MovesOK
<1>6. Locking
    BY NotNone DEF Init, Locking, Holding
<1>7. Dialling /\ Reconnecting
    BY NotNone DEF Init, Dialling, Reconnecting, ReconLabels, Outside
<1>8. Sources
    BY NotNone DEF Init, Sources, Idle
<1>9. Fields
    BY DEF Init, Fields, Sockets, NothingLeft, ReadyHasSender
<1> QED
    BY <1>1, <1>2, <1>4, <1>5, <1>6, <1>7, <1>8, <1>9 DEF IInv, Types

-----------------------------------------------------------------------------
(* Theorems *)

\* Every step of the connection keeps the invariant.
THEOREM Inductive == Spec => []IInv
BY InitInv, NextInv, PTL DEF Spec

\* The fields of the connections and the state of their goroutines have their
\* types: a goroutine that is somewhere is there for a connection.
THEOREM TypeCorrect == Spec => []TypeOK
<1>1. IInv => TypeOK
    BY DEF IInv, Types, ConnOK, ServerOK, ProcsOK, LoopsOK, GatewayOK, HistoryOK, MovesOK, TypeOK
<1> QED  BY <1>1, Inductive, PTL

\* One goroutine is inside Close or open of a connection, one reconnect at work
\* for it, and its UDP socket comes with a stop channel.
THEOREM OneAtATime == Spec => []Exclusive
<1>1. IInv => Exclusive
    BY NotNone DEF IInv, Locking, Reconnecting, Fields, Sockets, Exclusive, Holding, Of
<1> QED  BY <1>1, Inductive, PTL

\* Close and open lose no stop channel, but for the one that an open which had
\* waited for the session id wrote over.
THEOREM NothingLeftOpen == Spec => []NothingLeft
<1>1. IInv => NothingLeft
    BY DEF IInv, Fields
<1> QED  BY <1>1, Inductive, PTL

\* Ready stays set only on a connection with an opusSender that will reset it.
THEOREM ReadyOnlyWithSender == Spec => []ReadyHasSender
<1>1. IInv => ReadyHasSender
    BY DEF IInv, Fields
<1> QED  BY <1>1, Inductive, PTL


-----------------------------------------------------------------------------
(* Lost websockets are looked after.  A wsListen stops only when its stop  *)
(* channel is closed, or when its own websocket is no longer the           *)
(* connection's, or after it has started a reconnect or called Close; and  *)
(* what is called stays on its way until the stop channel is closed.       *)

\* A websocket of a connection was made for it.
Mine == \A v \in Voice : ws[v] # None => owner[ws[v]] = v

\* A stop channel in a field is open and in that field only; the one of a
\* websocket that is being identified is in none yet.
Channels ==
    /\ \A v \in Voice : close[v] # None => ~stopped[close[v]]
    /\ \A v, w \in Voice : close[v] # None /\ close[v] = close[w] => v = w
    /\ \A p \in Proc, v \in Voice : pc[p] = "identify" => close[v] # ws[voice[p]]

ListenLabels == {"idle", "loop", "read", "hello", "ready", "launch", "moved", "wait", "delete",
                 "Close", "closing"}

\* A wsListen works for the connection its websocket was made for; one that
\* was moved waits while that has none or another one.
Listening == \A d \in Dial :
    /\ pc[d] \in ListenLabels /\ after[d] = "idle"
    /\ pc[d] # "idle" => voice[d] = owner[d]
    /\ pc[d] \in {"wait", "delete"} => ws[owner[d]] # d

\* Watched, whatever the state of the websocket and of the lock.
LookedAfter(v) ==
    ws[v] # None /\ close[v] = ws[v] =>
        \/ pc[ws[v]] # "idle"
        \/ \E p \in Proc : voice[p] = v /\ pc[p] \in {"reconnect", "Close"}

WInv == Mine /\ Channels /\ Listening /\ \A v \in Voice \ gaveUp : LookedAfter(v)

\* A step of p that leaves the websockets and the stop channels alone.
Apart(p) ==
    /\ Alone(p) /\ UNCHANGED <<ws, close, owner, stopped>> /\ gaveUp \subseteq gaveUp'
    /\ pc'[p] # "identify"

\* p, if it is a wsListen, stops for a reason.
ListenMove(p) == p \in Dial =>
    /\ pc'[p] \in ListenLabels /\ after'[p] = "idle"
    /\ pc'[p] # "idle" => pc[p] # "idle" /\ voice'[p] = voice[p]
    /\ pc'[p] \in {"wait", "delete"} => pc[p] \in {"wait", "delete"}
    /\ pc'[p] = "idle" => pc[p] = "idle" \/ stopped[p] \/ ws[owner[p]] # p

\* p, if it is about to reconnect or to close, stays so or gives up.
LookMove(p) == pc[p] \in {"reconnect", "Close"} =>
    \/ voice[p] \in gaveUp'
    \/ pc'[p] \in {"reconnect", "Close"} /\ voice'[p] = voice[p]

LEMMA WatchKept ==
    ASSUME IInv, WInv, NEW p \in Proc, Apart(p), ListenMove(p), LookMove(p)
    PROVE  WInv'
<1>1. Mine'
    BY DEF WInv, Mine, Apart
<1>2. Channels'
    <2>1. \A q \in Proc : pc'[q] = "identify" => pc[q] = "identify" /\ voice'[q] = voice[q]
        BY DEF Apart, Alone
    <2> QED  BY <2>1 DEF WInv, Channels, Apart
<1>3. Listening'
    <2>1. ASSUME NEW d \in Dial
          PROVE  /\ pc'[d] \in ListenLabels /\ after'[d] = "idle"
                 /\ pc'[d] # "idle" => voice'[d] = owner[d]
                 /\ pc'[d] \in {"wait", "delete"} => ws[owner[d]] # d
        <3>1. CASE d = p
            BY <3>1 DEF WInv, Listening, ListenMove
        <3>2. CASE d # p
            BY <3>2, NotNone DEF WInv, Listening, Apart, Alone
        <3> QED  BY <3>1, <3>2
    <2> QED  BY <2>1 DEF Listening, Apart
<1>4. ASSUME NEW v \in Voice \ gaveUp'
      PROVE  LookedAfter(v)'
    <2> SUFFICES ASSUME ws[v] # None, close[v] = ws[v]
                 PROVE  \/ pc'[ws[v]] # "idle"
                        \/ \E q \in Proc : voice'[q] = v /\ pc'[q] \in {"reconnect", "Close"}
        BY DEF LookedAfter, Apart
    <2>1. ws[v] \in Dial /\ ws[v] \in Proc /\ owner[ws[v]] = v /\ ~stopped[ws[v]]
        BY NotNone DEF IInv, Types, ConnOK, WInv, Mine, Channels
    <2>2. v \notin gaveUp
        BY DEF Apart
    <2>3. CASE pc[ws[v]] # "idle"
        BY <2>1, <2>3 DEF Apart, Alone, ListenMove
    <2>4. CASE \E q \in Proc : voice[q] = v /\ pc[q] \in {"reconnect", "Close"}
        <3>1. PICK q \in Proc : voice[q] = v /\ pc[q] \in {"reconnect", "Close"}
            BY <2>4
        <3>2. voice'[q] = v /\ pc'[q] \in {"reconnect", "Close"}
            BY <3>1 DEF Apart, Alone, LookMove
        <3> QED  BY <3>2
    <2> QED  BY <2>2, <2>3, <2>4 DEF WInv, LookedAfter
<1> QED  BY <1>1, <1>2, <1>3, <1>4 DEF WInv

\* A step of a goroutine that is no wsListen and not about to reconnect or close.
LEMMA OtherKept ==
    ASSUME IInv, WInv, NEW p \in Proc, Apart(p), pc[p] \notin {"reconnect", "Close"},
           p \notin Dial \/ pc[p] \notin ListenLabels
    PROVE  WInv'
<1>1. p \notin Dial
    BY DEF WInv, Listening
<1> QED  BY <1>1, WatchKept DEF ListenMove, LookMove

\* A step that leaves all goroutines alone.
LEMMA NobodyKept ==
    ASSUME WInv, UNCHANGED <<procs, ws, close, owner, stopped, gaveUp>>
    PROVE  WInv'
BY DEF WInv, Mine, Channels, Listening, LookedAfter, procs

-----------------------------------------------------------------------------
(* The steps that leave the websockets and the stop channels alone. *)

LEMMA OpenWatch ==
    ASSUME IInv, WInv, NEW p \in Proc,
           \/ OpenRefused(p) \/ Open(p) \/ OpenGotSessionID(p) \/ OpenGivesUp(p) \/ IdentifyFails(p)
    PROVE  WInv'
<1>1. pc[p] \in {"open", "sessionID", "identify"} /\ UNCHANGED <<ws, close, owner, stopped, gaveUp>>
    BY DEF OpenRefused, Open, OpenGotSessionID, OpenGivesUp, IdentifyFails, conn, fields, server, history
<1>2. /\ Alone(p)
      /\ pc'[p] \in {"dial", "sessionID"} \/ pc'[p] = after[p]
    BY DEF OpenRefused, Open, OpenGotSessionID, OpenGivesUp, IdentifyFails, Goto, Returns, Alone,
           IInv, Types, ProcsOK, Afters
<1>3. after[p] \in Afters
    BY DEF IInv, Types, ProcsOK
<1>4. pc'[p] # "identify"
    BY <1>2, <1>3 DEF Afters
<1>5. pc[p] \notin ListenLabels
    BY <1>1 DEF ListenLabels
<1> QED  BY <1>1, <1>2, <1>4, <1>5, OtherKept DEF Apart

\* The steps of wsListen, but for a loss and a websocket taken away after 4014.
LEMMA ListenWatch ==
    ASSUME IInv, WInv, NEW d \in Dial,
           \/ ListenLoop(d) \/ Select(d) \/ OnHello(d) \/ UdpOpen(d) \/ UdpOpenRefused(d)
           \/ UdpOpenFails(d) \/ LaunchOpus(d) \/ ReadMoved(d) \/ ReadRefused(d)
           \/ Reconnected(d) \/ NotReconnected(d)
    PROVE  WInv'
<1>0. d \in Proc /\ after[d] = "idle"
    BY NotNone DEF WInv, Listening
<1>1. /\ pc[d] \in {"loop", "read", "hello", "ready", "launch", "wait"}
      /\ UNCHANGED <<ws, close, owner, stopped, gaveUp>>
    BY DEF ListenLoop, Select, OnHello, UdpOpen, UdpOpenRefused, UdpOpenFails, LaunchOpus, ReadMoved,
           ReadRefused, Reconnected, NotReconnected, Crash, conn, fields, server, history
<1>2. CASE ListenLoop(d) \/ ReadRefused(d)
    <2>1. /\ Alone(d) /\ voice'[d] = voice[d] /\ after'[d] = "idle"
          /\ pc'[d] \in {"loop", "read", "Close"}
        BY <1>0, <1>2 DEF ListenLoop, ReadRefused, Crash, Invoke, Alone, procs, IInv, Types, ProcsOK
    <2> QED
        BY <1>0, <1>1, <2>1, WatchKept DEF Apart, ListenMove, LookMove, ListenLabels
<1>3. CASE \/ OnHello(d) \/ UdpOpen(d) \/ UdpOpenRefused(d)
           \/ UdpOpenFails(d) \/ LaunchOpus(d) \/ ReadMoved(d) \/ NotReconnected(d)
    <2>1. \E l \in {"loop", "launch", "moved", "delete"} :
            Goto(d, l) /\ (l = "delete" => pc[d] = "wait")
        BY <1>3 DEF OnHello, UdpOpen, UdpOpenRefused, UdpOpenFails, LaunchOpus, ReadMoved,
                      NotReconnected
    <2>2. /\ Alone(d) /\ voice'[d] = voice[d] /\ after'[d] = "idle"
          /\ pc'[d] \in {"loop", "launch", "moved", "delete"} /\ (pc'[d] = "delete" => pc[d] = "wait")
        BY <1>0, <2>1 DEF Goto, Alone, IInv, Types, ProcsOK
    <2> QED
        BY <1>0, <1>1, <2>2, WatchKept DEF Apart, ListenMove, LookMove, ListenLabels
<1>4. CASE Select(d) \/ Reconnected(d)
    <2>1. PICK l : /\ Goto(d, l)
                   /\ \/ l = "idle" /\ (stopped[d] \/ pc[d] = "wait")
                      \/ l \in {"loop", "hello", "ready"}
        <3>1. CASE Select(d)
            <4>1. next[reading[d]] \in {"hello", "ready", "other"}
                BY <3>1 DEF Select, IInv, Types, ServerOK, ProcsOK, Sources
            <4>2. Goto(d, IF stopped[d] THEN "idle"
                          ELSE IF next[reading[d]] = "other" THEN "loop" ELSE next[reading[d]])
                BY <3>1 DEF Select
            <4> QED  BY <4>1, <4>2
        <3>2. CASE Reconnected(d)
            BY <3>2 DEF Reconnected
        <3> QED  BY <1>4, <3>1, <3>2
    <2>2. /\ Alone(d) /\ after'[d] = "idle" /\ pc'[d] = l
          /\ l # "idle" => voice'[d] = voice[d]
        BY <1>0, <2>1 DEF Goto, Alone, IInv, Types, ProcsOK
    <2>3. l = "idle" => stopped[d] \/ ws[owner[d]] # d
        BY <2>1 DEF WInv, Listening
    <2> QED
        BY <1>0, <1>1, <2>1, <2>2, <2>3, WatchKept DEF Apart, ListenMove, LookMove, ListenLabels
<1> QED  BY <1>2, <1>3, <1>4

\* The error of a websocket that is the connection's starts a reconnect.
LEMMA ReadErrorWatch ==
    ASSUME IInv, WInv, NEW d \in Dial, ReadError(d)
    PROVE  WInv'
<1> DEFINE v == voice[d]
<1>1. /\ d \in Proc /\ pc[d] = "read" /\ v \in Voice /\ owner[d] = v /\ after[d] = "idle"
      /\ UNCHANGED <<ws, close, owner, stopped, gaveUp>>
    BY NotNone DEF ReadError, WInv, Listening, IInv, Types, ProcsOK, conn, fields, server, history
<1>2. CASE ws[v] # d
    <2>1. Goto(d, "idle")
        BY <1>2 DEF ReadError, Of
    <2>2. Alone(d) /\ pc'[d] = "idle" /\ after'[d] = "idle"
        BY <1>1, <2>1 DEF Goto, Alone, IInv, Types, ProcsOK
    <2> QED
        BY <1>1, <1>2, <2>2, WatchKept DEF Apart, ListenMove, LookMove, ListenLabels
<1>3. CASE ws[v] = d
    <2>1. PICK r \in Recon : /\ pc[r] = "idle"
                             /\ pc' = [pc EXCEPT ![d] = "idle", ![r] = "reconnect"]
                             /\ voice' = [voice EXCEPT ![d] = None, ![r] = v]
                             /\ UNCHANGED after
        BY <1>3 DEF ReadError, LaunchReconnect, Of
    <2>2. /\ r \in Proc /\ r # d /\ r \notin Dial
          /\ pc'[d] = "idle" /\ pc'[r] = "reconnect" /\ voice'[r] = v
          /\ \A q \in Proc : q # d /\ q # r => pc'[q] = pc[q] /\ voice'[q] = voice[q]
        BY <1>1, <2>1, NotNone DEF IInv, Types, ProcsOK
    <2>3. Mine' /\ Channels'
        <3>1. \A q \in Proc : pc'[q] = "identify" => pc[q] = "identify" /\ voice'[q] = voice[q]
            BY <2>2
        <3> QED  BY <1>1, <3>1 DEF WInv, Mine, Channels
    <2>4. Listening'
        BY <1>1, <2>1, <2>2, NotNone, ZenonT(30) DEF WInv, Listening, ListenLabels
    <2>5. ASSUME NEW w \in Voice \ gaveUp', ws[w] # None, close[w] = ws[w]
          PROVE  \/ pc'[ws[w]] # "idle"
                 \/ \E q \in Proc : voice'[q] = w /\ pc'[q] \in {"reconnect", "Close"}
        <3>1. CASE w = v
            BY <2>2, <3>1
        <3>2. CASE w # v
            <4>1. ws[w] \in Dial /\ ws[w] \in Proc /\ owner[ws[w]] = w /\ ws[w] # d
                BY <1>1, <2>5, <3>2, NotNone DEF IInv, Types, ConnOK, WInv, Mine
            <4>2. \/ pc[ws[w]] # "idle"
                  \/ \E q \in Proc : voice[q] = w /\ pc[q] \in {"reconnect", "Close"}
                BY <1>1, <2>5 DEF WInv, LookedAfter
            <4>3. \A q \in Proc : pc[q] \in {"reconnect", "Close"} => q # d /\ q # r
                BY <1>1, <2>1
            <4> QED  BY <2>2, <4>1, <4>2, <4>3
        <3> QED  BY <3>1, <3>2
    <2>6. \A w \in Voice \ gaveUp' : LookedAfter(w)'
        BY <1>1, <2>5 DEF LookedAfter
    <2> QED  BY <2>3, <2>4, <2>6 DEF WInv
<1> QED  BY <1>2, <1>3

\* 4014: the connection has no websocket any more.
LEMMA AbandonWatch ==
    ASSUME IInv, WInv, NEW d \in Dial, Abandon(d)
    PROVE  WInv'
<1> DEFINE v == voice[d]
<1>1. /\ d \in Proc /\ pc[d] = "moved" /\ v \in Voice /\ owner[d] = v /\ after[d] = "idle"
      /\ lock[v] = None /\ ws' = [ws EXCEPT ![v] = None]
      /\ UNCHANGED <<close, owner, stopped, gaveUp>>
    BY NotNone DEF Abandon, WInv, Listening, IInv, Types, ProcsOK, Of, Free, server, history
<1>2. /\ Alone(d) /\ pc'[d] = "wait" /\ voice'[d] = v /\ after'[d] = "idle"
    BY <1>1 DEF Abandon, Goto, Alone, IInv, Types, ProcsOK
<1>3. ws'[v] = None /\ \A w \in Voice : w # v => ws'[w] = ws[w]
    BY <1>1 DEF IInv, Types, ConnOK
<1>4. Mine'
    BY <1>1, <1>3 DEF WInv, Mine
<1>5. Channels'
    <2>1. ASSUME NEW q \in Proc, pc'[q] = "identify"
          PROVE  pc[q] = "identify" /\ voice'[q] = voice[q] /\ ws'[voice[q]] = ws[voice[q]]
        <3>1. pc[q] = "identify" /\ voice'[q] = voice[q] /\ voice[q] \in Voice
            BY <1>2, <2>1 DEF Alone, IInv, Types, ProcsOK
        <3>2. lock[voice[q]] = q
            BY <3>1 DEF IInv, Locking, Holding
        <3> QED  BY <1>1, <1>3, <3>1, <3>2, NotNone
    <2> QED  BY <1>1, <2>1 DEF WInv, Channels
<1>6. Listening'
    BY <1>1, <1>2, <1>3, NotNone DEF WInv, Listening, ListenLabels, Alone
<1>7. ASSUME NEW w \in Voice \ gaveUp', ws'[w] # None, close[w] = ws'[w]
      PROVE  \/ pc'[ws'[w]] # "idle"
             \/ \E q \in Proc : voice'[q] = w /\ pc'[q] \in {"reconnect", "Close"}
    <2>1. ws'[w] = ws[w] /\ ws[w] \in Dial /\ ws[w] \in Proc
        BY <1>3, <1>7, NotNone DEF IInv, Types, ConnOK
    <2>2. \/ pc[ws[w]] # "idle"
          \/ \E q \in Proc : voice[q] = w /\ pc[q] \in {"reconnect", "Close"}
        BY <1>1, <1>7, <2>1 DEF WInv, LookedAfter
    <2> QED  BY <1>1, <1>2, <2>1, <2>2 DEF Alone
<1>8. \A w \in Voice \ gaveUp' : LookedAfter(w)'
    BY <1>1, <1>7 DEF LookedAfter
<1> QED  BY <1>4, <1>5, <1>6, <1>8 DEF WInv

-----------------------------------------------------------------------------
(* Close and open. *)

\* Of a step on connection v by p: the other connections keep what they have,
\* and who works for them stays.
Elsewhere(p, v) ==
    /\ \A w \in Voice : w # v => ws'[w] = ws[w] /\ close'[w] = close[w]
    /\ \A w \in Voice : w \in gaveUp' /\ w # v <=> w \in gaveUp /\ w # v
    /\ \A q \in Proc : pc[q] \in {"reconnect", "Close"} /\ q # p => pc'[q] = pc[q] /\ voice'[q] = voice[q]
    /\ \A d \in Dial : pc[d] # "idle" /\ d # p => pc'[d] # "idle"

LEMMA ElsewhereKept ==
    ASSUME IInv, WInv, NEW p \in Proc, NEW v \in Voice, voice[p] = v, pc[p] # "idle", Elsewhere(p, v),
           LookedAfter(v)'
    PROVE  \A w \in Voice \ gaveUp' : LookedAfter(w)'
<1>1. ASSUME NEW w \in Voice \ gaveUp', w # v, ws'[w] # None, close'[w] = ws'[w]
      PROVE  \/ pc'[ws'[w]] # "idle"
             \/ \E q \in Proc : voice'[q] = w /\ pc'[q] \in {"reconnect", "Close"}
    <2>1. ws'[w] = ws[w] /\ close[w] = ws[w] /\ w \notin gaveUp
        BY <1>1 DEF Elsewhere
    <2>2. ws[w] \in Dial /\ owner[ws[w]] = w
        BY <1>1, <2>1, NotNone DEF IInv, Types, ConnOK, WInv, Mine
    <2>3. ws[w] # p
        BY <1>1, <2>2 DEF WInv, Listening
    <2>4. CASE pc[ws[w]] # "idle"
        BY <2>1, <2>2, <2>3, <2>4 DEF Elsewhere
    <2>5. CASE \E q \in Proc : voice[q] = w /\ pc[q] \in {"reconnect", "Close"}
        BY <1>1, <2>5 DEF Elsewhere
    <2> QED  BY <1>1, <2>1, <2>4, <2>5 DEF WInv, LookedAfter
<1>2. \A w \in Voice \ gaveUp' : w # v => LookedAfter(w)'
    BY <1>1 DEF LookedAfter
<1> QED  BY <1>2

LEMMA CloseBeginWatch ==
    ASSUME IInv, WInv, NEW p \in Proc, CloseBegin(p)
    PROVE  WInv'
<1>0. PICK v \in Voice : voice[p] = v
    BY DEF CloseBegin, IInv, Types, ProcsOK
<1>1. /\ pc[p] = "Close" /\ v \in Voice /\ lock[v] = None
      /\ stopped' = [d \in Dial |-> stopped[d] \/ d = close[v]]
      /\ close' = [close EXCEPT ![v] = None] /\ gaveUp' = gaveUp \ {v}
      /\ UNCHANGED <<ws, owner>>
      /\ Returns(p) \/ Goto(p, "closing")
    BY <1>0 DEF CloseBegin, Of, Free, IInv, Types, ProcsOK
<1>2. /\ Alone(p)
      /\ \/ pc'[p] = after[p] /\ after'[p] = "idle" /\ (after[p] # "idle" => voice'[p] = voice[p])
         \/ pc'[p] = "closing" /\ after'[p] = after[p] /\ voice'[p] = voice[p]
      /\ after[p] \in Afters
    BY <1>0, <1>1 DEF Returns, Goto, Alone, IInv, Types, ProcsOK, Afters
<1>3. /\ close'[v] = None /\ \A w \in Voice : w # v => close'[w] = close[w]
      /\ \A w \in Voice : close[w] \in Dial \cup {None}
    BY <1>1 DEF IInv, Types, ConnOK
<1>4. Mine'
    BY <1>1 DEF WInv, Mine
<1>5. Channels'
    <2>1. \A w \in Voice : close'[w] # None => ~stopped'[close'[w]]
        BY <1>1, <1>3, NotNone, ZenonT(30) DEF WInv, Channels
    <2>2. \A u, w \in Voice : close'[u] # None /\ close'[u] = close'[w] => u = w
        BY <1>3 DEF WInv, Channels
    <2>3. ASSUME NEW q \in Proc, pc'[q] = "identify", NEW w \in Voice
          PROVE  close'[w] # ws'[voice'[q]]
        <3>1. q # p
            BY <1>2, <2>3 DEF Afters
        <3>2. pc[q] = "identify" /\ voice'[q] = voice[q]
            BY <1>2, <2>3, <3>1 DEF Alone
        <3>3. ws[voice[q]] # None /\ close[w] # ws[voice[q]]
            BY <3>2 DEF IInv, Dialling, WInv, Channels
        <3> QED  BY <1>1, <1>3, <3>2, <3>3
    <2> QED  BY <2>1, <2>2, <2>3 DEF Channels
<1>6. Listening'
    BY <1>0, <1>1, <1>2, NotNone DEF WInv, Listening, ListenLabels, Alone
<1>7. Elsewhere(p, v)
    BY <1>0, <1>1, <1>2, <1>3, NotNone DEF Elsewhere, Alone
<1>8. LookedAfter(v)'
    BY <1>3 DEF LookedAfter
<1> QED  BY <1>0, <1>1, <1>4, <1>5, <1>6, <1>7, <1>8, ElsewhereKept DEF WInv

\* The end of Close, and a dial that fails.
LEMMA DropWatch ==
    ASSUME IInv, WInv, NEW p \in Proc, CloseEnd(p) \/ DialFails(p)
    PROVE  WInv'
<1>0. PICK v \in Voice : voice[p] = v
    BY DEF CloseEnd, DialFails, IInv, Types, ProcsOK
<1>1. /\ pc[p] \in {"closing", "dial"} /\ v \in Voice
      /\ ws' = [ws EXCEPT ![v] = None] /\ UNCHANGED <<close, owner, stopped, gaveUp>>
      /\ Returns(p)
    BY <1>0 DEF CloseEnd, DialFails, Of, IInv, Types, ProcsOK, server, history
<1>2. /\ Alone(p) /\ after[p] \in Afters
      /\ pc'[p] = after[p] /\ after'[p] = "idle" /\ (after[p] # "idle" => voice'[p] = voice[p])
    BY <1>0, <1>1 DEF Returns, Alone, IInv, Types, ProcsOK, Afters
<1>3. ws'[v] = None /\ \A w \in Voice : w # v => ws'[w] = ws[w]
    BY <1>1 DEF IInv, Types, ConnOK
<1>4. Mine'
    BY <1>1, <1>3 DEF WInv, Mine
<1>5. Channels'
    <2>1. ASSUME NEW q \in Proc, pc'[q] = "identify"
          PROVE  pc[q] = "identify" /\ voice'[q] = voice[q] /\ ws'[voice[q]] = ws[voice[q]]
        <3>1. q # p
            BY <1>2, <2>1 DEF Afters
        <3>2. pc[q] = "identify" /\ voice'[q] = voice[q] /\ voice[q] \in Voice
            BY <1>2, <2>1, <3>1 DEF Alone, IInv, Types, ProcsOK
        <3>3. lock[voice[q]] = q /\ lock[v] = p
            BY <1>0, <1>1, <3>2 DEF IInv, Locking, Holding
        <3> QED  BY <1>3, <3>1, <3>2, <3>3
    <2> QED  BY <1>1, <2>1 DEF WInv, Channels
<1>6. Listening'
    <2>1. \A d \in Dial : d = p => pc'[d] = "idle" /\ after'[d] = "idle"
        BY <1>2 DEF WInv, Listening
    <2>2. \A d \in Dial : pc[d] \in {"wait", "delete"} => ws'[owner[d]] # d
        <3>1. ASSUME NEW d \in Dial, pc[d] \in {"wait", "delete"}
              PROVE  ws'[owner[d]] # d
            <4>1. owner[d] \in Voice /\ ws[owner[d]] # d
                BY <3>1, NotNone DEF WInv, Listening, IInv, Types, ProcsOK
            <4> QED  BY <1>3, <4>1, NotNone
        <3> QED  BY <3>1
    <2>3. \A d \in Dial : d # p => pc'[d] = pc[d] /\ voice'[d] = voice[d] /\ after'[d] = after[d]
        BY <1>2, NotNone DEF Alone
    <2> QED  BY <1>1, <2>1, <2>2, <2>3 DEF WInv, Listening, ListenLabels
<1>7. Elsewhere(p, v)
    BY <1>0, <1>1, <1>2, <1>3, NotNone DEF Elsewhere, Alone
<1>8. LookedAfter(v)'
    BY <1>3 DEF LookedAfter
<1> QED  BY <1>0, <1>1, <1>4, <1>5, <1>6, <1>7, <1>8, ElsewhereKept DEF WInv

LEMMA DialWatch ==
    ASSUME IInv, WInv, NEW p \in Proc, DialSucceeds(p)
    PROVE  WInv'
<1>0. PICK v \in Voice : voice[p] = v
    BY DEF DialSucceeds, IInv, Types, ProcsOK
<1>1. PICK d \in Dial :
        /\ pc[p] = "dial" /\ ~Used(d) /\ ws' = [ws EXCEPT ![v] = d]
        /\ owner' = [owner EXCEPT ![d] = v] /\ stopped' = [stopped EXCEPT ![d] = TRUE]
        /\ Goto(p, "identify") /\ UNCHANGED <<close, gaveUp>>
    BY <1>0 DEF DialSucceeds, Of
<1>2. /\ Alone(p) /\ pc'[p] = "identify" /\ voice'[p] = voice[p] /\ v \in Voice /\ p \notin Dial
    BY <1>0, <1>1, NotNone DEF Goto, Alone, IInv, Types, ProcsOK, WInv, Listening, ListenLabels
<1>3. /\ ws'[v] = d /\ \A w \in Voice : w # v => ws'[w] = ws[w]
      /\ owner'[d] = v /\ \A e \in Dial : e # d => owner'[e] = owner[e] /\ stopped'[e] = stopped[e]
    BY <1>1, <1>2 DEF IInv, Types, ConnOK, ServerOK
<1>4. /\ pc[d] = "idle" /\ \A w \in Voice : ws[w] # d /\ close[w] # d
    BY <1>1 DEF Used
<1>5. \A w \in Voice : ws[w] \in Dial \cup {None} /\ close[w] \in Dial \cup {None}
    BY DEF IInv, Types, ConnOK
<1>6. Mine'
    BY <1>3, <1>4, <1>5 DEF WInv, Mine
<1>7. Channels'
    <2>1. \A w \in Voice : close[w] # None => ~stopped'[close[w]]
        BY <1>3, <1>4, <1>5 DEF WInv, Channels
    <2>2. ASSUME NEW q \in Proc, pc'[q] = "identify", NEW w \in Voice
          PROVE  close[w] # ws'[voice'[q]]
        <3>1. CASE q = p
            BY <1>0, <1>2, <1>3, <1>4, <3>1
        <3>2. CASE q # p
            <4>1. pc[q] = "identify" /\ voice'[q] = voice[q] /\ voice[q] \in Voice
                BY <1>2, <2>2, <3>2 DEF Alone, IInv, Types, ProcsOK
            <4>2. lock[voice[q]] = q /\ lock[v] = p
                BY <1>0, <1>1, <1>2, <4>1 DEF IInv, Locking, Holding
            <4>3. ws'[voice[q]] = ws[voice[q]]
                BY <1>3, <3>2, <4>1, <4>2
            <4> QED  BY <4>1, <4>3 DEF WInv, Channels
        <3> QED  BY <3>1, <3>2
    <2> QED  BY <1>1, <2>1, <2>2 DEF WInv, Channels
<1>8. Listening'
    <2>1. ASSUME NEW e \in Dial
          PROVE  /\ pc'[e] \in ListenLabels /\ after'[e] = "idle"
                 /\ pc'[e] # "idle" => voice'[e] = owner'[e]
                 /\ pc'[e] \in {"wait", "delete"} => ws'[owner'[e]] # e
        <3>1. pc'[e] = pc[e] /\ voice'[e] = voice[e] /\ after'[e] = after[e] /\ e \in Proc
            BY <1>2, NotNone DEF Alone
        <3>2. CASE pc[e] = "idle"
            BY <3>1, <3>2 DEF WInv, Listening
        <3>3. CASE pc[e] # "idle"
            <4>1. e # d /\ owner'[e] = owner[e] /\ owner[e] \in Voice
                BY <1>3, <1>4, <3>1, <3>3 DEF WInv, Listening, IInv, Types, ProcsOK
            <4>2. ws'[owner[e]] = e => ws[owner[e]] = e
                BY <1>3, <4>1
            <4> QED  BY <3>1, <4>1, <4>2 DEF WInv, Listening
        <3> QED  BY <3>2, <3>3
    <2> QED  BY <2>1 DEF Listening
<1>9. Elsewhere(p, v)
    BY <1>0, <1>1, <1>2, <1>3, NotNone DEF Elsewhere, Alone
<1>10. LookedAfter(v)'
    BY <1>1, <1>2, <1>3, <1>4 DEF LookedAfter
<1> QED  BY <1>0, <1>1, <1>2, <1>6, <1>7, <1>8, <1>9, <1>10, ElsewhereKept DEF WInv

LEMMA IdentifyWatch ==
    ASSUME IInv, WInv, NEW p \in Proc, Identify(p)
    PROVE  WInv'
<1>0. PICK v \in Voice : voice[p] = v
    BY DEF Identify, IInv, Types, ProcsOK
<1>d. PICK d : d = ws[v]
    OBVIOUS
<1>1. /\ pc[p] = "identify" /\ d \in Dial /\ d \in Proc /\ pc[d] = "idle" /\ owner[d] = v
      /\ lock[v] = p /\ p \notin Dial
    <2>1. pc[p] = "identify"
        BY DEF Identify
    <2>2. d # None /\ pc[d] = "idle"
        BY <1>0, <1>d, <2>1 DEF IInv, Dialling
    <2>3. d \in Dial /\ d \in Proc /\ owner[d] = v
        BY <1>0, <1>d, <2>2, NotNone DEF IInv, Types, ConnOK, WInv, Mine
    <2>4. lock[v] = p
        BY <1>0, <1>d, <2>1 DEF IInv, Locking, Holding
    <2>5. p \notin Dial
        BY <2>1 DEF WInv, Listening, ListenLabels
    <2> QED  BY <2>1, <2>2, <2>3, <2>4, <2>5
<1>2. /\ close' = [close EXCEPT ![v] = d] /\ stopped' = [stopped EXCEPT ![d] = FALSE]
      /\ pc' = [pc EXCEPT ![p] = after[p], ![d] = "loop"]
      /\ voice' = [voice EXCEPT ![p] = IF after[p] = "idle" THEN None ELSE v, ![d] = v]
      /\ after' = [after EXCEPT ![p] = "idle"]
      /\ UNCHANGED <<ws, owner, gaveUp>>
    BY <1>0, <1>d DEF Identify, Of
<1>3. /\ pc'[p] = after[p] /\ pc'[d] = "loop" /\ voice'[d] = v /\ after'[d] = after[d]
      /\ after[p] \in Afters
      /\ \A q \in Proc : q # p /\ q # d => pc'[q] = pc[q] /\ voice'[q] = voice[q] /\ after'[q] = after[q]
    BY <1>1, <1>2 DEF IInv, Types, ProcsOK
<1>4. /\ close'[v] = d /\ \A w \in Voice : w # v => close'[w] = close[w]
      /\ ~stopped'[d] /\ \A e \in Dial : e # d => stopped'[e] = stopped[e]
      /\ \A w \in Voice : close[w] \in Dial \cup {None}
    BY <1>1, <1>2 DEF IInv, Types, ConnOK, ServerOK
<1>5. \A w \in Voice : close[w] # d
    BY <1>0, <1>d, <1>1 DEF WInv, Channels
<1>6. Mine'
    BY <1>2 DEF WInv, Mine
<1>7. Channels'
    <2>1. \A w \in Voice : close'[w] # None => ~stopped'[close'[w]]
        BY <1>4, <1>5 DEF WInv, Channels
    <2>2. \A u, w \in Voice : close'[u] # None /\ close'[u] = close'[w] => u = w
        BY <1>4, <1>5 DEF WInv, Channels
    <2>3. ASSUME NEW q \in Proc, pc'[q] = "identify", NEW w \in Voice
          PROVE  close'[w] # ws[voice'[q]]
        <3>1. q # p /\ q # d
            BY <1>3, <2>3 DEF Afters
        <3>2. pc[q] = "identify" /\ voice'[q] = voice[q] /\ voice[q] \in Voice
            BY <1>3, <2>3, <3>1 DEF IInv, Types, ProcsOK
        <3>3. lock[voice[q]] = q
            BY <3>2 DEF IInv, Locking, Holding
        <3>4. voice[q] # v /\ ws[voice[q]] # None
            BY <1>1, <3>1, <3>2, <3>3 DEF IInv, Dialling
        <3>5. ws[voice[q]] # d
            BY <1>1, <3>2, <3>4 DEF WInv, Mine
        <3>6. close[w] # ws[voice[q]]
            BY <3>2 DEF WInv, Channels
        <3> QED  BY <1>4, <3>2, <3>5, <3>6
    <2> QED  BY <1>2, <2>1, <2>2, <2>3 DEF Channels
<1>8. Listening'
    <2>1. ASSUME NEW e \in Dial
          PROVE  /\ pc'[e] \in ListenLabels /\ after'[e] = "idle"
                 /\ pc'[e] # "idle" => voice'[e] = owner[e]
                 /\ pc'[e] \in {"wait", "delete"} => ws[owner[e]] # e
        <3>1. CASE e = d
            BY <1>1, <1>3, <3>1 DEF WInv, Listening, ListenLabels
        <3>2. CASE e # d
            <4>1. pc'[e] = pc[e] /\ voice'[e] = voice[e] /\ after'[e] = after[e]
                BY <1>1, <1>3, <3>2, NotNone
            <4> QED  BY <4>1 DEF WInv, Listening
        <3> QED  BY <3>1, <3>2
    <2> QED  BY <1>2, <2>1 DEF Listening
<1>9. Elsewhere(p, v)
    BY <1>0, <1>d, <1>1, <1>2, <1>3, <1>4, NotNone DEF Elsewhere
<1>10. LookedAfter(v)'
    <2>1. ws'[v] = d
        BY <1>0, <1>d, <1>2
    <2> QED  BY <1>3, <2>1 DEF LookedAfter
<1> QED  BY <1>0, <1>d, <1>1, <1>6, <1>7, <1>8, <1>9, <1>10, ElsewhereKept DEF WInv

-----------------------------------------------------------------------------
(* Join, Disconnect, reconnect and the events of the gateway. *)

LEMMA DeleteWatch ==
    ASSUME IInv, WInv, NEW p \in Proc, Delete(p)
    PROVE  WInv'
<1>1. pc[p] = "delete" /\ UNCHANGED <<ws, close, owner, stopped, gaveUp>>
    BY DEF Delete, fields, server, history
<1>2. CASE p \in Dial
    <2>1. Alone(p) /\ pc'[p] = "Close" /\ voice'[p] = voice[p] /\ after'[p] = "idle"
        BY <1>2 DEF Delete, Invoke, Alone, IInv, Types, ProcsOK
    <2> QED  BY <1>1, <2>1, WatchKept DEF Apart, ListenMove, LookMove, ListenLabels
<1>3. CASE p \notin Dial
    <2>1. Alone(p) /\ pc'[p] = "idle"
        BY <1>3 DEF Delete, Goto, Alone, IInv, Types, ProcsOK
    <2> QED  BY <1>1, <1>3, <2>1, OtherKept DEF Apart
<1> QED  BY <1>2, <1>3

LEMMA JoinWatch ==
    ASSUME IInv, WInv, NEW p \in Proc,
           \/ p \in App \cup Recon /\ pc[p] \in {"idle", "pause"} /\ ChannelVoiceJoin(p)
           \/ Insert(p) \/ Ask(p) \/ AskFails(p) \/ Connected(p) \/ NotConnected(p)
    PROVE  WInv'
<1>1. UNCHANGED <<ws, close, owner, stopped, gaveUp>>
    BY DEF ChannelVoiceJoin, Insert, Ask, AskFails, Connected, NotConnected, Crash, conn, fields, server,
           history
<1>2. CASE p \in App \cup Recon /\ pc[p] \in {"idle", "pause"} /\ ChannelVoiceJoin(p)
    <2>1. Alone(p) /\ pc'[p] \in {"insert", "write"} /\ p \notin Dial
        BY <1>2, NotNone DEF ChannelVoiceJoin, Alone, IInv, Types, ProcsOK
    <2> QED  BY <1>1, <1>2, <2>1, OtherKept DEF Apart
<1>3. CASE Insert(p) \/ Ask(p) \/ AskFails(p) \/ Connected(p) \/ NotConnected(p)
    <2>1. pc[p] \in {"insert", "write", "waitConnected"}
        BY <1>3 DEF Insert, Ask, AskFails, Connected, NotConnected
    <2>2. Alone(p) /\ pc'[p] # "identify"
        BY <1>3 DEF Insert, Ask, AskFails, Connected, NotConnected, Crash, Goto, Invoke, Alone, procs,
           IInv, Types, ProcsOK
    <2> QED  BY <1>1, <2>1, <2>2, OtherKept DEF Apart, ListenLabels
<1> QED  BY <1>2, <1>3

LEMMA DisconnectWatch ==
    ASSUME IInv, WInv, NEW a \in App, NEW v \in Voice,
           \/ Disconnect(a, v)
           \/ /\ pc[a] = "idle" /\ Start(a, v, "Close")
              /\ UNCHANGED <<conn, server, loops, gateway, history>>
    PROVE  WInv'
<1>1. a \in Proc /\ a \notin Dial /\ pc[a] = "idle"
    BY NotNone DEF Disconnect
<1>2. UNCHANGED <<ws, close, owner, stopped, gaveUp>>
    BY DEF Disconnect, Crash, conn, fields, server, history
<1>3. Alone(a) /\ pc'[a] \in {"Close", "idle"}
    BY <1>1 DEF Disconnect, Start, Crash, Alone, procs, IInv, Types, ProcsOK
<1> QED  BY <1>1, <1>2, <1>3, OtherKept DEF Apart

LEMMA ReconnectWatch ==
    ASSUME IInv, WInv, NEW r \in Recon, ReconnectBegins(r) \/ JoinFailed(r) \/ ReconnectEnds(r)
    PROVE  WInv'
<1>1. r \in Proc /\ r \notin Dial
    BY NotNone
<1>2. CASE ReconnectBegins(r)
    <2>1. pc[r] = "reconnect" /\ UNCHANGED <<ws, close, owner, stopped>>
        BY <1>2 DEF ReconnectBegins, server
    <2>2. CASE reconnecting[voice[r]]
        <3>1. Goto(r, "idle") /\ gaveUp' = gaveUp \cup {voice[r]}
            BY <1>2, <2>2 DEF ReconnectBegins, Of
        <3>2. Alone(r) /\ pc'[r] = "idle"
            BY <1>1, <3>1 DEF Goto, Alone, IInv, Types, ProcsOK
        <3> QED  BY <1>1, <2>1, <3>1, <3>2, WatchKept DEF Apart, ListenMove, LookMove
    <2>3. CASE ~reconnecting[voice[r]]
        <3>1. Alone(r) /\ pc'[r] = "Close" /\ voice'[r] = voice[r] /\ gaveUp' = gaveUp
            BY <1>1, <1>2, <2>3 DEF ReconnectBegins, Of, Alone, IInv, Types, ProcsOK
        <3> QED  BY <1>1, <2>1, <3>1, WatchKept DEF Apart, ListenMove, LookMove
    <2> QED  BY <2>2, <2>3
<1>3. CASE JoinFailed(r) \/ ReconnectEnds(r)
    <2>1. pc[r] \in {"failed", "done"} /\ UNCHANGED <<ws, close, owner, stopped, gaveUp>>
        BY <1>3 DEF JoinFailed, ReconnectEnds, Crash, conn, fields, server, history
    <2>2. Alone(r) /\ pc'[r] # "identify"
        BY <1>1, <1>3, <2>1 DEF JoinFailed, ReconnectEnds, Crash, Goto, Alone, procs, IInv, Types, ProcsOK
    <2> QED  BY <1>1, <2>1, <2>2, OtherKept DEF Apart
<1> QED  BY <1>2, <1>3

LEMMA EventWatch ==
    ASSUME IInv, WInv, NEW h \in Handler,
           OnVoiceStateUpdate(h) \/ \E e \in owed : Deliver(h, e)
    PROVE  WInv'
<1>1. h \in Proc /\ h \notin Dial
    BY NotNone
<1>2. pc[h] \in {"idle", "state"} /\ UNCHANGED <<ws, close, owner, stopped, gaveUp>>
    BY DEF OnVoiceStateUpdate, Deliver, conn, fields, server, history
<1>3. Alone(h) /\ pc'[h] # "identify"
    <2>1. CASE OnVoiceStateUpdate(h)
        BY <1>1, <2>1 DEF OnVoiceStateUpdate, Goto, Alone, IInv, Types, ProcsOK
    <2>2. ASSUME NEW e \in owed, Deliver(h, e)
          PROVE  Alone(h) /\ pc'[h] # "identify"
        <3>1. e \in {"state", "server"}
            BY DEF IInv, Types, GatewayOK
        <3> QED  BY <1>1, <1>2, <2>2, <3>1 DEF Deliver, Alone, procs, IInv, Types, ProcsOK
    <2> QED  BY <2>1, <2>2
<1> QED  BY <1>1, <1>2, <1>3, OtherKept DEF Apart

\* A reconnect is started.
LEMMA StartWatch ==
    ASSUME IInv, WInv, NEW r \in Recon, NEW v, pc[r] = "idle", Start(r, v, "reconnect"),
           UNCHANGED <<conn, server, history>>
    PROVE  WInv'
<1>1. r \in Proc /\ r \notin Dial
    BY NotNone
<1>2. UNCHANGED <<ws, close, owner, stopped, gaveUp>>
    BY DEF conn, fields, server, history
<1>3. Alone(r) /\ pc'[r] = "reconnect"
    BY <1>1 DEF Start, Alone, IInv, Types, ProcsOK
<1> QED  BY <1>1, <1>2, <1>3, OtherKept DEF Apart

\* The steps that move no goroutine of this module's.
LEMMA QuietWatch ==
    ASSUME WInv,
           \/ \E d \in Dial : Goroutines(d) \/ SenderFails(d) \/ Lost(d) \/ Refused(d) \/ Moved(d)
           \/ RegionChange \/ Outage \/ UNCHANGED vars
    PROVE  WInv'
<1>1. UNCHANGED <<procs, ws, close, owner, stopped, gaveUp>>
    BY DEF Goroutines, Beat, SenderStarts, SenderEnds, SetReady, SenderStops, SenderFails, SenderReturns,
       ReceiverClosed, ReceiverStops, Lost, Refused, Moved, Breaks, RegionChange, Outage,
       vars, conn, fields, server, history
<1> QED  BY <1>1, NobodyKept

LEMMA BackWatch ==
    ASSUME IInv, WInv, Back
    PROVE  WInv'
<1>1. UNCHANGED <<conn, server, loops, history>>
    BY DEF Back
<1>2. CASE UNCHANGED procs
    <2>1. UNCHANGED <<procs, ws, close, owner, stopped, gaveUp>>
        BY <1>1, <1>2 DEF conn, fields, server, history
    <2> QED  BY <2>1, NobodyKept
<1>3. CASE \E r \in Recon : pc[r] = "idle" /\ Start(r, current, "reconnect")
    BY <1>1, <1>3, StartWatch
<1> QED  BY <1>2, <1>3 DEF Back

LEMMA ReceiverFailsWatch ==
    ASSUME IInv, WInv, NEW d \in Dial, ReceiverFails(d)
    PROVE  WInv'
<1>1. PICK r \in Recon : pc[r] = "idle" /\ Start(r, owner[d], "reconnect")
    BY DEF ReceiverFails
<1>2. UNCHANGED <<conn, server, history>>
    BY DEF ReceiverFails
<1> QED  BY <1>1, <1>2, StartWatch

-----------------------------------------------------------------------------
(* Next *)

LEMMA StepsWatch ==
    ASSUME IInv, WInv, NEW p \in Proc, Steps(p)
    PROVE  WInv'
<1>1. CASE Opens(p)
    BY <1>1, OpenWatch, DialWatch, IdentifyWatch DEF Opens
<1>2. CASE CloseBegin(p) \/ CloseEnd(p) \/ Delete(p) \/ Join(p)
    BY <1>2, CloseBeginWatch, DropWatch, DeleteWatch, JoinWatch DEF Join
<1>3. CASE p \in Dial /\ Listen(p)
    BY <1>3, ListenWatch, ReadErrorWatch, AbandonWatch DEF Listen
<1>4. CASE p \in Recon /\ Reconnect(p)
    BY <1>4, JoinWatch, ReconnectWatch DEF Reconnect, TryAgain
<1>5. CASE p \in Handler /\ OnVoiceStateUpdate(p)
    BY <1>5, EventWatch
<1> QED  BY <1>1, <1>2, <1>3, <1>4, <1>5 DEF Steps

LEMMA EnvironmentWatch ==
    ASSUME IInv, WInv, Environment
    PROVE  WInv'
<1>1. ASSUME NEW a \in App, Program(a) PROVE WInv'
    <2>1. a \in Proc
        BY NotNone
    <2>2. CASE pc[a] = "idle" /\ ChannelVoiceJoin(a)
        BY <2>1, <2>2, JoinWatch
    <2>3. CASE \E v \in Voice : \/ Disconnect(a, v)
                                \/ /\ pc[a] = "idle" /\ Start(a, v, "Close")
                                   /\ UNCHANGED <<conn, server, loops, gateway, history>>
        BY <2>3, DisconnectWatch
    <2> QED  BY <1>1, <2>2, <2>3 DEF Program
<1>2. CASE Faults
    <2>1. ASSUME NEW p \in Proc,
                 DialFails(p) \/ IdentifyFails(p) \/ AskFails(p) \/ OpenGivesUp(p) \/ NotConnected(p)
          PROVE  WInv'
        BY <2>1, DropWatch, OpenWatch, JoinWatch
    <2>2. ASSUME NEW d \in Dial,
                 \/ UdpOpenFails(d) \/ SenderFails(d) \/ ReceiverFails(d)
                 \/ Lost(d) \/ Refused(d) \/ Moved(d)
          PROVE  WInv'
        BY <2>2, ListenWatch, ReceiverFailsWatch, QuietWatch
    <2> QED  BY <1>2, <2>1, <2>2 DEF Faults
<1>3. CASE RegionChange \/ Outage \/ Back
    BY <1>3, QuietWatch, BackWatch
<1> QED  BY <1>1, <1>2, <1>3 DEF Environment

LEMMA NextWatch == IInv /\ WInv /\ [Next]_vars => WInv'
<1> SUFFICES ASSUME IInv, WInv, [Next]_vars
             PROVE  WInv'
    OBVIOUS
<1>1. CASE Next
    BY <1>1, StepsWatch, QuietWatch, EventWatch, EnvironmentWatch DEF Next
<1>2. CASE UNCHANGED vars
    BY <1>2, QuietWatch
<1> QED  BY <1>1, <1>2

LEMMA InitWatch == Init => WInv
BY NotNone DEF Init, WInv, Mine, Channels, Listening, ListenLabels, LookedAfter

\* A websocket that went down is noticed, or a reconnect or a Close of its
\* connection is on the way, unless a reconnect gave up for another one.
THEOREM LossWatched == Spec => []Watched
<1>1. IInv /\ WInv => Watched
    BY DEF WInv, LookedAfter, Watched, Of
<1> QED  BY <1>1, Inductive, InitWatch, NextWatch, PTL DEF Spec
=============================================================================
