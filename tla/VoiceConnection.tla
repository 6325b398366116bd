-------------------------- MODULE VoiceConnection --------------------------
(***************************************************************************)
(* The voice connection of one guild: voice.go, and the part of wsapi.go   *)
(* that asks the gateway for it and hears of it (ChannelVoiceJoin,         *)
(* onVoiceStateUpdate, onVoiceServerUpdate).                               *)
(*                                                                         *)
(* A VoiceConnection joins a websocket to the voice server, a UDP socket,  *)
(* a stop channel and the goroutines that use them: wsListen, wsHeartbeat, *)
(* udpKeepAlive, opusSender, opusReceiver.  The gateway's events run       *)
(* Close and open on goroutines of their own, reconnect loops on another,  *)
(* the program calls ChannelVoiceJoin, Disconnect and Close, and the       *)
(* fields are partly read without the lock.                                *)
(*                                                                         *)
(* A Dial names what open makes: a websocket, its stop channel, its        *)
(* wsListen, and what its READY starts.  A Dial nobody refers to any more  *)
(* is used again, and so is a VoiceConnection, so that the model goes on   *)
(* for ever.  What the packets contain is left out: session id, token and  *)
(* endpoint are there or not, keys and DAVE belong to DaveController.      *)
(***************************************************************************)
EXTENDS Naturals, FiniteSets

CONSTANTS
    Voice,      \* VoiceConnection objects
    Dial,       \* what an open makes, see above
    App,        \* goroutines of the program
    Handler,    \* go s.onVoiceStateUpdate, go s.onVoiceServerUpdate
    Recon,      \* go v.reconnect
    Deaf,       \* v.deaf: no opusReceiver
    MaxMoves,   \* bound on what the program, the network and the servers do
    None

ASSUME VoiceAssumption ==
    /\ MaxMoves \in Nat /\ Deaf \in BOOLEAN
    /\ None \notin Voice \cup App \cup Handler \cup Recon \cup Dial
    /\ App \cap Dial = {} /\ Handler \cap Dial = {} /\ Recon \cap Dial = {}
    /\ App \cap Handler = {} /\ App \cap Recon = {} /\ Handler \cap Recon = {}

Proc == App \cup Handler \cup Recon \cup Dial    \* a Dial runs its wsListen

VARIABLES
    current,                            \* s.VoiceConnections[guild]
    ws, udp, close,                     \* v.wsConn, v.udpConn, v.close
    ready, reconnecting, beating, sid,  \* v.Ready, ..., v.voiceHeartbeatActive, v.sessionID
    lock,                               \* v.RWMutex, held for writing
    link,       \* state of the websocket of a Dial
    next,       \* what the voice server sends on it next
    stopped,    \* the stop channel of a Dial is closed, or was not made yet
    owner,      \* the connection a Dial was made for
    pc, voice, after,   \* of a goroutine: where it is, on which object, where it returns to
    serves,     \* the connection a reconnect was called on
    reading,    \* the websocket a wsListen reads
    beat,       \* the stop channels of the running wsHeartbeats
    sender, receiver,   \* the opusSender and opusReceiver a READY started
    online,     \* s.DataReady and s.wsConn
    joined,     \* the gateway has the bot in a voice channel
    owed,       \* events of the gateway on their way
    forgotten,  \* Dials an open wrote over
    gaveUp,     \* connections a reconnect gave up because another was at it, till a Close
    crashed,    \* a nil websocket was used
    moves       \* of the environment so far, up to MaxMoves

fields == <<ws, udp, close, ready, reconnecting, beating, sid, lock>>
conn == <<current, fields>>
server == <<link, next, stopped, owner>>
procs == <<pc, voice, after, serves, reading>>
loops == <<beat, sender, receiver>>
gateway == <<online, joined, owed>>
history == <<forgotten, gaveUp, crashed>>
vars == <<conn, server, procs, loops, gateway, history, moves>>

Idle == [at |-> "none", udp |-> None, stop |-> None]
Loop(at) == [at : at, udp : Dial \cup {None}, stop : Dial \cup {None}]

TypeOK ==
    /\ current \in Voice \cup {None}
    /\ ws \in [Voice -> Dial \cup {None}] /\ udp \in [Voice -> Dial \cup {None}]
    /\ close \in [Voice -> Dial \cup {None}]
    /\ ready \in [Voice -> BOOLEAN] /\ reconnecting \in [Voice -> BOOLEAN]
    /\ beating \in [Voice -> BOOLEAN] /\ sid \in [Voice -> BOOLEAN]
    /\ lock \in [Voice -> Proc \cup {None}]
    /\ link \in [Dial -> {"up", "down", "moved", "refused"}]
    /\ next \in [Dial -> {"hello", "ready", "other"}]
    /\ stopped \in [Dial -> BOOLEAN] /\ owner \in [Dial -> Voice \cup {None}]
    /\ \A p \in Proc : IF pc[p] = "idle" THEN voice[p] = None ELSE voice[p] \in Voice
    /\ serves \in [Recon -> Voice \cup {None}] /\ reading \in [Dial -> Dial \cup {None}]
    /\ beat \subseteq Dial
    /\ sender \in [Dial -> Loop({"none", "start", "run", "stop"})]
    /\ receiver \in [Dial -> Loop({"none", "run"})]
    /\ online \in BOOLEAN /\ joined \in BOOLEAN /\ owed \subseteq {"state", "server"}
    /\ forgotten \subseteq Dial /\ gaveUp \subseteq Voice /\ crashed \in BOOLEAN
    /\ moves \in 0 .. MaxMoves

Init ==
    /\ current = None
    /\ ws = [v \in Voice |-> None] /\ udp = [v \in Voice |-> None]
    /\ close = [v \in Voice |-> None]
    /\ ready = [v \in Voice |-> FALSE] /\ reconnecting = [v \in Voice |-> FALSE]
    /\ beating = [v \in Voice |-> FALSE] /\ sid = [v \in Voice |-> FALSE]
    /\ lock = [v \in Voice |-> None]
    /\ link = [d \in Dial |-> "down"] /\ next = [d \in Dial |-> "other"]
    /\ stopped = [d \in Dial |-> TRUE] /\ owner = [d \in Dial |-> None]
    /\ pc = [p \in Proc |-> "idle"] /\ voice = [p \in Proc |-> None]
    /\ after = [p \in Proc |-> "idle"] /\ reading = [d \in Dial |-> None]
    /\ beat = {}
    /\ sender = [d \in Dial |-> Idle] /\ receiver = [d \in Dial |-> Idle]
    /\ serves = [r \in Recon |-> None]
    /\ online = TRUE /\ joined = FALSE /\ owed = {} /\ moves = 0
    /\ forgotten = {} /\ gaveUp = {} /\ crashed = FALSE

-----------------------------------------------------------------------------
(* Going on, locks and names *)

\* What a wsListen read matters while it handles it.
Forget(p) == reading' = [d \in Dial |-> IF d = p THEN None ELSE reading[d]]

Goto(p, l) ==
    /\ pc' = [pc EXCEPT ![p] = l]
    /\ voice' = IF l = "idle" THEN [voice EXCEPT ![p] = None] ELSE voice
    /\ IF l \in {"hello", "ready", "launch"} THEN UNCHANGED reading ELSE Forget(p)
    /\ UNCHANGED <<after, serves>>

\* p calls a method that returns to l.
Invoke(p, method, l) ==
    /\ pc' = [pc EXCEPT ![p] = method] /\ after' = [after EXCEPT ![p] = l]
    /\ Forget(p) /\ UNCHANGED <<voice, serves>>

Start(p, v, l) ==
    /\ pc' = [pc EXCEPT ![p] = l] /\ voice' = [voice EXCEPT ![p] = v]
    /\ UNCHANGED <<after, serves, reading>>

\* Where p goes when the method it is in returns.
Returns(p) ==
    /\ pc' = [pc EXCEPT ![p] = after[p]]
    /\ after' = [after EXCEPT ![p] = "idle"]
    /\ voice' = IF after[p] = "idle" THEN [voice EXCEPT ![p] = None] ELSE voice
    /\ UNCHANGED <<serves, reading>>

Of(p) == voice[p]

\* What the program, the network and the servers do is counted.
Runs == ~crashed /\ UNCHANGED moves
Move == ~crashed /\ moves < MaxMoves /\ moves' = moves + 1
Free(v) == lock[v] = None

\* A nil websocket is dereferenced.
Crash(p) == crashed' = TRUE /\ UNCHANGED <<conn, server, procs, loops, gateway, forgotten, gaveUp>>

Used(d) ==
    \/ pc[d] # "idle" \/ d \in beat
    \/ \E e \in Dial : \/ reading[e] = d
                       \/ sender[e].at # "none" /\ d \in {e, sender[e].udp, sender[e].stop}
                       \/ receiver[e].at # "none" /\ d \in {e, receiver[e].udp, receiver[e].stop}
    \/ \E v \in Voice : d \in {ws[v], udp[v], close[v]}

Spare(v) ==
    /\ v # current /\ \A p \in Proc : voice[p] # v
    /\ ws[v] = None /\ udp[v] = None /\ close[v] = None /\ ~ready[v] /\ ~reconnecting[v]
    /\ \A r \in Recon : serves[r] # v
    /\ \A d \in Dial : owner[d] = v => sender[d].at = "none" /\ receiver[d].at = "none"

\* go v.reconnect() as the last thing p does.
LaunchReconnect(p, v) ==
    \E r \in Recon : /\ pc[r] = "idle"
                     /\ pc' = [pc EXCEPT ![p] = "idle", ![r] = "reconnect"]
                     /\ voice' = [voice EXCEPT ![p] = None, ![r] = v]
                     /\ Forget(p) /\ UNCHANGED <<after, serves>>

-----------------------------------------------------------------------------
(* Close: the lock is kept over the second it gives the server *)

\* Mutant: the stop channel is forgotten, not closed.
CloseBeginKeepsChannel(p) ==
    LET v == Of(p) IN
    /\ pc[p] = "Close" /\ Free(v)
    /\ ready' = [ready EXCEPT ![v] = FALSE]
    /\ close' = [close EXCEPT ![v] = None] /\ udp' = [udp EXCEPT ![v] = None]
    /\ IF ws[v] = None THEN Returns(p) /\ UNCHANGED lock
                       ELSE Goto(p, "closing") /\ lock' = [lock EXCEPT ![v] = p]
    /\ UNCHANGED <<current, ws, reconnecting, beating, sid, server, loops, gateway, history>>

CloseBegin(p) ==
    LET v == Of(p) IN
    /\ pc[p] = "Close" /\ Free(v)
    /\ ready' = [ready EXCEPT ![v] = FALSE]
    /\ stopped' = [d \in Dial |-> stopped[d] \/ d = close[v]]
    /\ close' = [close EXCEPT ![v] = None] /\ udp' = [udp EXCEPT ![v] = None]
    /\ gaveUp' = gaveUp \ {v}
    /\ IF ws[v] = None THEN Returns(p) /\ UNCHANGED lock
                       ELSE Goto(p, "closing") /\ lock' = [lock EXCEPT ![v] = p]
    /\ UNCHANGED <<current, ws, reconnecting, beating, sid, link, next, owner,
                   loops, gateway, forgotten, crashed>>

CloseEnd(p) ==
    LET v == Of(p) IN
    /\ pc[p] = "closing"
    /\ link' = [link EXCEPT ![ws[v]] = "down"] /\ next' = [next EXCEPT ![ws[v]] = "other"]
    /\ ws' = [ws EXCEPT ![v] = None] /\ lock' = [lock EXCEPT ![v] = None]
    /\ Returns(p)
    /\ UNCHANGED <<current, udp, close, ready, reconnecting, beating, sid, stopped, owner,
                   loops, gateway, history>>

-----------------------------------------------------------------------------
(* open *)

OpenRefused(p) ==
    LET v == Of(p) IN
    /\ pc[p] = "open" /\ Free(v) /\ ws[v] # None
    /\ Returns(p)
    /\ UNCHANGED <<conn, server, loops, gateway, history>>

Open(p) ==
    LET v == Of(p) IN
    /\ pc[p] = "open" /\ Free(v) /\ ws[v] = None
    /\ IF sid[v] THEN Goto(p, "dial") /\ lock' = [lock EXCEPT ![v] = p]
                 ELSE Goto(p, "sessionID") /\ UNCHANGED lock
    /\ UNCHANGED <<current, ws, udp, close, ready, reconnecting, beating, sid,
                   server, loops, gateway, history>>

\* The lock was given back for 50 ms; v.wsConn is not looked at again.
OpenGotSessionID(p) ==
    LET v == Of(p) IN
    /\ pc[p] = "sessionID" /\ Free(v) /\ sid[v]
    /\ Goto(p, "dial") /\ lock' = [lock EXCEPT ![v] = p]
    /\ UNCHANGED <<current, ws, udp, close, ready, reconnecting, beating, sid,
                   server, loops, gateway, history>>

OpenGivesUp(p) ==
    /\ pc[p] = "sessionID" /\ Free(Of(p)) /\ ~sid[Of(p)]
    /\ Returns(p)
    /\ UNCHANGED <<conn, server, loops, gateway, history>>

DialFails(p) ==
    LET v == Of(p) IN
    /\ pc[p] = "dial"
    /\ ws' = [ws EXCEPT ![v] = None] /\ lock' = [lock EXCEPT ![v] = None]
    /\ forgotten' = forgotten \cup ({ws[v]} \ {None})
    /\ Returns(p)
    /\ UNCHANGED <<current, udp, close, ready, reconnecting, beating, sid,
                   server, loops, gateway, gaveUp, crashed>>

DialSucceeds(p) ==
    LET v == Of(p) IN
    \E d \in Dial :
        /\ pc[p] = "dial" /\ ~Used(d)
        /\ ws' = [ws EXCEPT ![v] = d] /\ beating' = [beating EXCEPT ![v] = FALSE]
        /\ link' = [link EXCEPT ![d] = "up"] /\ next' = [next EXCEPT ![d] = "hello"]
        /\ owner' = [owner EXCEPT ![d] = v] /\ stopped' = [stopped EXCEPT ![d] = TRUE]
        /\ forgotten' = (forgotten \ {d}) \cup ({ws[v]} \ {None})
        /\ Goto(p, "identify")
        /\ UNCHANGED <<current, udp, close, ready, reconnecting, sid, lock,
                       loops, gateway, gaveUp, crashed>>

IdentifyFails(p) ==
    LET v == Of(p) IN
    /\ pc[p] = "identify"
    /\ lock' = [lock EXCEPT ![v] = None]
    /\ Returns(p)
    /\ UNCHANGED <<current, ws, udp, close, ready, reconnecting, beating, sid,
                   server, loops, gateway, history>>

Identify(p) ==
    LET v == Of(p)  d == ws[v] IN
    /\ pc[p] = "identify"
    /\ close' = [close EXCEPT ![v] = d] /\ stopped' = [stopped EXCEPT ![d] = FALSE]
    /\ lock' = [lock EXCEPT ![v] = None]
    /\ pc' = [pc EXCEPT ![p] = after[p], ![d] = "loop"]
    /\ voice' = [voice EXCEPT ![p] = IF after[p] = "idle" THEN None ELSE v, ![d] = v]
    /\ after' = [after EXCEPT ![p] = "idle"]
    /\ forgotten' = forgotten \cup ({close[v]} \ {None})
    /\ UNCHANGED <<current, ws, udp, ready, reconnecting, beating, sid, link, next, owner,
                   serves, reading, loops, gateway, gaveUp, crashed>>

-----------------------------------------------------------------------------
(* wsListen and onEvent, in the goroutine of Dial d *)

\* v.wsConn.ReadMessage: whatever websocket the connection has by now.
ListenLoop(d) ==
    LET v == Of(d) IN
    /\ pc[d] = "loop"
    /\ IF ws[v] = None
       THEN Crash(d)
       ELSE /\ pc' = [pc EXCEPT ![d] = "read"] /\ reading' = [reading EXCEPT ![d] = ws[v]]
            /\ UNCHANGED <<conn, server, voice, after, serves, loops, gateway, history>>

\* A message was read, and the select looks at the stop channel.  Op 4, 5, 6,
\* 9, 11, 13, 21 and up, and unknown ones, change nothing of this module.
Select(d) ==
    LET r == reading[d] IN
    /\ pc[d] = "read" /\ link[r] = "up"
    /\ next' = [next EXCEPT ![r] = CASE next[r] = "hello" -> "ready" [] OTHER -> "other"]
    /\ Goto(d, IF stopped[d] THEN "idle" ELSE IF next[r] = "other" THEN "loop" ELSE next[r])
    /\ UNCHANGED <<conn, link, stopped, owner, loops, gateway, history>>

\* Op 8: startHeartbeat.
OnHello(d) ==
    LET v == Of(d) IN
    /\ pc[d] = "hello" /\ Free(v)
    /\ beating' = [beating EXCEPT ![v] = TRUE]
    /\ beat' = IF beating[v] \/ ws[v] = None THEN beat ELSE beat \cup ({close[v]} \ {None})
    /\ Goto(d, "loop")
    /\ UNCHANGED <<current, ws, udp, close, ready, reconnecting, sid, lock,
                   server, sender, receiver, gateway, history>>

\* Op 2: udpOpen.
UdpOpen(d) ==
    LET v == Of(d)  u == reading[d] IN
    /\ pc[d] = "ready" /\ Free(v)
    /\ ws[v] # None /\ udp[v] = None /\ close[v] # None
    /\ udp' = [udp EXCEPT ![v] = u]
    /\ Goto(d, "launch")
    /\ UNCHANGED <<current, ws, close, ready, reconnecting, beating, sid, lock,
                   server, loops, gateway, history>>

\* There is no websocket, or a UDP socket already, or no stop channel.
UdpOpenRefused(d) ==
    LET v == Of(d) IN
    /\ pc[d] = "ready" /\ Free(v)
    /\ ws[v] = None \/ udp[v] # None \/ close[v] = None
    /\ Goto(d, "loop")
    /\ UNCHANGED <<conn, server, loops, gateway, history>>

\* The dial fails, or the handshake after it, with v.udpConn set.
UdpOpenFails(d) ==
    LET v == Of(d) IN
    /\ pc[d] = "ready" /\ Free(v)
    /\ ws[v] # None /\ udp[v] = None /\ close[v] # None
    /\ udp' \in {udp, [udp EXCEPT ![v] = reading[d]]}
    /\ Goto(d, "loop")
    /\ UNCHANGED <<current, ws, close, ready, reconnecting, beating, sid, lock,
                   server, loops, gateway, history>>

\* The goroutines get what the fields hold by now, read without the lock.
LaunchOpus(d) ==
    LET v == Of(d)  u == reading[d]
        live == udp[v] # None /\ close[v] # None
        go(l) == [at |-> l, udp |-> udp[v], stop |-> close[v]] IN
    /\ pc[d] = "launch" /\ sender[u].at = "none" /\ receiver[u].at = "none"
    /\ sender' = IF live THEN [sender EXCEPT ![u] = go("start")] ELSE sender
    /\ receiver' = IF live /\ ~Deaf THEN [receiver EXCEPT ![u] = go("run")] ELSE receiver
    /\ Goto(d, "loop")
    /\ UNCHANGED <<conn, server, beat, gateway, history>>

\* ReadMessage fails: 4014, 4017, or anything else, where the websocket is
\* compared with the connection's.
ReadMoved(d) ==
    /\ pc[d] = "read" /\ link[reading[d]] = "moved"
    /\ Goto(d, "moved")
    /\ UNCHANGED <<conn, server, loops, gateway, history>>

\* The websocket the connection has once the lock is free, even a new one.
Abandon(d) ==
    /\ pc[d] = "moved" /\ Free(Of(d))
    /\ ws' = [ws EXCEPT ![Of(d)] = None]
    /\ Goto(d, "wait")
    /\ UNCHANGED <<current, udp, close, ready, reconnecting, beating, sid, lock,
                   server, loops, gateway, history>>

ReadRefused(d) ==
    /\ pc[d] = "read" /\ link[reading[d]] = "refused"
    /\ Invoke(d, "Close", "idle")
    /\ UNCHANGED <<conn, server, loops, gateway, history>>

\* Mutant: the comparison turned around.
ReadErrorInverted(d) ==
    LET v == Of(d) IN
    /\ pc[d] = "read" /\ link[reading[d]] = "down" /\ Free(v)
    /\ IF ws[v] # d THEN LaunchReconnect(d, v) ELSE Goto(d, "idle")
    /\ UNCHANGED <<conn, server, loops, gateway, history>>

ReadError(d) ==
    LET v == Of(d) IN
    /\ pc[d] = "read" /\ link[reading[d]] = "down" /\ Free(v)
    /\ IF ws[v] = d THEN LaunchReconnect(d, v) ELSE Goto(d, "idle")
    /\ UNCHANGED <<conn, server, loops, gateway, history>>

\* Up to five looks, a second apart, for a websocket that replaced this one.
Reconnected(d) ==
    /\ pc[d] = "wait" /\ Free(Of(d)) /\ ws[Of(d)] # None
    /\ Goto(d, "idle")
    /\ UNCHANGED <<conn, server, loops, gateway, history>>

NotReconnected(d) ==
    /\ pc[d] = "wait" /\ Free(Of(d)) /\ ws[Of(d)] = None
    /\ Goto(d, "delete")
    /\ UNCHANGED <<conn, server, loops, gateway, history>>

\* delete(v.session.VoiceConnections, v.GuildID), whatever connection is there.
Delete(p) ==
    /\ pc[p] = "delete"
    /\ current' = None
    /\ IF p \in Dial THEN Invoke(p, "Close", "idle") ELSE Goto(p, "idle")
    /\ UNCHANGED <<fields, server, loops, gateway, history>>

Listen(d) ==
    \/ ListenLoop(d) \/ Select(d) \/ OnHello(d)
    \/ UdpOpen(d) \/ UdpOpenRefused(d) \/ LaunchOpus(d)
    \/ ReadMoved(d) \/ Abandon(d) \/ ReadRefused(d) \/ ReadError(d)
    \/ Reconnected(d) \/ NotReconnected(d)

-----------------------------------------------------------------------------
(* The other goroutines of a Dial *)

\* wsHeartbeat is told to stop, or its write fails.
Beat(d) ==
    /\ d \in beat /\ (stopped[d] \/ link[d] # "up")
    /\ beat' = beat \ {d}
    /\ UNCHANGED <<conn, server, procs, sender, receiver, gateway, history>>

SetReady(d, at, value, l) ==
    LET v == owner[d] IN
    /\ sender[d].at = at /\ Free(v)
    /\ ready' = [ready EXCEPT ![v] = value]
    /\ sender' = [sender EXCEPT ![d] = IF l = "none" THEN Idle ELSE [@ EXCEPT !.at = l]]
    /\ UNCHANGED <<current, ws, udp, close, reconnecting, beating, sid, lock,
                   server, procs, beat, receiver, gateway, history>>

\* opusSender, from its start to its end.
SenderStarts(d) == SetReady(d, "start", TRUE, "run")

\* Mutant: the sender returns without its deferred function.
SenderEndsReady(d) == SetReady(d, "stop", ready[owner[d]], "none")

SenderEnds(d) == SetReady(d, "stop", FALSE, "none")

SenderReturns(d) ==
    /\ sender' = [sender EXCEPT ![d].at = "stop"]
    /\ UNCHANGED <<conn, server, procs, beat, receiver, gateway, history>>

SenderStops(d) == sender[d].at = "run" /\ stopped[sender[d].stop] /\ SenderReturns(d)
SenderFails(d) == sender[d].at = "run" /\ udp[owner[d]] = sender[d].udp /\ SenderReturns(d)

\* opusReceiver: its UDP socket was closed, or has an error of its own.
ReceiverClosed(d) ==
    LET v == owner[d] IN
    /\ receiver[d].at = "run" /\ Free(v) /\ udp[v] # receiver[d].udp
    /\ receiver' = [receiver EXCEPT ![d] = Idle]
    /\ UNCHANGED <<conn, server, procs, beat, sender, gateway, history>>

ReceiverFails(d) ==
    LET v == owner[d] IN
    /\ receiver[d].at = "run" /\ Free(v) /\ udp[v] = receiver[d].udp
    /\ receiver' = [receiver EXCEPT ![d] = Idle]
    /\ \E r \in Recon : pc[r] = "idle" /\ Start(r, v, "reconnect")
    /\ UNCHANGED <<conn, server, beat, sender, gateway, history>>

ReceiverStops(d) ==
    /\ receiver[d].at = "run" /\ stopped[receiver[d].stop]
    /\ receiver' = [receiver EXCEPT ![d] = Idle]
    /\ UNCHANGED <<conn, server, procs, beat, sender, gateway, history>>

Goroutines(d) ==
    \/ Beat(d)
    \/ SenderStarts(d) \/ SenderStops(d) \/ SenderEnds(d)
    \/ ReceiverClosed(d) \/ ReceiverStops(d)

-----------------------------------------------------------------------------
(* ChannelVoiceJoin, Disconnect and reconnect *)

\* Op 4 on the gateway's websocket, with a channel or without.  The gateway
\* answers a join with the two events; when the bot is in the channel already
\* it may leave them out.
Joins ==
    /\ joined' = TRUE
    /\ IF joined THEN owed' \in {owed, owed \cup {"state", "server"}}
                 ELSE owed' = owed \cup {"state", "server"}
Leaves == joined' = FALSE /\ UNCHANGED owed
NotHeard == UNCHANGED <<joined, owed>>

\* The connection of the map, or a new one that p has yet to put there.
ChannelVoiceJoin(p) ==
    /\ \E v \in IF current = None THEN {x \in Voice : Spare(x)} ELSE {current} :
          /\ sid' = IF current = None THEN [sid EXCEPT ![v] = FALSE] ELSE sid
          /\ beating' = IF current = None THEN [beating EXCEPT ![v] = FALSE] ELSE beating
          /\ pc' = [pc EXCEPT ![p] = IF current = None THEN "insert" ELSE "write"]
          /\ voice' = [voice EXCEPT ![p] = v]
    /\ UNCHANGED <<current, ws, udp, close, ready, reconnecting, lock, after, serves, reading,
                   server, loops, gateway, history>>

\* In place of one that another call put there meanwhile.
Insert(p) ==
    /\ pc[p] = "insert"
    /\ current' = Of(p)
    /\ Goto(p, "write")
    /\ UNCHANGED <<fields, server, loops, gateway, history>>

\* ChannelVoiceJoinManual: s.wsConn is not looked at before it is used.
Ask(p) ==
    /\ pc[p] = "write" /\ Free(Of(p))
    /\ \/ ~online /\ Crash(p)
       \/ /\ online
          /\ Joins /\ Goto(p, "waitConnected")
          /\ UNCHANGED <<conn, server, loops, online, history>>

AskFails(p) ==
    /\ pc[p] = "write" /\ Free(Of(p)) /\ online
    /\ NotHeard /\ Goto(p, IF p \in Recon THEN "failed" ELSE "idle")
    /\ UNCHANGED <<conn, server, loops, online, history>>

Connected(p) ==
    /\ pc[p] = "waitConnected" /\ Free(Of(p)) /\ ready[Of(p)]
    /\ Goto(p, IF p \in Recon THEN "done" ELSE "idle")
    /\ UNCHANGED <<conn, server, loops, gateway, history>>

NotConnected(p) ==
    /\ pc[p] = "waitConnected" /\ Free(Of(p)) /\ ~ready[Of(p)]
    /\ Invoke(p, "Close", IF p \in Recon THEN "failed" ELSE "idle")
    /\ UNCHANGED <<conn, server, loops, gateway, history>>

Disconnect(a, v) ==
    /\ pc[a] = "idle" /\ Free(v)
    /\ \/ sid[v] /\ ~online /\ Crash(a)
       \/ /\ ~sid[v] \/ online
          /\ IF sid[v] THEN Leaves \/ NotHeard ELSE NotHeard
          /\ sid' = [sid EXCEPT ![v] = FALSE]
          /\ pc' = [pc EXCEPT ![a] = "Close"] /\ voice' = [voice EXCEPT ![a] = v]
          /\ after' = [after EXCEPT ![a] = "delete"]
          /\ UNCHANGED <<current, ws, udp, close, ready, reconnecting, beating, lock,
                         serves, reading, server, loops, online, history>>

ReconnectBegins(r) ==
    LET v == Of(r) IN
    /\ pc[r] = "reconnect" /\ Free(v)
    /\ IF reconnecting[v]
       THEN /\ Goto(r, "idle") /\ gaveUp' = gaveUp \cup {v}
       ELSE /\ pc' = [pc EXCEPT ![r] = "Close"] /\ after' = [after EXCEPT ![r] = "pause"]
            /\ serves' = [serves EXCEPT ![r] = v] /\ UNCHANGED <<voice, reading, gaveUp>>
    /\ reconnecting' = [reconnecting EXCEPT ![v] = TRUE]
    /\ UNCHANGED <<current, ws, udp, close, ready, beating, sid, lock,
                   server, loops, gateway, forgotten, crashed>>

\* The wait, doubled each time, has no end while the session is not there.
TryAgain(r) == pc[r] = "pause" /\ online /\ ChannelVoiceJoin(r)

\* Op 4 without a channel resets things.
JoinFailed(r) ==
    /\ pc[r] = "failed"
    /\ \/ ~online /\ Crash(r)
       \/ /\ online /\ (Leaves \/ NotHeard)
          /\ Goto(r, "pause")
          /\ UNCHANGED <<conn, server, loops, online, history>>

\* Mutant: the flag is not reset.
ReconnectEndsFlagged(r) ==
    /\ pc[r] = "done"
    /\ pc' = [pc EXCEPT ![r] = "idle"] /\ voice' = [voice EXCEPT ![r] = None]
    /\ serves' = [serves EXCEPT ![r] = None]
    /\ UNCHANGED <<conn, after, reading, server, loops, gateway, history>>

\* The deferred function, on the connection reconnect was called on.
ReconnectEnds(r) ==
    LET v == serves[r] IN
    /\ pc[r] = "done" /\ Free(v)
    /\ reconnecting' = [reconnecting EXCEPT ![v] = FALSE]
    /\ pc' = [pc EXCEPT ![r] = "idle"] /\ voice' = [voice EXCEPT ![r] = None]
    /\ serves' = [serves EXCEPT ![r] = None]
    /\ UNCHANGED <<current, ws, udp, close, ready, beating, sid, lock,
                   after, reading, server, loops, gateway, history>>

Reconnect(r) == ReconnectBegins(r) \/ TryAgain(r) \/ JoinFailed(r) \/ ReconnectEnds(r)

Join(p) == Insert(p) \/ Ask(p) \/ Connected(p)

-----------------------------------------------------------------------------
(* Events of the gateway *)

\* Mutant: the connection is used without looking whether there is one.
DeliverUnchecked(h, e) ==
    /\ pc[h] = "idle" /\ online /\ e \in owed
    /\ owed' = owed \ {e}
    /\ Start(h, current, e)
    /\ UNCHANGED <<conn, server, loops, online, joined, history>>

\* onInterface starts a goroutine for each, which looks for the connection.
\* onVoiceServerUpdate is Close, the new token and endpoint, and open.
Deliver(h, e) ==
    /\ pc[h] = "idle" /\ online /\ e \in owed
    /\ owed' = owed \ {e}
    /\ IF current = None THEN UNCHANGED procs
       ELSE /\ pc' = [pc EXCEPT ![h] = IF e = "state" THEN e ELSE "Close"]
            /\ after' = [after EXCEPT ![h] = IF e = "state" THEN "idle" ELSE "open"]
            /\ voice' = [voice EXCEPT ![h] = current]
            /\ UNCHANGED <<serves, reading>>
    /\ UNCHANGED <<conn, server, loops, online, joined, history>>

OnVoiceStateUpdate(h) ==
    /\ pc[h] = "state" /\ Free(Of(h))
    /\ sid' = [sid EXCEPT ![Of(h)] = TRUE]
    /\ Goto(h, "idle")
    /\ UNCHANGED <<current, ws, udp, close, ready, reconnecting, beating, lock,
                   server, loops, gateway, history>>

-----------------------------------------------------------------------------
(* The program, the network and the servers *)

Program(a) ==
    \/ pc[a] = "idle" /\ ChannelVoiceJoin(a)
    \/ \E v \in Voice :
        /\ v = current \/ ~Spare(v)
        /\ \A p \in Proc : Of(p) = v => pc[p] # "insert"
        /\ \/ Disconnect(a, v)
           \/ /\ pc[a] = "idle" /\ Start(a, v, "Close")
              /\ UNCHANGED <<conn, server, loops, gateway, history>>

Breaks(d, l) ==
    /\ link[d] = "up"
    /\ link' = [link EXCEPT ![d] = l] /\ next' = [next EXCEPT ![d] = "other"]
    /\ UNCHANGED <<conn, stopped, owner, procs, loops, history, online>>

\* The voice server is gone, or refuses the client (4017).
Lost(d) == Breaks(d, "down") /\ NotHeard
Refused(d) == Breaks(d, "refused") /\ NotHeard

\* 4014: someone moved the bot to another channel, or out of any.
Moved(d) == /\ Breaks(d, "moved")
            /\ \/ joined /\ owed' = owed \cup {"state", "server"} /\ UNCHANGED joined
               \/ Leaves

\* The guild's voice region changes.
RegionChange ==
    /\ joined /\ owed' = owed \cup {"server"}
    /\ UNCHANGED <<conn, server, procs, loops, history, online, joined>>

\* The session's websocket; its reconnect ends with a reconnect of the voice.
Outage == /\ online /\ online' = FALSE
          /\ UNCHANGED <<conn, server, procs, loops, history, joined, owed>>

Back == /\ ~online /\ online' = TRUE
        /\ \/ current = None /\ UNCHANGED procs
           \/ /\ current # None
              /\ \E r \in Recon : pc[r] = "idle" /\ Start(r, current, "reconnect")
        /\ UNCHANGED <<conn, server, loops, history, joined, owed>>

\* Writes, dials and handshakes that fail, and waits that end too early.
Faults ==
    \/ \E p \in Proc : \/ DialFails(p) \/ IdentifyFails(p) \/ AskFails(p)
                       \/ OpenGivesUp(p) \/ NotConnected(p)
    \/ \E d \in Dial : \/ UdpOpenFails(d) \/ SenderFails(d) \/ ReceiverFails(d)
                       \/ Lost(d) \/ Refused(d) \/ Moved(d)

Environment == (\E a \in App : Program(a)) \/ Faults \/ RegionChange \/ Outage \/ Back

Opens(p) ==
    \/ OpenRefused(p) \/ Open(p) \/ OpenGotSessionID(p)
    \/ DialSucceeds(p) \/ Identify(p)

Steps(p) ==
    \/ CloseBegin(p) \/ CloseEnd(p) \/ Opens(p) \/ Delete(p)
    \/ Join(p)
    \/ p \in Dial /\ Listen(p)
    \/ p \in Recon /\ Reconnect(p)
    \/ p \in Handler /\ OnVoiceStateUpdate(p)

Next ==
    \/ \E p \in Proc : Steps(p) /\ Runs
    \/ \E d \in Dial : Goroutines(d) /\ Runs
    \/ \E h \in Handler, e \in owed : Deliver(h, e) /\ Runs
    \/ Environment /\ Move

Spec == Init /\ [][Next]_vars

-----------------------------------------------------------------------------
(* Properties *)

\* The lock is held by the one goroutine inside Close or open; the flag
\* reconnecting is set exactly while one reconnect of this connection is under
\* way, in whichever branch it is; a UDP socket always comes with the stop
\* channel that ends its goroutines.
Exclusive ==
    \A v \in Voice :
        /\ \A p \in Proc : lock[v] = p <=> pc[p] \in {"closing", "dial", "identify"} /\ Of(p) = v
        /\ reconnecting[v] <=> \E r \in Recon : serves[r] = v
        /\ \A r, q \in Recon : serves[r] = v /\ serves[q] = v => r = q
        /\ udp[v] # None => close[v] # None

\* No stop channel is left that nobody will close, so that no heartbeat,
\* keep-alive or audio goroutine runs for ever: every open one is in the field
\* of a connection, but for those that an open wrote over, when it had waited
\* for the session id (521) and did not look at the fields again or when a
\* wsListen that read 4014 had taken the new websocket from the connection (608).
NothingLeft ==
    \A d \in Dial : ~stopped[d] => d \in forgotten \/ \E v \in Voice : close[v] = d

\* A connection whose websocket is down is being looked after: its wsListen
\* has not seen it yet, or a reconnect or a Close is on its way.  There are two
\* exceptions: an open whose identify failed (578) left a websocket nobody
\* reads, and a reconnect saw another under way and gave up (1512), which may
\* have looked at Ready a moment before.
Watched ==
    \A v \in Voice \ gaveUp :
        LET d == ws[v] IN
        Free(v) /\ d # None /\ link[d] = "down" /\ close[v] = d =>
            \/ pc[d] # "idle"
            \/ \E p \in Proc : Of(p) = v /\ pc[p] \in {"reconnect", "Close"}

\* Ready is set by nobody but an opusSender that has still to reset it:
\* however Close, open and the senders of two websockets are interleaved, it
\* does not stay set on a connection without one.
ReadyHasSender ==
    \A v \in Voice : ready[v] =>
        \E d \in Dial : owner[d] = v /\ sender[d].at \in {"run", "stop"}

\* The comment of reconnect: "Reconnect will close down a voice connection then
\* immediately try to reconnect to that session", which wsListen starts when
\* the websocket was "closed unexpectedly".
LossNoticed ==
    \A v \in Voice :
        LET d == ws[v] IN
        Free(v) /\ d # None /\ link[d] = "down" /\ close[v] = d =>
            \/ pc[d] # "idle" \/ reconnecting[v]
            \/ \E p \in Proc : Of(p) = v /\ pc[p] \in {"reconnect", "Close"}
=============================================================================
