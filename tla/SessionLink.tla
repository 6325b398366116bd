---------------------------- MODULE SessionLink ----------------------------
(***************************************************************************)
(* What discordgo's Session promises of its gateway connection, without    *)
(* goroutines or locks: it is opened and closed in turn, it never has more *)
(* than one websocket, and what serves the websocket is started when the   *)
(* handshake is over and stopped when the session is closed.               *)
(***************************************************************************)
CONSTANT Conn

VARIABLES
    phase,    \* "closed", "opening" or "open"
    live,     \* websockets dialled and not closed
    serving   \* websockets whose goroutines have not been told to stop

vars == <<phase, live, serving>>

Init ==
    /\ phase = "closed"
    /\ live = {}
    /\ serving = {}

Start ==
    /\ phase = "closed"
    /\ phase' = "opening"
    /\ UNCHANGED <<live, serving>>

Dial ==
    /\ phase = "opening"
    /\ live = {}
    /\ \E c \in Conn : live' = {c}
    /\ UNCHANGED <<phase, serving>>

Establish ==
    /\ phase = "opening"
    /\ live # {}
    /\ phase' = "open"
    /\ serving' = live
    /\ UNCHANGED live

Abandon ==
    /\ phase = "opening"
    /\ phase' = "closed"
    /\ live' = {}
    /\ UNCHANGED serving

Close ==
    /\ phase = "open"
    /\ phase' = "closed"
    /\ live' = {}
    /\ serving' = {}

Next == Start \/ Dial \/ Establish \/ Abandon \/ Close

Spec == Init /\ [][Next]_vars
=============================================================================
