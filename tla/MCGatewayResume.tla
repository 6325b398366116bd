--------------------------- MODULE MCGatewayResume ---------------------------
(* Three websockets, and so up to three sessions, with three dispatches each. *)
EXTENDS GatewayResume

\* What follows a Resume that mixes two sessions is not looked at: the
\* properties say nothing of it.
OneSessionAtATime == ~mixed
===============================================================================
