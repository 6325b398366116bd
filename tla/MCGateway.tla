----------------------------- MODULE MCGateway -----------------------------
(***************************************************************************)
(* Instances of Gateway for TLC.                                           *)
(***************************************************************************)
EXTENDS Gateway, TLC

CONSTANTS c1, c2, c3, u1, u2

\* Websockets and application goroutines are interchangeable.
Symmetry == Permutations(Conn) \cup Permutations(User)
=============================================================================
