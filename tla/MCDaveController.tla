--------------------------- MODULE MCDaveController ---------------------------
(* The DAVE controller with one other user and one SSRC, two epochs and three *)
(* ratchets of a user referenced at a time.                                   *)
EXTENDS DaveController, TLC

\* The others and their SSRCs are interchangeable.
Symmetry == Permutations(Others) \cup Permutations(Ssrcs)
===============================================================================
