---------------------------- MODULE MCStateCache ----------------------------
(***************************************************************************)
(* Instances of StateCache for TLC.                                        *)
(***************************************************************************)
EXTENDS StateCache, TLC

CONSTANTS g1, g2, u1, u2, c1, c2, t1, d1, m1, m2, i1, program

MCHome == [c \in Text \cup Thread |-> IF c = c2 THEN g2 ELSE g1]
MCParent == [t \in Thread |-> c1]
MCIn == [m \in Message |-> c1]
=============================================================================
