-------------------------- MODULE MCEventDispatch --------------------------
(***************************************************************************)
(* Instances of EventDispatch for TLC.                                     *)
(***************************************************************************)
EXTENDS EventDispatch, TLC

CONSTANTS g1, g2, g3, any, typed, once, anyOnce

Symmetry == Permutations(Goroutine)
=============================================================================
