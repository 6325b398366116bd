---------------------------- MODULE MCRestMethods ----------------------------
(* Two callers and two values for every argument: enough for two requests    *)
(* that agree in some of their arguments and differ in others.               *)
EXTENDS RestMethods, TLC

Symmetry == Permutations(Caller) \cup Permutations(Id)
=============================================================================
