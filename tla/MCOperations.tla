---------------------------- MODULE MCOperations ----------------------------
(* Apps are interchangeable when they have the same initial phases and all  *)
(* or none of them is in Direct and in Lookalikes, and so are handlers.     *)
EXTENDS Operations, TLC

Symmetry == Permutations(Apps) \cup Permutations(Handlers)
=============================================================================
