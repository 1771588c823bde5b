---------------------------- MODULE MCGenerations ----------------------------
(* Two definitions; the second has a handler for level and fails while mode  *)
(* is set.                                                                   *)
EXTENDS Generations, TLC

CONSTANTS d1, d2, level, mode

NoMode == {<<d2, s>> : s \in {t \in Stored : t[mode] # None}}
Symmetry == Permutations(Handlers)
HandledLevel == {<<d2, level>>}
==============================================================================
