---------------------------- MODULE MCSchedules ----------------------------
(* Two apps with one scheduled action each.                                *)
EXTENDS Schedules, TLC

CONSTANTS a, b, r1, r2

TwoRows == (r1 :> a) @@ (r2 :> b)
=============================================================================
