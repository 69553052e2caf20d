---------------------------- MODULE MCScheduler ----------------------------
(* Instances of Scheduler for TLC. *)
EXTENDS Scheduler, TLC

CONSTANTS i1, i2, a1, a2, w1, w2

OwnAction == (i1 :> a1) @@ (i2 :> a2)
NoJob == {}
=============================================================================
