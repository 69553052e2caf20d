----------------------------- MODULE MCDialogs -----------------------------
(* Instances of Dialogs for TLC. *)
EXTENDS Dialogs, TLC

CONSTANTS i1, i2, a1, a2, w1

OwnAction == (i1 :> a1) @@ (i2 :> a2)
SecondJobs == Items \X {2}
=============================================================================
