--------------------------- MODULE MCWorkflowLock ---------------------------
(* Instances of WorkflowLock for TLC: every user owns a workflow and shares it  *)
(* with all others.                                                             *)
EXTENDS WorkflowLock, TLC

CONSTANTS u1, u2, w1, w2

OneEach == (w1 :> u1) @@ (w2 :> u2)
OnlyOne == w1 :> u1
WithAll == [w \in Workflows |-> Users]

SequentialCrash == {"delete", "share", "crash"}
DirectOnly == {"direct"}
Careless == {"tabs", "direct", "api", "apiunlock", "slow"}
Bookmarks == {"direct", "delete"}

\* Users may be exchanged together with the workflows that they own.
Swap == (u1 :> u2) @@ (u2 :> u1) @@ (w1 :> w2) @@ (w2 :> w1)
Interchangeable == Permutations(Keys) \cup Permutations(Requests) \cup {Swap}
KeysAndRequests == Permutations(Keys) \cup Permutations(Requests)
=============================================================================
