-------------------------- MODULE ExclusiveAccess --------------------------
(***************************************************************************)
(* What the lock of a workflow promises (docs_src/Using/index.rst:99): once *)
(* a user has opened a workflow, no other user manipulates it until that    *)
(* user is done.  The specification says nothing of how the lock is kept:   *)
(* inside[w] is the set of users for whom a view of w is being executed.    *)
(***************************************************************************)
CONSTANTS Users, Workflows

VARIABLE inside

Init == inside = [w \in Workflows |-> {}]

\* A user starts to work on w if nobody else is working on it.
Enter(w, u) ==
    /\ inside[w] \subseteq {u}
    /\ inside' = [inside EXCEPT ![w] = {u}]

Leave(w, u) ==
    /\ u \in inside[w]
    /\ inside' = [inside EXCEPT ![w] = @ \ {u}]

Next == \E w \in Workflows, u \in Users : Enter(w, u) \/ Leave(w, u)

Spec == Init /\ [][Next]_inside
=============================================================================
