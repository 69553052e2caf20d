-------------------------- MODULE MCWorkflowTable --------------------------
(* Instances of WorkflowTable for TLC. *)
EXTENDS WorkflowTable, TLC

\* What is known to break something, one at a time, and nothing of it.
HabitsAlone == {{}} \cup {{h} : h \in AllHabits}

Calm == {{}}

Interchangeable == Permutations(Names)
=============================================================================
