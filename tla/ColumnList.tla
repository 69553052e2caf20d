----------------------------- MODULE ColumnList -----------------------------
(***************************************************************************)
(* What users see of the columns of a workflow: a list without repetitions. *)
(* An operation puts one column into it, takes one out, replaces or moves   *)
(* one, appends several, or empties it, and leaves all others in the order  *)
(* they had.                                                                *)
(***************************************************************************)
EXTENDS SequencesExt

CONSTANT Names
VARIABLE list

Free == Names \ Range(list)

Init == list = <<>>

Put == \E n \in Free, i \in 1..Len(list) + 1 : list' = InsertAt(list, i, n)

Take == \E i \in 1..Len(list) : list' = RemoveAt(list, i)

\* The column at i goes to j, and may get a new name on the way.
Replace == \E i, j \in 1..Len(list) : \E n \in Free \cup {list[i]} :
               list' = InsertAt(RemoveAt(list, i), j, n)

AppendAll == \E s \in SetToAllKPermutations(Free) : list' = list \o s

Clear == list' = <<>>

Next == Put \/ Take \/ Replace \/ AppendAll \/ Clear

Spec == Init /\ [][Next]_list
=============================================================================
