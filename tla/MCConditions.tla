---------------------------- MODULE MCConditions ----------------------------
(* Instances of Conditions for TLC. *)
EXTENDS Conditions, TLC

CONSTANTS f, c1, c2

\* Nothing, one kind of disturbance at a time, and two learners with one address.
OneHabit ==
    {{}} \cup {{h} : h \in AllHabits \ {"duplicates", "overlap"}}
         \cup {{h, "duplicates"} : h \in {"clicks", "answers"}}

\* Learners are served while the instructor is.
Overlapping == {{"answers", "clicks", "overlap"}}

Interchangeable ==
    Permutations({c1, c2}) \cup Permutations(Values) \cup Permutations(Rows)
=============================================================================
