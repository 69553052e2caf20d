----------------------------- MODULE Conditions -----------------------------
(***************************************************************************)
(* The conditions and the filter of one action, what is cached about them   *)
(* (Condition.n_rows_selected, Action.rows_all_false), and the requests     *)
(* that change formulas or data (action/views/condition.py, clone.py,       *)
(* dataops/views/row.py, table/views/table_display.py, merge.py).           *)
(*                                                                          *)
(* A row is reduced to one value, which stands for all its cells, and a     *)
(* formula to the set of values that satisfy it.  Rows have no order: the   *)
(* database numbers them anew in every query, and an UPDATE moves them.  So *)
(* of rows_all_false, a list of such numbers, only its length is kept,      *)
(* which is what the pages of the action report.                            *)
(*                                                                          *)
(* Requests of the instructor who holds the lock are atomic.  The answers   *)
(* of learners to surveys and the clicks that are tracked take no lock:     *)
(* each is a process that writes a cell, reads all conditions and then      *)
(* saves them one by one, with every field as it was read.                  *)
(***************************************************************************)
EXTENDS Integers, FiniteSets, FiniteSetsExt

CONSTANTS
    Values,      \* of rows
    Rows,        \* names of rows: the table has some of them
    Conds,       \* the filter and the conditions of the action
    Filter,      \* the one that is the filter
    Learners,    \* processes that answer a survey or follow a tracked link
    HabitSets,   \* what may happen together, see AllHabits
    None         \* no row in the database, null

(***************************************************************************)
(*   "bulk"        rows are deleted, tables merged and replaced             *)
(*   "lostkey"     a merge fails after the merged table was stored          *)
(*   "rows"        rows are created and edited in the table                 *)
(*   "columns"     columns are deleted, with the conditions that use them   *)
(*   "foreign"     conditions are cloned from another action                *)
(*   "clicks"      links in e-mails are tracked, or other actions' surveys  *)
(*                 answered                                                 *)
(*   "answers"     learners answer this action, if it is a survey           *)
(*   "duplicates"  several rows have the e-mail address of one learner      *)
(*   "overlap"     learners do so while other requests are served           *)
(***************************************************************************)
AllHabits == {"bulk", "lostkey", "rows", "columns", "foreign", "clicks",
              "answers", "duplicates", "overlap"}

Numbers == 0..Cardinality(Rows)

ASSUME ConditionsAssumption ==
    /\ IsFiniteSet(Rows)
    /\ Filter \in Conds
    /\ None \notin Values
    /\ \A S \in (SUBSET Values) \cup (SUBSET Conds) : S # None
    /\ \A n \in Numbers : n # None
    /\ HabitSets \subseteq SUBSET AllHabits

VARIABLES
    habits,    \* the habits of this behaviour: it never changes
    data,      \* per row: its value, None if the table does not have it
    formula,   \* per condition: its formula, None if it has no row
    count,     \* per condition: n_rows_selected
    allFalse,  \* length of rows_all_false of the action, or None
    kind,      \* per learner: "idle", "answer" or "click"
    touched,   \* per learner: the conditions it is going to count
    todo,      \* per learner: the conditions still to be counted, None before
               \* they are read
    readFormula, readCount,   \* per learner: the conditions as read
    readFalse  \* per learner: rows_all_false of the Action object of the request

cacheVars == <<formula, count, allFalse>>
readVars == <<readFormula, readCount>>
learnerVars == <<kind, touched, todo, readVars, readFalse>>
vars == <<habits, data, cacheVars, learnerVars>>

Counts == Numbers \cup {-1}
Tables == [Rows -> Values \cup {None}]
Formulas == (SUBSET Values) \cup {None}
Lengths == Numbers \cup {None}

TypeOK ==
    /\ habits \in HabitSets
    /\ data \in Tables
    /\ formula \in [Conds -> Formulas]
    /\ count \in [Conds -> Counts]
    /\ allFalse \in Lengths
    /\ kind \in [Learners -> {"idle", "answer", "click"}]
    /\ touched \in [Learners -> SUBSET Conds]
    /\ todo \in [Learners -> (SUBSET Conds) \cup {None}]
    /\ readFormula \in [Learners -> [Conds -> Formulas]]
    /\ readCount \in [Learners -> [Conds -> Counts]]
    /\ readFalse \in [Learners -> Lengths]

Present(d) == {r \in Rows : d[r] # None}
Existing(f) == {c \in Conds : f[c] # None}

NoFormulas == [c \in Conds |-> None]
NoCounts == [c \in Conds |-> -1]

\* An action without conditions, and a table that was uploaded.
Init ==
    /\ habits \in HabitSets
    /\ data \in Tables /\ Present(data) # {}
    /\ formula = NoFormulas
    /\ count = NoCounts
    /\ allFalse = None
    /\ kind = [l \in Learners |-> "idle"]
    /\ touched = [l \in Learners |-> {}]
    /\ todo = [l \in Learners |-> None]
    /\ readFormula = [l \in Learners |-> NoFormulas]
    /\ readCount = [l \in Learners |-> NoCounts]
    /\ readFalse = [l \in Learners |-> None]
-----------------------------------------------------------------------------
Selected(d, S) == {r \in Rows : d[r] \in S}

\* The formula that is counted for a condition: with that of the filter.
Conjunction(f, c) ==
    IF c # Filter /\ f[Filter] # None THEN f[c] \cap f[Filter] ELSE f[c]

\* Action.update_n_rows_selected: the counts of all conditions.
Fresh(d, f, old) ==
    [c \in Conds |-> IF f[c] # None
                     THEN Cardinality(Selected(d, Conjunction(f, c)))
                     ELSE old[c]]

\* Mutant of Reset: rows_all_false survives a new count.
ResetNever(new, old) == IF new = old THEN allFalse ELSE allFalse

\* Condition.update_n_rows_selected forgets rows_all_false if a count changes.
Reset(new, old) == IF new = old THEN allFalse ELSE None

\* All conditions are counted again, for data d and formulas f.
RecountAll(d, f) ==
    /\ count' = Fresh(d, f, count)
    /\ allFalse' = Reset(count', count)

\* select_ids_all_false: the rows in the filter in which no condition is true.
RowsAllFalse ==
    {r \in Present(data) :
        /\ formula[Filter] # None => data[r] \in formula[Filter]
        /\ \A c \in Existing(formula) \ {Filter} : data[r] \notin formula[c]}

\* Mutant of NumberAllFalse: it is computed from the counts.
NumberAllFalseBySum ==
    Cardinality(Present(data))
        - MapThenSumSet(LAMBDA c : count[c], Existing(formula) \ {Filter})

NumberAllFalse == Cardinality(RowsAllFalse)
-----------------------------------------------------------------------------
(* Requests of the instructor.                                               *)

Undisturbed ==
    "overlap" \in habits \/ \A l \in Learners : kind[l] = "idle"

Instructor(habit) ==
    /\ habit = "calm" \/ habit \in habits
    /\ Undisturbed
    /\ UNCHANGED <<habits, learnerVars>>

\* Mutant of FilterSave: the other conditions keep their counts.
FilterSaveAlone(S) ==
    /\ Instructor("calm") /\ Present(data) # {}
    /\ S # formula[Filter]
    /\ formula' = [formula EXCEPT ![Filter] = S]
    /\ count' = [count EXCEPT ![Filter] = Cardinality(Selected(data, S))]
    /\ allFalse' = None
    /\ UNCHANGED data

\* The form of the filter, new or not, with another formula.
FilterSave(S) ==
    /\ Instructor("calm") /\ Present(data) # {}
    /\ S # formula[Filter]
    /\ formula' = [formula EXCEPT ![Filter] = S]
    /\ count' = Fresh(data, formula', count)
    /\ allFalse' = None
    /\ UNCHANGED data

\* The form of a condition: only this one is counted, and without the filter.
ConditionSave(c, S) ==
    /\ Instructor("calm") /\ Present(data) # {}
    /\ c # Filter /\ S # formula[c]
    /\ formula' = [formula EXCEPT ![c] = S]
    /\ count' = [count EXCEPT ![c] = Cardinality(Selected(data, S))]
    /\ allFalse' = None
    /\ UNCHANGED data

FilterDelete ==
    /\ Instructor("calm") /\ Present(data) # {}
    /\ formula[Filter] # None
    /\ formula' = [formula EXCEPT ![Filter] = None]
    /\ count' = Fresh(data, formula', [count EXCEPT ![Filter] = -1])
    /\ allFalse' = None
    /\ UNCHANGED data

ConditionDelete(c) ==
    /\ Instructor("calm") /\ Present(data) # {}
    /\ c # Filter /\ formula[c] # None
    /\ formula' = [formula EXCEPT ![c] = None]
    /\ count' = [count EXCEPT ![c] = -1]
    /\ allFalse' = None
    /\ UNCHANGED data

\* A copy of a condition of this action: the cached values are copied or kept.
ConditionClone(c, new) ==
    /\ Instructor("calm") /\ Present(data) # {}
    /\ Filter \notin {c, new} /\ formula[c] # None /\ formula[new] = None
    /\ formula' = [formula EXCEPT ![new] = formula[c]]
    /\ count' = [count EXCEPT ![new] = count[c]]
    /\ UNCHANGED <<data, allFalse>>

\* A copy of a condition of another action, counted there with its filter.
ForeignClone(new, S, n) ==
    /\ Instructor("foreign") /\ Present(data) # {}
    /\ new # Filter /\ formula[new] = None
    /\ n <= Cardinality(Selected(data, S))
    /\ formula' = [formula EXCEPT ![new] = S]
    /\ count' = [count EXCEPT ![new] = n]
    /\ UNCHANGED <<data, allFalse>>

\* get_row_all_false_count, by the pages that list, edit and run actions.
EditPage ==
    /\ Instructor("calm") /\ Present(data) # {}
    /\ allFalse = None
    /\ Existing(formula) \ {Filter} # {}
    /\ allFalse' = NumberAllFalse
    /\ UNCHANGED <<data, formula, count>>

\* The recount after a row was created or edited is a map that nobody reads.
RowCreate(r, v) ==
    /\ Instructor("rows")
    /\ Present(data) # {} /\ data[r] = None
    /\ data' = [data EXCEPT ![r] = v]
    /\ UNCHANGED cacheVars

RowUpdate(r, v) ==
    /\ Instructor("rows")
    /\ data[r] \notin {None, v}
    /\ data' = [data EXCEPT ![r] = v]
    /\ UNCHANGED cacheVars

RowDelete(r) ==
    /\ Instructor("bulk")
    /\ data[r] # None
    /\ data' = [data EXCEPT ![r] = None]
    /\ RecountAll(data', formula)
    /\ UNCHANGED formula

\* A merge, or the PUT of a table by the API.
Replace(d) ==
    /\ Instructor("bulk")
    /\ Present(d) # {} /\ d # data
    /\ data' = d
    /\ RecountAll(d, formula)
    /\ UNCHANGED formula

\* A merge whose result lacks a column of the upload: the table is stored, then
\* setting the key properties fails, before anything is counted.
ReplaceUncounted(d) ==
    /\ Instructor("lostkey")
    /\ Present(d) # {} /\ d # data
    /\ data' = d
    /\ UNCHANGED cacheVars

\* Conditions go with a column they use.  The recount without the filter is a
\* map that nobody reads, and rows_all_false stays.
ColumnDelete(D) ==
    /\ Instructor("columns")
    /\ D # {} /\ D \subseteq Existing(formula)
    /\ formula' = [c \in Conds |-> IF c \in D THEN None ELSE formula[c]]
    /\ count' = [c \in Conds |-> IF c \in D THEN -1 ELSE count[c]]
    /\ UNCHANGED <<data, allFalse>>
-----------------------------------------------------------------------------
(* Requests without the lock.                                                *)

\* Not more than one row differs.
OneCell(d, e) ==
    \A q, r \in Rows : d[q] # e[q] /\ d[r] # e[r] => q = r

\* The action is read and the row of the learner is written.  After a click only
\* the conditions U are counted, which use its column: the truth values of the
\* others are what they were.
WriteCell(l, k, d, U) ==
    /\ kind[l] = "idle" /\ Undisturbed
    /\ k = "answer" => "answers" \in habits /\ U = Conds
    /\ k = "click" => "clicks" \in habits
    /\ Present(d) = Present(data)
    /\ OneCell(data, d) \/ "duplicates" \in habits
    /\ \A c \in Existing(formula) \ U :
          Selected(d, formula[c]) = Selected(data, formula[c])
    /\ data' = d
    /\ kind' = [kind EXCEPT ![l] = k]
    /\ touched' = [touched EXCEPT ![l] = U]
    /\ readFalse' = [readFalse EXCEPT ![l] = allFalse]
    /\ UNCHANGED <<habits, cacheVars, todo, readVars>>

\* The actions of the workflow are read, with those conditions that are counted.
ReadConditions(l) ==
    /\ kind[l] # "idle" /\ todo[l] = None
    /\ todo' = [todo EXCEPT ![l] = Existing(formula) \cap touched[l]]
    /\ readFormula' = [readFormula EXCEPT ![l] = formula]
    /\ readCount' = [readCount EXCEPT ![l] = count]
    /\ UNCHANGED <<habits, data, cacheVars, kind, touched, readFalse>>

\* One condition is counted and saved as it was read, the filter first.  Saving
\* one that was deleted meanwhile inserts it again.
CountOne(l, c) ==
    /\ todo[l] # None
    /\ c \in todo[l] /\ (Filter \in todo[l] => c = Filter)
    /\ LET n == Cardinality(Selected(data, Conjunction(readFormula[l], c))) IN
       /\ count' = [count EXCEPT ![c] = n]
       /\ allFalse' = Reset(n, readCount[l][c])
    /\ formula' = [formula EXCEPT ![c] = readFormula[l][c]]
    /\ todo' = [todo EXCEPT ![l] = @ \ {c}]
    /\ UNCHANGED <<habits, data, kind, touched, readVars, readFalse>>

\* A survey saves the Action object that it read at its start.
Finish(l) ==
    /\ todo[l] = {}
    /\ allFalse' = IF kind[l] = "answer" THEN readFalse[l] ELSE allFalse
    /\ kind' = [kind EXCEPT ![l] = "idle"]
    /\ touched' = [touched EXCEPT ![l] = {}]
    /\ todo' = [todo EXCEPT ![l] = None]
    /\ readFormula' = [readFormula EXCEPT ![l] = NoFormulas]
    /\ readCount' = [readCount EXCEPT ![l] = NoCounts]
    /\ readFalse' = [readFalse EXCEPT ![l] = None]
    /\ UNCHANGED <<habits, data, formula, count>>
-----------------------------------------------------------------------------
Edit ==
    \/ \E S \in SUBSET Values : FilterSave(S)
    \/ \E c \in Conds, S \in SUBSET Values :
          \/ ConditionSave(c, S)
          \/ \E n \in Numbers : ForeignClone(c, S, n)
    \/ FilterDelete
    \/ \E c \in Conds : ConditionDelete(c)
    \/ \E c, new \in Conds : ConditionClone(c, new)
    \/ \E D \in SUBSET Conds : ColumnDelete(D)

ChangeData ==
    \/ \E r \in Rows :
          \/ \E v \in Values : RowCreate(r, v) \/ RowUpdate(r, v)
          \/ RowDelete(r)
    \/ \E d \in Tables : Replace(d) \/ ReplaceUncounted(d)

Learn(l) ==
    \/ \E k \in {"answer", "click"}, d \in Tables, U \in SUBSET Conds :
          WriteCell(l, k, d, U)
    \/ ReadConditions(l)
    \/ \E c \in Conds : CountOne(l, c)
    \/ Finish(l)

Next == Edit \/ ChangeData \/ EditPage \/ \E l \in Learners : Learn(l)

Spec == Init /\ [][Next]_vars
-----------------------------------------------------------------------------
Quiet == \A l \in Learners : kind[l] = "idle"

Alone(c) == Cardinality(Selected(data, formula[c]))
WithFilter(c) == Cardinality(Selected(data, Conjunction(formula, c)))

\* The number of selected rows that the pages show is that of the data and the
\* formulas of now: for the filter exactly (the check in evaluate_action relies
\* on it), for a condition with or without the filter, depending on what was
\* saved last.  It holds at rest, after any edit, deletion of rows, complete
\* merge, answer and click; of an action with a filter a click may leave the
\* other conditions as they were, so there it is about the filter alone.
CountsCurrent ==
    Quiet /\ habits \subseteq {"bulk", "clicks", "answers", "duplicates"} =>
        \A c \in Existing(formula) :
            c = Filter \/ formula[Filter] = None \/ "clicks" \notin habits
            => count[c] \in {Alone(c), WithFilter(c)}

\* The number of rows reported as 'all conditions equal to FALSE' is the number
\* of now, while the instructor edits, and, in an action without a filter, also
\* when cells are clicked on: the code forgets the list when a formula is saved,
\* and after a click only when some count moves, which for one row is enough.
AllFalseCurrent ==
    /\ Quiet
    /\ habits = {} \/ (habits \subseteq {"clicks"} /\ formula[Filter] = None)
    => allFalse \in {None, NumberAllFalse}

\* An answer or a click stores numbers ("Reset the field n_rows_selected in all
\* conditions"): it leaves the formulas, and which conditions there are, alone.
OnlyHolderEdits ==
    [][UNCHANGED learnerVars \/ UNCHANGED formula]_vars
=============================================================================
