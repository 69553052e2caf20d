--------------------------- MODULE WorkflowTable ---------------------------
(***************************************************************************)
(* The columns of a workflow: its Column rows, the columns of the database  *)
(* table that holds the data, the counters in the Workflow row, and the     *)
(* conditions, views and learner e-mail column that refer to columns.       *)
(*                                                                          *)
(* An action is a request (workflow/views/column_crud.py, column_ops.py,    *)
(* workflow_ops.py, dataops/views/upload.py, table/api.py and what they     *)
(* call).  The lock of the workflow lets one user in, who sends one request *)
(* at a time, so requests are atomic here; what they write before an error  *)
(* is not undone (there are no database transactions around requests).      *)
(* Of the data, only the names of the columns are kept: a table has rows,   *)
(* and whether values are unique is a choice where the code looks at it.    *)
(***************************************************************************)
EXTENDS Integers, FiniteSets, Functions

CONSTANTS Names,       \* of columns
          Conditions, Views,
          None,        \* no column
          HabitSets,   \* what may happen together, see AllHabits
          MaxDrift,    \* bound on the columns that ncols does not count
          MaxUsed      \* bound on the columns that a formula uses

(***************************************************************************)
(*   "formula"  columns are computed from others                            *)
(*   "random"   columns with random values are added                        *)
(*   "altfail"  the database refuses to add a column to the table           *)
(*   "unkey"    uploaded data takes the key property from columns: the user *)
(*              asks for it, or the API does so by itself (merge.py:270-274) *)
(***************************************************************************)
AllHabits == {"formula", "random", "altfail", "unkey"}

ASSUME TableAssumption ==
    /\ IsFiniteSet(Names)
    /\ None \notin Names
    /\ HabitSets \subseteq SUBSET AllHabits
    /\ MaxDrift \in Nat
    /\ MaxUsed \in Nat

VARIABLES
    habits,  \* the habits of this behaviour: it never changes
    alive,   \* the workflow has a row
    data,    \* nrows # 0: the workflow has a table
    table,   \* the columns of the table in the database
    rows,    \* the columns that have a Column row
    pos,     \* Column.position, 0 for a column without row
    key,     \* Column.is_key
    ncols,   \* Workflow.ncols
    luser,   \* Workflow.luser_email_column
    cond,    \* the columns in the formula of a condition, {} if there is none
    views,   \* the views that have a row
    vcols,   \* View.columns
    vform    \* the columns that View.formula names

columnVars == <<rows, pos, key, ncols>>
refVars == <<cond, views, vcols, vform>>
vars == <<habits, alive, data, table, columnVars, luser, refVars>>

TypeOK ==
    /\ habits \in HabitSets
    /\ alive \in BOOLEAN
    /\ data \in BOOLEAN
    /\ table \subseteq Names
    /\ rows \subseteq Names
    /\ pos \in [Names -> Int]
    /\ key \subseteq rows
    /\ ncols \in Int
    /\ luser \in rows \cup {None}
    /\ cond \in [Conditions -> SUBSET Names]
    /\ views \subseteq Views
    /\ vcols \in [Views -> SUBSET rows]
    /\ vform \in [Views -> SUBSET Names]

Nothing ==
    /\ data' = FALSE
    /\ table' = {}
    /\ rows' = {}
    /\ pos' = [n \in Names |-> 0]
    /\ key' = {}
    /\ ncols' = 0
    /\ luser' = None
    /\ cond' = [c \in Conditions |-> {}]
    /\ views' = {}
    /\ vcols' = [v \in Views |-> {}]
    /\ vform' = [v \in Views |-> {}]

Init ==
    /\ habits \in HabitSets
    /\ alive = TRUE
    /\ data = FALSE
    /\ table = {}
    /\ rows = {}
    /\ pos = [n \in Names |-> 0]
    /\ key = {}
    /\ ncols = 0
    /\ luser = None
    /\ cond = [c \in Conditions |-> {}]
    /\ views = {}
    /\ vcols = [v \in Views |-> {}]
    /\ vform = [v \in Views |-> {}]
-----------------------------------------------------------------------------
\* Mutant of Reposition: the columns at both ends of the way stay.
RepositionInside(from, to) ==
    [n \in Names |->
        IF n \in rows /\ from < pos[n] /\ pos[n] < to THEN pos[n] - 1
        ELSE IF n \in rows /\ to < pos[n] /\ pos[n] < from THEN pos[n] + 1
        ELSE pos[n]]

\* Mutant of Reposition: a column that goes up changes places with one other.
RepositionSwap(from, to) ==
    [n \in Names |->
        IF n \in rows /\ from < pos[n] /\ pos[n] <= to THEN pos[n] - 1
        ELSE IF n \in rows /\ to = pos[n] /\ to < from THEN from
        ELSE pos[n]]

\* Workflow.reposition_columns: make room at position to, close it at from.
Reposition(from, to) ==
    [n \in Names |->
        IF n \in rows /\ from < pos[n] /\ pos[n] <= to THEN pos[n] - 1
        ELSE IF n \in rows /\ to <= pos[n] /\ pos[n] < from THEN pos[n] + 1
        ELSE pos[n]]

\* A column row that is saved at position q, the others moved to make room.
InsertRow(n, q) ==
    /\ rows' = rows \cup {n}
    /\ pos' = [Reposition(ncols + 1, q) EXCEPT ![n] = q]

\* The positions that are tried in a form: the forms, but one, replace those
\* out of range.
Positions == 0..Cardinality(Names) + 1

\* The forms replace a position that is out of range by the last one.
InsertAllowed(n, q) == data /\ n \notin rows /\ q \in 1..Cardinality(rows) + 1

AlterTable(n) ==
    \/ table' = table \cup {n}
    \/ "altfail" \in habits /\ UNCHANGED table

ColumnAdd(n, q) ==
    /\ InsertAllowed(n, q)
    /\ InsertRow(n, q)
    /\ ncols' = ncols + 1
    /\ AlterTable(n)
    /\ UNCHANGED <<habits, alive, data, key, luser, refVars>>

\* store_dataframe with the data and one more column that already has its row:
\* it fails if some other row has no column in the data.
StoreWith(n) ==
    IF rows \subseteq table THEN table' = table \cup {n} ELSE UNCHANGED table

Drift == Cardinality(rows) - ncols

\* The number of columns in the workflow stays as it is.
FormulaColumnAdd(n, q) ==
    /\ "formula" \in habits /\ Drift < MaxDrift
    /\ InsertAllowed(n, q)
    /\ InsertRow(n, q)
    /\ StoreWith(n)
    /\ UNCHANGED <<habits, alive, data, key, ncols, luser, refVars>>

\* The form leaves the position as it is given.  After a mistake in the values
\* the row that the form has saved stays, and nothing else is done.
RandomColumnAdd(n, q) ==
    /\ "random" \in habits /\ Drift < MaxDrift
    /\ data /\ n \notin rows
    /\ \/ InsertRow(n, q) /\ StoreWith(n)
       \/ /\ rows' = rows \cup {n}
          /\ pos' = [pos EXCEPT ![n] = q]
          /\ UNCHANGED table
    /\ UNCHANGED <<habits, alive, data, key, ncols, luser, refVars>>

\* Mutant of CloneCount: the counter of columns is forgotten.
CloneCountForgotten == UNCHANGED ncols
CloneCount == ncols' = ncols + 1

ColumnClone(n, m) ==
    /\ data /\ n \in rows /\ m \notin rows
    /\ rows' = rows \cup {m}
    /\ key' = IF n \in key THEN key \cup {m} ELSE key
    /\ pos' = [pos EXCEPT ![m] = ncols + 1]
    /\ CloneCount
    /\ AlterTable(m)
    /\ UNCHANGED <<habits, alive, data, luser, refVars>>
-----------------------------------------------------------------------------
\* Mutant of OnlyKey: the last key column is not protected.
OnlyKeyNever(n) == n \notin Names
OnlyKey(n) == key = {n}

Renamed(S, n, m) == IF n \in S THEN (S \ {n}) \cup {m} ELSE S

\* Mutant of RenameInConditions: the conditions keep the old name.
RenameNothing(n, m) == n \in Names /\ m \in Names /\ UNCHANGED cond
RenameInConditions(n, m) ==
    cond' = [c \in Conditions |-> Renamed(cond[c], n, m)]

\* Mutant of RenameInViews: the formulas of views keep the old name.
RenameInNoView(n, m) == n \in Names /\ m \in Names /\ UNCHANGED vform
RenameInViews(n, m) ==
    vform' = [v \in Views |-> Renamed(vform[v], n, m)]

\* Column n gets the name m, position q, and is a key column if k.  It is not
\* modelled that the request fails between the ALTER TABLE and the save of the
\* row, which would leave the table with a name that no row has.
ColumnEdit(n, m, q, k) ==
    /\ data /\ n \in rows /\ q \in 1..Cardinality(rows)
    /\ m # n => m \notin rows /\ n \in table
    /\ OnlyKey(n) => k
    /\ rows' = Renamed(rows, n, m)
    /\ table' = Renamed(table, n, m)
    /\ key' = (key \ {n}) \cup (IF k THEN {m} ELSE {})
    /\ pos' = [Reposition(pos[n], q) EXCEPT ![n] = 0, ![m] = q]
    /\ luser' = IF luser = n THEN m ELSE luser
    /\ RenameInConditions(n, m)
    /\ RenameInViews(n, m)
    /\ vcols' = [v \in Views |-> Renamed(vcols[v], n, m)]
    /\ UNCHANGED <<habits, alive, data, ncols, views>>

\* Drag and drop on the place of another column, to the top, to the bottom.
Target(n, q) == \/ \E m \in rows : q = pos[m]
                \/ data /\ pos[n] > 1 /\ q = 1
                \/ data /\ pos[n] < ncols /\ q = ncols

Move(n) ==
    /\ n \in rows
    /\ \E q \in {pos[m] : m \in rows} \cup {1, ncols} :
          /\ Target(n, q)
          /\ pos' = [Reposition(pos[n], q) EXCEPT ![n] = q]
    /\ UNCHANGED <<habits, alive, data, table, rows, key, ncols, luser, refVars>>

\* The workflow refers to its learner column with CASCADE: deleting the column
\* deletes the workflow, with its table, and saving it afterwards fails.
Vanish == alive' = FALSE /\ Nothing /\ UNCHANGED habits

\* Mutant of TakesWorkflow: the reference is left as it is.
TakesNothing(n) == n \notin Names
TakesWorkflow(n) == luser = n

\* Mutant of DropColumn: the table keeps the column.
DropNoColumn(n) == n \in Names /\ UNCHANGED table
DropColumn(n) == table' = table \ {n}

\* Conditions go with a column they use, and so does a view that shows no other
\* column.  The formulas of the views are left as they are.
DropReferences(n) ==
    /\ cond' = [c \in Conditions |-> IF n \in cond[c] THEN {} ELSE cond[c]]
    /\ vcols' = [v \in Views |-> vcols[v] \ {n}]
    /\ views' = {v \in views : vcols[v] \ {n} # {}}
    /\ vform' = [v \in Views |-> IF v \in views' THEN vform[v] ELSE {}]

ColumnDelete(n) ==
    /\ data /\ n \in rows /\ ~ OnlyKey(n)
    /\ n \in table
    /\ IF TakesWorkflow(n)
       THEN Vanish
       ELSE /\ DropColumn(n)
            /\ pos' = [Reposition(pos[n], ncols + 1) EXCEPT ![n] = 0]
            /\ rows' = rows \ {n}
            /\ key' = key \ {n}
            /\ ncols' = ncols - 1
            /\ DropReferences(n)
            /\ UNCHANGED <<habits, alive, data, luser>>

\* The page of a workflow gives all columns new positions if one has none.
Detail ==
    /\ alive
    /\ \E n \in rows : pos[n] = 0
    /\ \E f \in Bijection(rows, 1..Cardinality(rows)) :
          /\ \A a, b \in rows : pos[a] < pos[b] => f[a] < f[b]
          /\ pos' = [n \in Names |-> IF n \in rows THEN f[n] ELSE pos[n]]
    /\ UNCHANGED <<habits, alive, data, table, rows, key, ncols, luser, refVars>>
-----------------------------------------------------------------------------
\* store_workflow_table and add_columns: the table has the columns S from now
\* on, and those that are new get rows at the end, the ones in K as keys.
Store(S, K) ==
    LET new == S \ rows IN
    /\ table' = S
    /\ data' = TRUE
    /\ rows' = rows \cup new
    /\ key' = key \cup K
    /\ ncols' = ncols + Cardinality(new)
    /\ \E f \in Bijection(new, ncols + 1 .. ncols + Cardinality(new)) :
          pos' = [n \in Names |-> IF n \in new THEN f[n] ELSE pos[n]]
    /\ UNCHANGED <<habits, alive, luser, refVars>>

\* First upload: the pages ask for a key column, the API looks for one.
Upload(S, K) ==
    /\ alive /\ ~ data
    /\ K \subseteq S \ rows /\ K # {}
    /\ Store(S, K)

\* PUT of the API: the data must have all columns of the workflow, and the key
\* columns must be unique in it.
Override(S, K) ==
    /\ alive
    /\ S # {} /\ rows \subseteq S
    /\ K \subseteq S \ rows
    /\ rows = {} => K # {}
    /\ Store(S, K)

\* Data with columns S is merged into the table, and K are the columns that
\* are to be keys: new ones are if their values are unique in the result, old
\* ones if they were before.
Merge(S, K) ==
    /\ data /\ rows \subseteq table
    /\ K \subseteq S /\ K # {}
    /\ "unkey" \notin habits => S \cap key \subseteq K
    /\ LET new == S \ rows IN
       /\ table' = table \cup S
       /\ rows' = rows \cup new
       /\ ncols' = ncols + Cardinality(new)
       /\ \E f \in Bijection(new, ncols + 1 .. ncols + Cardinality(new)) :
             pos' = [n \in Names |-> IF n \in new THEN f[n] ELSE pos[n]]
       /\ \E U \in SUBSET (new \cap K) : key' = (key \ (S \ K)) \cup U
    /\ UNCHANGED <<habits, alive, data, luser, refVars>>

\* If the key of the uploaded data is its only new column, the result may be
\* without it: the rows that have no match are not added.  Then the loop that
\* updates the key property ends with an exception at that column.
MergeWithoutKey(S, K) ==
    /\ data /\ rows \subseteq table
    /\ Cardinality(S \ rows) = 1
    /\ K \subseteq S /\ K # {}
    /\ "unkey" \notin habits => S \cap key \subseteq K
    /\ \E U \in SUBSET (S \ K) : key' = key \ U
    /\ UNCHANGED <<habits, alive, data, table, rows, pos, ncols, luser, refVars>>

\* Workflow.flush; the page asks for data, the API does not.
Flush ==
    /\ alive
    /\ IF luser # None THEN Vanish ELSE Nothing /\ UNCHANGED <<habits, alive>>
-----------------------------------------------------------------------------
\* Conditions and filters of actions.
ConditionSave(c, V) ==
    /\ data /\ V # {} /\ V \subseteq rows /\ Cardinality(V) <= MaxUsed
    /\ cond' = [cond EXCEPT ![c] = V]
    /\ UNCHANGED <<habits, alive, data, table, columnVars, luser, views, vcols, vform>>

ConditionDelete(c) ==
    /\ cond[c] # {}
    /\ cond' = [cond EXCEPT ![c] = {}]
    /\ UNCHANGED <<habits, alive, data, table, columnVars, luser, views, vcols, vform>>

\* The form offers the columns of the workflow, and a formula that it came with
\* may go back as it is.
ViewSave(v, C, F) ==
    /\ alive /\ C \subseteq rows /\ C \cap key # {}
    /\ (F \subseteq rows /\ Cardinality(F) <= MaxUsed) \/ F = vform[v]
    /\ views' = views \cup {v}
    /\ vcols' = [vcols EXCEPT ![v] = C]
    /\ vform' = [vform EXCEPT ![v] = F]
    /\ UNCHANGED <<habits, alive, data, table, columnVars, luser, cond>>

ViewDelete(v) ==
    /\ v \in views
    /\ views' = views \ {v}
    /\ vcols' = [vcols EXCEPT ![v] = {}]
    /\ vform' = [vform EXCEPT ![v] = {}]
    /\ UNCHANGED <<habits, alive, data, table, columnVars, luser, cond>>

\* The request that would unset it has no column, and get_column sends it home.
AssignLuserColumn(n) ==
    /\ data /\ n \in rows /\ n \in table
    /\ luser' = n
    /\ UNCHANGED <<habits, alive, data, table, columnVars, refVars>>
-----------------------------------------------------------------------------
Next ==
    \/ \E n \in Names, q \in Positions :
          \/ ColumnAdd(n, q) \/ FormulaColumnAdd(n, q) \/ RandomColumnAdd(n, q)
    \/ \E n, m \in Names :
          \/ ColumnClone(n, m)
          \/ \E q \in Positions, k \in BOOLEAN : ColumnEdit(n, m, q, k)
    \/ \E n \in Names : Move(n) \/ ColumnDelete(n) \/ AssignLuserColumn(n)
    \/ \E S, K \in SUBSET Names :
          Upload(S, K) \/ Override(S, K) \/ Merge(S, K) \/ MergeWithoutKey(S, K)
    \/ Detail \/ Flush
    \/ \E c \in Conditions :
          ConditionDelete(c) \/ \E V \in SUBSET Names : ConditionSave(c, V)
    \/ \E v \in Views :
          ViewDelete(v) \/ \E C, F \in SUBSET Names : ViewSave(v, C, F)

Spec == Init /\ [][Next]_vars
-----------------------------------------------------------------------------
\* Every request that adds a column counts it.
AllCounted == habits \cap {"formula", "random"} = {}

\* Every column that gets a row gets into the table.
AllStored == habits \cap {"random", "altfail"} = {}

\* The workflow and its table agree on the columns and on their number, as the
\* assertions of check_wf_df say (dataops/pandas/database.py:217-225), if columns
\* are neither computed nor random and the database refuses none.
Consistent ==
    AllCounted /\ AllStored => rows = table /\ ncols = Cardinality(table)

\* "Columns are properly numbered" (workflow/views/workflow_crud.py:175-178), if
\* columns are neither computed nor random, and also if some are refused.
ProperlyNumbered ==
    AllCounted =>
        /\ \A a, b \in rows : pos[a] = pos[b] => a = b
        /\ {pos[n] : n \in rows} = 1..Cardinality(rows)

\* A table has a key column, in whatever order columns are edited, cloned,
\* merged and deleted: "at least one key column must exist"
\* (column_crud.py:610-614, forms/column.py:300-313, database.py:253).  Only a
\* merge that takes the key property away can leave it without.
KeyColumnRemains == "unkey" \notin habits /\ data => key # {}

\* A condition uses columns of the workflow only, and a view shows some and no
\* other ones: renaming and deleting a column reach all of them
\* (workflow/ops.py:53-83).  Of the formulas of views this cannot be said.
NothingDangles ==
    /\ \A c \in Conditions : cond[c] \subseteq rows
    /\ \A v \in views : vcols[v] # {} /\ vcols[v] \subseteq rows

\* The formula of a view, from which its number of rows is computed
\* (models/view.py:71-82), stops naming columns of the workflow in one way only:
\* one of them is deleted.  Renaming reaches it (dataframe.py:379-385).
OnlyDeletionsDangle ==
    [][\A v \in views \cap views' :
          vform[v] \subseteq rows /\ ~ (vform'[v] \subseteq rows') =>
              \E n \in vform[v] : rows' = rows \ {n}]_vars

\* No column of the table is unknown to the workflow, also when the database
\* refuses to add one and when columns are computed: otherwise it is shown
\* nowhere, cannot be deleted, and the next merge adds its row.
TableColumnsKnown == table \subseteq rows

\* Flushing the data or deleting a column leaves the workflow: "The workflow
\* object remains, just the data frame is deleted" (table/api.py:160-161).
WorkflowRemains == [][alive => alive']_vars

\* The positions of the columns behave like a list, ColumnList, if columns are
\* neither computed nor random (otherwise nothing is claimed).
ColumnAt(i) == CHOOSE n \in rows : pos[n] = i
Columns == IF AllCounted THEN [i \in 1..Cardinality(rows) |-> ColumnAt(i)] ELSE <<>>

List == INSTANCE ColumnList WITH list <- Columns

IsColumnList == List!Spec
=============================================================================
