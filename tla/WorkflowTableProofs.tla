------------------------ MODULE WorkflowTableProofs ------------------------
(***************************************************************************)
(* Proofs about WorkflowTable for any finite set of names and any number of *)
(* conditions and views.                                                    *)
(***************************************************************************)
EXTENDS WorkflowTable, FiniteSetTheorems, TLAPS

\* The columns that an upload brings are finitely many.
LEMMA FinitelyMany ==
    ASSUME NEW S \in SUBSET Names
    PROVE  IsFiniteSet(S) /\ Cardinality(S) \in Nat
<1>1. IsFiniteSet(S)
  BY FS_Subset, TableAssumption
<1>2. QED
  BY <1>1, FS_CardinalityType

\* Renamed on subsets of Names.
LEMMA RenamedSubset ==
    ASSUME NEW R, NEW S \in SUBSET R, NEW n, NEW m
    PROVE  /\ Renamed(S, n, m) \subseteq Renamed(R, n, m)
           /\ S # {} => Renamed(S, n, m) # {}
BY DEF Renamed

\* Emptying the workflow leaves every variable in its type.
LEMMA NothingType ==
    ASSUME Nothing, alive' \in BOOLEAN, habits' \in HabitSets PROVE TypeOK'
<1>1. pos' \in [Names -> Int] /\ cond' \in [Conditions -> SUBSET Names]
  BY DEF Nothing
<1>2. vcols' \in [Views -> SUBSET rows']
  BY DEF Nothing
<1>3. data' \in BOOLEAN
  BY Zenon DEF Nothing
<1>4. ncols' \in Int /\ luser' = None
  BY DEF Nothing
<1>7. vform' \in [Views -> SUBSET Names]
  BY DEF Nothing
<1>5. table' = {} /\ rows' = {} /\ key' = {} /\ views' = {}
  BY DEF Nothing
<1>6. QED
  BY <1>1, <1>2, <1>3, <1>4, <1>5, <1>7 DEF TypeOK

\* No request takes a variable out of its type.
LEMMA TypeStep == TypeOK /\ [Next]_vars => TypeOK'
<1> SUFFICES ASSUME TypeOK, [Next]_vars PROVE TypeOK'
  OBVIOUS
<1> USE TableAssumption DEF TypeOK
<1>1. CASE UNCHANGED vars
  BY <1>1 DEF vars, columnVars, refVars
<1>a. \A f, t : Reposition(f, t) \in [Names -> Int]
  BY DEF Reposition
<1>b. \A n \in Names, q \in Positions : InsertRow(n, q) =>
          rows' \in SUBSET Names /\ rows \subseteq rows' /\ pos' \in [Names -> Int]
  BY <1>a DEF InsertRow, Positions
<1>c. \A S \in SUBSET Names : Cardinality(S) \in Nat
  BY FinitelyMany
<1>d. ASSUME NEW S \in SUBSET Names,
             NEW f \in Bijection(S \ rows,
                               ncols + 1 .. ncols + Cardinality(S \ rows))
      PROVE  [n \in Names |-> IF n \in S \ rows THEN f[n] ELSE pos[n]]
                 \in [Names -> Int]
  <2>1. f \in [S \ rows -> Int]
    BY <1>c DEF Bijection, Injection
  <2>2. QED
    BY <2>1
<1>2. ASSUME NEW n \in Names, NEW q \in Positions, ColumnAdd(n, q)
      PROVE  TypeOK'
  BY <1>2, <1>b DEF ColumnAdd, AlterTable, refVars
<1>3. ASSUME NEW n \in Names, NEW q \in Positions, FormulaColumnAdd(n, q)
      PROVE  TypeOK'
  BY <1>3, <1>b DEF FormulaColumnAdd, StoreWith, refVars
<1>4. ASSUME NEW n \in Names, NEW q \in Positions, RandomColumnAdd(n, q)
      PROVE  TypeOK'
  <2>1. rows' \in SUBSET Names /\ rows \subseteq rows' /\ pos' \in [Names -> Int]
    BY <1>4, <1>b DEF RandomColumnAdd, Positions
  <2>2. QED
    BY <1>4, <2>1 DEF RandomColumnAdd, StoreWith, refVars
<1>5. ASSUME NEW n \in Names, NEW m \in Names, ColumnClone(n, m)
      PROVE  TypeOK'
  BY <1>5 DEF ColumnClone, CloneCount, AlterTable, refVars
<1>6. ASSUME NEW n \in Names, NEW m \in Names, NEW q \in Positions,
             NEW k \in BOOLEAN, ColumnEdit(n, m, q, k)
      PROVE  TypeOK'
  <2>1. pos' \in [Names -> Int]
    BY <1>6, <1>a DEF ColumnEdit, Positions
  <2>2. vcols' \in [Views -> SUBSET rows']
    BY <1>6, RenamedSubset DEF ColumnEdit
  <2>3. cond' \in [Conditions -> SUBSET Names]
    BY <1>6 DEF ColumnEdit, RenameInConditions, Renamed
  <2>4. vform' \in [Views -> SUBSET Names]
    BY <1>6 DEF ColumnEdit, RenameInViews, Renamed
  <2>5. QED
    BY <1>6, <2>1, <2>2, <2>3, <2>4 DEF ColumnEdit, Renamed
<1>7. ASSUME NEW n \in Names, Move(n) PROVE TypeOK'
  BY <1>7, <1>a DEF Move, refVars
<1>8. ASSUME NEW n \in Names, ColumnDelete(n) PROVE TypeOK'
  <2>1. CASE TakesWorkflow(n)
    BY <1>8, <2>1, NothingType DEF ColumnDelete, Vanish
  <2>2. CASE ~ TakesWorkflow(n)
    BY <1>8, <2>2, <1>a
       DEF ColumnDelete, DropColumn, DropReferences, TakesWorkflow
  <2>3. QED
    BY <2>1, <2>2
<1>9. ASSUME NEW n \in Names, AssignLuserColumn(n) PROVE TypeOK'
  BY <1>9 DEF AssignLuserColumn, columnVars, refVars
<1>10. ASSUME NEW S \in SUBSET Names, NEW K \in SUBSET Names,
              Store(S, K), K \subseteq S \ rows
       PROVE  TypeOK'
  <2>1. pos' \in [Names -> Int] /\ ncols' \in Int
    <3>1. PICK f \in Bijection(S \ rows,
                               ncols + 1 .. ncols + Cardinality(S \ rows)) :
              pos' = [n \in Names |->
                         IF n \in S \ rows THEN f[n] ELSE pos[n]]
      BY <1>10 DEF Store
    <3>2. pos' \in [Names -> Int]
      <4>1. [n \in Names |-> IF n \in S \ rows THEN f[n] ELSE pos[n]]
                \in [Names -> Int]
        BY ONLY <1>d, S \in SUBSET Names,
                f \in Bijection(S \ rows,
                               ncols + 1 .. ncols + Cardinality(S \ rows))
      <4>2. QED
        BY ONLY <3>1, <4>1
    <3>3. Cardinality(S \ rows) \in Nat
      BY <1>c
    <3>4. ncols' = ncols + Cardinality(S \ rows)
      BY <1>10 DEF Store
    <3>5. QED
      BY <3>2, <3>3, <3>4
  <2>2. /\ rows' = rows \cup S
        /\ table' = S
        /\ key' = key \cup K
        /\ data' = TRUE
    BY <1>10 DEF Store
  <2>3. UNCHANGED <<habits, alive, luser, refVars>>
    BY <1>10 DEF Store
  <2>4. vcols' \in [Views -> SUBSET rows']
    BY <2>2, <2>3 DEF refVars
  <2>5. QED
    BY <1>10, <2>1, <2>2, <2>3, <2>4 DEF refVars
<1>11. ASSUME NEW S \in SUBSET Names, NEW K \in SUBSET Names, Merge(S, K)
       PROVE  TypeOK'
  <2>1. pos' \in [Names -> Int] /\ ncols' \in Int
    <3>1. PICK f \in Bijection(S \ rows,
                               ncols + 1 .. ncols + Cardinality(S \ rows)) :
              pos' = [n \in Names |->
                         IF n \in S \ rows THEN f[n] ELSE pos[n]]
      BY <1>11 DEF Merge
    <3>2. pos' \in [Names -> Int]
      <4>1. [n \in Names |-> IF n \in S \ rows THEN f[n] ELSE pos[n]]
                \in [Names -> Int]
        BY ONLY <1>d, S \in SUBSET Names,
                f \in Bijection(S \ rows,
                               ncols + 1 .. ncols + Cardinality(S \ rows))
      <4>2. QED
        BY ONLY <3>1, <4>1
    <3>3. Cardinality(S \ rows) \in Nat
      BY <1>c
    <3>4. ncols' = ncols + Cardinality(S \ rows)
      BY <1>11 DEF Merge
    <3>5. QED
      BY <3>2, <3>3, <3>4
  <2>2. /\ rows' = rows \cup S
        /\ table' = table \cup S
        /\ key' \subseteq key \cup S
    BY <1>11 DEF Merge
  <2>3. UNCHANGED <<habits, alive, data, luser, refVars>>
    BY <1>11 DEF Merge
  <2>4. vcols' \in [Views -> SUBSET rows']
    BY <2>2, <2>3 DEF refVars
  <2>5. QED
    BY <2>1, <2>2, <2>3, <2>4 DEF refVars
<1>12. ASSUME NEW S \in SUBSET Names, NEW K \in SUBSET Names,
              MergeWithoutKey(S, K)
       PROVE  TypeOK'
  BY <1>12 DEF MergeWithoutKey, refVars
<1>13. ASSUME Detail PROVE TypeOK'
  <2>1. pos' \in [Names -> Int]
    BY <1>13, <1>c DEF Detail, Bijection, Injection
  <2>2. QED
    BY <1>13, <2>1 DEF Detail, refVars
<1>14. ASSUME Flush PROVE TypeOK'
  BY <1>14, NothingType DEF Flush, Vanish
<1>15. ASSUME NEW c \in Conditions,
              ConditionDelete(c) \/ \E V \in SUBSET Names : ConditionSave(c, V)
       PROVE  TypeOK'
  BY <1>15 DEF ConditionSave, ConditionDelete, columnVars
<1>16. ASSUME NEW v \in Views,
              ViewDelete(v) \/ \E C, F \in SUBSET Names : ViewSave(v, C, F)
       PROVE  TypeOK'
  BY <1>16 DEF ViewSave, ViewDelete, columnVars
<1>17. ASSUME NEW S \in SUBSET Names, NEW K \in SUBSET Names,
              Upload(S, K) \/ Override(S, K)
       PROVE  TypeOK'
  BY <1>10, <1>17 DEF Upload, Override
<1> HIDE DEF TypeOK
<1>18. QED
  BY <1>1, <1>2, <1>3, <1>4, <1>5, <1>6, <1>7, <1>8, <1>9, <1>11, <1>12,
     <1>13, <1>14, <1>15, <1>16, <1>17 DEF Next

\* What is taken to happen stays as it is.
LEMMA HabitsStay == [Next]_vars => habits' = habits
<1> SUFFICES ASSUME [Next]_vars PROVE habits' = habits
  OBVIOUS
<1>1. CASE UNCHANGED vars
  BY <1>1 DEF vars
<1>2. CASE Next
  BY <1>2 DEF Next, ColumnAdd, FormulaColumnAdd, RandomColumnAdd, ColumnClone,
       ColumnEdit, Move, ColumnDelete, AssignLuserColumn, Upload, Override, Merge,
       MergeWithoutKey, Store, Detail, Flush, Vanish, ConditionSave,
       ConditionDelete, ViewSave, ViewDelete
<1>3. QED
  BY <1>1, <1>2

\* The initial state has the right types.
LEMMA InitType == Init => TypeOK
<1> SUFFICES ASSUME Init PROVE TypeOK
  OBVIOUS
<1>1. pos \in [Names -> Int] /\ cond \in [Conditions -> SUBSET Names]
  BY DEF Init
<1>2. vcols \in [Views -> SUBSET rows]
  BY DEF Init
<1>3. alive \in BOOLEAN /\ data \in BOOLEAN
  BY Zenon DEF Init
<1>4. QED
  BY <1>1, <1>2, <1>3 DEF Init, TypeOK

\* The variables of WorkflowTable stay in their types, whatever happens.
THEOREM TableTypes == Spec => []TypeOK
BY InitType, TypeStep, PTL DEF Spec
-----------------------------------------------------------------------------
\* Neither a failing ALTER TABLE nor a failing store leaves a column in the
\* table that has no row.
LEMMA KnownStep ==
    TypeOK /\ TableColumnsKnown /\ [Next]_vars => TableColumnsKnown'
<1> SUFFICES ASSUME TypeOK, table \subseteq rows, [Next]_vars
             PROVE  table' \subseteq rows'
  BY DEF TableColumnsKnown
<1>1. CASE UNCHANGED vars
  BY <1>1 DEF vars, columnVars
<1>2. ASSUME NEW n \in Names, NEW q \in Positions,
             \/ ColumnAdd(n, q) \/ FormulaColumnAdd(n, q)
             \/ RandomColumnAdd(n, q)
      PROVE  table' \subseteq rows'
  BY <1>2 DEF ColumnAdd, FormulaColumnAdd, RandomColumnAdd, InsertRow,
              AlterTable, StoreWith
<1>3. ASSUME NEW n \in Names, NEW m \in Names, ColumnClone(n, m)
      PROVE  table' \subseteq rows'
  BY <1>3 DEF ColumnClone, AlterTable
<1>4. ASSUME NEW n \in Names, NEW m \in Names, NEW q \in Positions,
             NEW k \in BOOLEAN, ColumnEdit(n, m, q, k)
      PROVE  table' \subseteq rows'
  BY <1>4 DEF ColumnEdit, Renamed
<1>5. ASSUME NEW n \in Names,
             Move(n) \/ ColumnDelete(n) \/ AssignLuserColumn(n)
      PROVE  table' \subseteq rows'
  BY <1>5 DEF Move, ColumnDelete, AssignLuserColumn, columnVars, DropColumn,
              Vanish, Nothing
<1>6. ASSUME NEW S \in SUBSET Names, NEW K \in SUBSET Names,
             \/ Upload(S, K) \/ Override(S, K) \/ Merge(S, K)
             \/ MergeWithoutKey(S, K)
      PROVE  table' \subseteq rows'
  BY <1>6 DEF Upload, Override, Store, Merge, MergeWithoutKey
<1>7. CASE Detail \/ Flush
  BY <1>7 DEF Detail, Flush, Vanish, Nothing
<1>8. ASSUME NEW c \in Conditions,
             ConditionDelete(c) \/ \E V \in SUBSET Names : ConditionSave(c, V)
      PROVE  table' \subseteq rows'
  BY <1>8 DEF ConditionSave, ConditionDelete, columnVars
<1>9. ASSUME NEW v \in Views,
             ViewDelete(v) \/ \E C, F \in SUBSET Names : ViewSave(v, C, F)
      PROVE  table' \subseteq rows'
  BY <1>9 DEF ViewSave, ViewDelete, columnVars
<1>10. QED
  BY <1>1, <1>2, <1>3, <1>4, <1>5, <1>6, <1>7, <1>8, <1>9 DEF Next

\* No column of the table is unknown to the workflow, whatever happens.
THEOREM ColumnsKnown == Spec => []TableColumnsKnown
<1>1. Init => TypeOK /\ TableColumnsKnown
  BY InitType DEF Init, TableColumnsKnown
<1>2. QED
  BY <1>1, TypeStep, KnownStep, PTL DEF Spec
-----------------------------------------------------------------------------
\* A workflow without data has no columns; one with data has a key.
Keyed == (rows # {} => data) /\ (data => key # {})

\* Merges apart that are asked to take the key from a column, no request takes
\* the last key: neither editing nor deleting the only one, nor replacing data.
LEMMA KeyStep ==
    ASSUME "unkey" \notin habits, TypeOK, Keyed, [Next]_vars PROVE Keyed'
<1> USE DEF Keyed, TypeOK
<1>1. CASE UNCHANGED vars
  BY <1>1 DEF vars, columnVars
<1>2. ASSUME NEW n \in Names, NEW q \in Positions,
             \/ ColumnAdd(n, q) \/ FormulaColumnAdd(n, q)
             \/ RandomColumnAdd(n, q)
      PROVE  Keyed'
  BY <1>2 DEF ColumnAdd, FormulaColumnAdd, RandomColumnAdd, InsertAllowed
<1>3. ASSUME NEW n \in Names, NEW m \in Names, ColumnClone(n, m)
      PROVE  Keyed'
  BY <1>3 DEF ColumnClone
<1>4. ASSUME NEW n \in Names, NEW m \in Names, NEW q \in Positions,
             NEW k \in BOOLEAN, ColumnEdit(n, m, q, k)
      PROVE  Keyed'
  <2>1. data' /\ key # {} /\ (key = {n} => k)
    BY <1>4 DEF ColumnEdit, OnlyKey
  <2>2. key' = (key \ {n}) \cup (IF k THEN {m} ELSE {})
    BY <1>4 DEF ColumnEdit
  <2>3. key' # {}
    BY <2>1, <2>2
  <2>4. QED
    BY <2>1, <2>3
<1>5. ASSUME NEW n \in Names, ColumnDelete(n) PROVE Keyed'
  <2>1. CASE TakesWorkflow(n)
    BY <1>5, <2>1 DEF ColumnDelete, Vanish, Nothing
  <2>2. CASE ~ TakesWorkflow(n)
    <3>1. data' /\ key # {} /\ key # {n} /\ key' = key \ {n}
      BY <1>5, <2>2 DEF ColumnDelete, OnlyKey
    <3>2. QED
      BY <3>1
  <2>3. QED
    BY <2>1, <2>2
<1>6. ASSUME NEW n \in Names, Move(n) \/ AssignLuserColumn(n) PROVE Keyed'
  BY <1>6 DEF Move, AssignLuserColumn, columnVars
<1>7. ASSUME NEW S \in SUBSET Names, NEW K \in SUBSET Names,
             Upload(S, K) \/ Override(S, K)
      PROVE  Keyed'
  <2>1. data' /\ key' = key \cup K /\ (K = {} => rows # {})
    BY <1>7 DEF Upload, Override, Store
  <2>2. QED
    BY <2>1
<1>8. ASSUME NEW S \in SUBSET Names, NEW K \in SUBSET Names,
             Merge(S, K) \/ MergeWithoutKey(S, K)
      PROVE  Keyed'
  <2>1. data' /\ key # {} /\ S \cap key \subseteq K
    BY <1>8 DEF Merge, MergeWithoutKey
  <2>2. key \subseteq key'
    BY <1>8, <2>1 DEF Merge, MergeWithoutKey
  <2>3. QED
    BY <2>1, <2>2
<1>9. CASE Detail \/ Flush
  BY <1>9 DEF Detail, Flush, Vanish, Nothing
<1>10. ASSUME NEW c \in Conditions,
              ConditionDelete(c) \/ \E V \in SUBSET Names : ConditionSave(c, V)
       PROVE  Keyed'
  BY <1>10 DEF ConditionSave, ConditionDelete, columnVars
<1>11. ASSUME NEW v \in Views,
              ViewDelete(v) \/ \E C, F \in SUBSET Names : ViewSave(v, C, F)
       PROVE  Keyed'
  BY <1>11 DEF ViewSave, ViewDelete, columnVars
<1> HIDE DEF Keyed, TypeOK
<1>12. QED
  BY <1>1, <1>2, <1>3, <1>4, <1>5, <1>6, <1>7, <1>8, <1>9, <1>10, <1>11
     DEF Next

\* A table never loses its last key column.
THEOREM KeySafety == Spec => []KeyColumnRemains
<1> DEFINE Inv == TypeOK /\ ("unkey" \notin habits => Keyed)
<1>1. Init => Inv
  BY InitType DEF Init, Keyed
<1>2. Inv /\ [Next]_vars => Inv'
  BY TypeStep, KeyStep, HabitsStay
<1>3. Inv => KeyColumnRemains
  BY DEF Keyed, KeyColumnRemains
<1>4. QED
  BY <1>1, <1>2, <1>3, PTL DEF Spec
-----------------------------------------------------------------------------
\* Positions number the columns R from 1 to N.
NumberedBy(R, f, N) ==
    /\ \A a \in R : f[a] \in 1..N
    /\ \A a, b \in R : f[a] = f[b] => a = b
    /\ \A i \in 1..N : \E a \in R : f[a] = i

Numbered == ncols \in Nat /\ NumberedBy(rows, pos, ncols)

\* Making room at q and putting a column there.
LEMMA InsertNumbers ==
    ASSUME TypeOK, Numbered, NEW n \in Names \ rows, NEW q \in 1..ncols + 1,
           InsertRow(n, q)
    PROVE  NumberedBy(rows', pos', ncols + 1)
<1> USE DEF TypeOK, Numbered, NumberedBy
<1>1. rows' = rows \cup {n} /\ pos'[n] = q
  BY DEF InsertRow, Reposition
<1>2. ASSUME NEW b \in rows
      PROVE  /\ pos[b] \in 1..ncols
             /\ pos'[b] = IF q <= pos[b] THEN pos[b] + 1 ELSE pos[b]
  BY DEF InsertRow, Reposition
<1>3. ASSUME NEW a \in rows' PROVE pos'[a] \in 1..ncols + 1
  BY <1>1, <1>2
<1>4. ASSUME NEW a \in rows', NEW b \in rows', pos'[a] = pos'[b]
      PROVE  a = b
  BY <1>1, <1>2, <1>4
<1>5. ASSUME NEW i \in 1..ncols + 1 PROVE \E a \in rows' : pos'[a] = i
  <2>1. CASE i = q
    BY <1>1, <2>1
  <2>2. CASE i < q
    <3>1. PICK a \in rows : pos[a] = i
      BY <2>2
    <3>2. QED
      BY <1>1, <1>2, <2>2, <3>1
  <2>3. CASE i > q
    <3>1. PICK a \in rows : pos[a] = i - 1
      BY <2>3
    <3>2. QED
      BY <1>1, <1>2, <2>3, <3>1
  <2>4. QED
    BY <2>1, <2>2, <2>3
<1>6. QED
  BY <1>3, <1>4, <1>5

\* Taking a column out and closing the gap.
LEMMA DeleteNumbers ==
    ASSUME TypeOK, Numbered, NEW n \in rows,
           NEW g, \A b \in rows \ {n} : g[b] = Reposition(pos[n], ncols + 1)[b]
    PROVE  ncols > 0 /\ NumberedBy(rows \ {n}, g, ncols - 1)
<1> USE DEF TypeOK, Numbered, NumberedBy
<1>1. pos[n] \in 1..ncols /\ ncols > 0
  OBVIOUS
<1>2. ASSUME NEW b \in rows \ {n}
      PROVE  /\ pos[b] \in 1..ncols /\ pos[b] # pos[n]
             /\ g[b] = IF pos[n] < pos[b] THEN pos[b] - 1 ELSE pos[b]
  <2>1. pos[b] \in 1..ncols /\ pos[b] # pos[n]
    OBVIOUS
  <2>2. g[b] = Reposition(pos[n], ncols + 1)[b] /\ b \in Names
    OBVIOUS
  <2>3. QED
    BY <1>1, <2>1, <2>2 DEF Reposition
<1>3. ASSUME NEW a \in rows \ {n} PROVE g[a] \in 1..ncols - 1
  BY <1>1, <1>2
<1>4. ASSUME NEW a \in rows \ {n}, NEW b \in rows \ {n}, g[a] = g[b]
      PROVE  a = b
  BY <1>1, <1>2, <1>4
<1>5. ASSUME NEW i \in 1..ncols - 1 PROVE \E a \in rows \ {n} : g[a] = i
  <2>1. CASE i < pos[n]
    <3>1. PICK a \in rows : pos[a] = i
      BY <1>1, <2>1
    <3>2. QED
      BY <1>1, <1>2, <2>1, <3>1
  <2>2. CASE i >= pos[n]
    <3>1. PICK a \in rows : pos[a] = i + 1
      BY <1>1, <2>2
    <3>2. QED
      BY <1>1, <1>2, <2>2, <3>1
  <2>3. QED
    BY <1>1, <2>1, <2>2
<1>6. QED
  BY <1>1, <1>3, <1>4, <1>5

\* Moving column n to position q, and giving it the name m.
LEMMA MoveNumbers ==
    ASSUME TypeOK, Numbered, NEW n \in rows, NEW m \in Names,
           m \notin rows \ {n}, NEW q \in 1..ncols,
           NEW g, \A b \in rows \ {n} : g[b] = Reposition(pos[n], q)[b],
           g[m] = q
    PROVE  NumberedBy((rows \ {n}) \cup {m}, g, ncols)
<1> USE DEF TypeOK, Numbered, NumberedBy
<1> DEFINE R == (rows \ {n}) \cup {m}
<1>1. pos[n] \in 1..ncols
  OBVIOUS
<1>2. ASSUME NEW b \in rows \ {n}
      PROVE  /\ pos[b] \in 1..ncols /\ pos[b] # pos[n]
             /\ g[b] = IF pos[n] < pos[b] /\ pos[b] <= q THEN pos[b] - 1
                       ELSE IF q <= pos[b] /\ pos[b] < pos[n] THEN pos[b] + 1
                       ELSE pos[b]
  <2>1. pos[b] \in 1..ncols /\ pos[b] # pos[n]
    OBVIOUS
  <2>2. g[b] = Reposition(pos[n], q)[b] /\ b \in Names
    OBVIOUS
  <2>3. QED
    BY <2>1, <2>2 DEF Reposition
<1>3. ASSUME NEW a \in R PROVE g[a] \in 1..ncols
  BY <1>1, <1>2
<1>4. ASSUME NEW a \in R, NEW b \in R, g[a] = g[b] PROVE a = b
  BY <1>1, <1>2, <1>4
<1>5. ASSUME NEW i \in 1..ncols PROVE \E a \in R : g[a] = i
  <2>1. CASE i = q
    BY <2>1
  <2>2. CASE i # q /\ pos[n] <= i /\ i < q
    <3>1. PICK a \in rows : pos[a] = i + 1
      BY <1>1, <2>2
    <3>2. QED
      BY <1>1, <1>2, <2>2, <3>1
  <2>3. CASE i # q /\ q < i /\ i <= pos[n]
    <3>1. PICK a \in rows : pos[a] = i - 1
      BY <1>1, <2>3
    <3>2. QED
      BY <1>1, <1>2, <2>3, <3>1
  <2>4. CASE /\ i # q /\ ~ (pos[n] <= i /\ i < q)
             /\ ~ (q < i /\ i <= pos[n])
    <3>1. PICK a \in rows : pos[a] = i
      BY <2>4
    <3>2. a # n
      BY <1>1, <2>4, <3>1
    <3>3. QED
      BY <1>1, <1>2, <2>4, <3>1, <3>2
  <2>5. QED
    BY <2>1, <2>2, <2>3, <2>4
<1>6. QED
  BY <1>3, <1>4, <1>5

\* Columns that are appended in some order.
LEMMA AppendNumbers ==
    ASSUME TypeOK, Numbered, NEW new \in SUBSET (Names \ rows), NEW k \in Nat,
           NEW f \in Bijection(new, ncols + 1 .. ncols + k),
           NEW g,
           g = [n \in Names |-> IF n \in new THEN f[n] ELSE pos[n]]
    PROVE  NumberedBy(rows \cup new, g, ncols + k)
<1> USE DEF TypeOK, Numbered, NumberedBy
<1>1. /\ \A a \in new : f[a] \in ncols + 1 .. ncols + k
      /\ \A a, b \in new : f[a] = f[b] => a = b
      /\ \A i \in ncols + 1 .. ncols + k : \E a \in new : f[a] = i
  BY DEF Bijection, Injection, Surjection, IsInjective
<1>2. /\ \A a \in rows : a \notin new /\ g[a] = pos[a] /\ pos[a] \in 1..ncols
      /\ \A a \in new : g[a] = f[a]
  OBVIOUS
<1>3. ASSUME NEW a \in rows \cup new PROVE g[a] \in 1..ncols + k
  BY <1>1, <1>2
<1>4. ASSUME NEW a \in rows \cup new, NEW b \in rows \cup new, g[a] = g[b]
      PROVE  a = b
  BY <1>1, <1>2, <1>4
<1>5. ASSUME NEW i \in 1..ncols + k
      PROVE  \E a \in rows \cup new : g[a] = i
  <2>1. CASE i <= ncols
    <3>1. PICK a \in rows : pos[a] = i
      BY <2>1
    <3>2. QED
      BY <1>2, <3>1
  <2>2. CASE i > ncols
    <3>1. PICK a \in new : f[a] = i
      BY <1>1, <2>2
    <3>2. QED
      BY <1>2, <3>1
  <2>3. i <= ncols \/ i > ncols
    OBVIOUS
  <2>4. QED
    BY Zenon, <2>1, <2>2, <2>3
<1>6. QED
  BY <1>3, <1>4, <1>5
-----------------------------------------------------------------------------
Counted == ncols = Cardinality(rows)

ColumnsInv == Counted /\ Numbered

\* A workflow has no columns without data.
Agreed == rows = table /\ (rows # {} => data)

\* What a request does to the number of columns.
LEMMA Counting ==
    ASSUME TypeOK, Counted
    PROVE  /\ ncols \in Nat
           /\ \A n \in Names \ rows : Cardinality(rows \cup {n}) = ncols + 1
           /\ \A n \in rows : Cardinality(rows \ {n}) = ncols - 1
           /\ \A n \in rows, m \in Names :
                  m \notin rows \ {n} =>
                      Cardinality((rows \ {n}) \cup {m}) = ncols
           /\ \A new \in SUBSET (Names \ rows) :
                  /\ Cardinality(new) \in Nat
                  /\ Cardinality(rows \cup new) = ncols + Cardinality(new)
<1> USE DEF Counted
<1>1. IsFiniteSet(rows) /\ ncols \in Nat
  BY FinitelyMany DEF TypeOK
<1>2. ASSUME NEW n \in Names \ rows
      PROVE  Cardinality(rows \cup {n}) = ncols + 1
  BY <1>1, FS_AddElement
<1>3. ASSUME NEW n \in rows
      PROVE  IsFiniteSet(rows \ {n}) /\ Cardinality(rows \ {n}) = ncols - 1
  BY <1>1, FS_RemoveElement
<1>4. ASSUME NEW n \in rows, NEW m \in Names, m \notin rows \ {n}
      PROVE  Cardinality((rows \ {n}) \cup {m}) = ncols
  <2>1. Cardinality((rows \ {n}) \cup {m}) = Cardinality(rows \ {n}) + 1
    BY <1>3, <1>4, FS_AddElement
  <2>2. Cardinality(rows \ {n}) = ncols - 1
    BY <1>3
  <2>3. QED
    BY <1>1, <2>1, <2>2
<1>5. ASSUME NEW new \in SUBSET (Names \ rows)
      PROVE  /\ Cardinality(new) \in Nat
             /\ Cardinality(rows \cup new) = ncols + Cardinality(new)
  <2>1. IsFiniteSet(new) /\ Cardinality(new) \in Nat
    BY FinitelyMany
  <2>2. rows \cap new = {}
    OBVIOUS
  <2>3. Cardinality(rows \cap new) = 0
    BY <2>2, FS_EmptySet
  <2>4. Cardinality(rows \cup new)
            = Cardinality(rows) + Cardinality(new) - Cardinality(rows \cap new)
    BY <1>1, <2>1, FS_Union
  <2>5. QED
    BY <1>1, <2>1, <2>3, <2>4
<1>6. QED
  BY <1>1, <1>2, <1>3, <1>4, <1>5

\* Emptying the workflow.
LEMMA NothingColumns ==
    ASSUME Nothing PROVE ColumnsInv'
<1>1. Cardinality({}) = 0
  BY FS_EmptySet
<1>2. rows' = {} /\ ncols' = 0
  BY DEF Nothing
<1>3. QED
  BY <1>1, <1>2 DEF ColumnsInv, Counted, Numbered, NumberedBy

\* No request that counts its columns makes counter and positions disagree,
\* even if the database refuses to add them.
LEMMA ColumnsStep ==
    ASSUME AllCounted, TypeOK, ColumnsInv, [Next]_vars PROVE ColumnsInv'
<1> USE Counting DEF ColumnsInv, Counted, Numbered
<1>1. CASE UNCHANGED vars
  BY <1>1 DEF vars, columnVars, NumberedBy
<1>2. ASSUME NEW n \in Names, NEW q \in Positions, ColumnAdd(n, q)
      PROVE  ColumnsInv'
  <2>1. n \in Names \ rows /\ q \in 1..ncols + 1 /\ InsertRow(n, q)
    BY <1>2 DEF ColumnAdd, InsertAllowed
  <2>2. NumberedBy(rows', pos', ncols + 1)
    BY <2>1, InsertNumbers
  <2>3. rows' = rows \cup {n} /\ ncols' = ncols + 1
    BY <1>2 DEF ColumnAdd, InsertRow
  <2>4. QED
    BY <2>1, <2>2, <2>3
<1>3. ASSUME NEW n \in Names, NEW q \in Positions,
             FormulaColumnAdd(n, q) \/ RandomColumnAdd(n, q)
      PROVE  ColumnsInv'
  BY <1>3 DEF FormulaColumnAdd, RandomColumnAdd, AllCounted
<1>4. ASSUME NEW n \in Names, NEW m \in Names, ColumnClone(n, m)
      PROVE  ColumnsInv'
  <2>1. /\ m \notin rows /\ rows' = rows \cup {m} /\ ncols' = ncols + 1
        /\ pos' = [pos EXCEPT ![m] = ncols + 1]
    BY <1>4 DEF ColumnClone, CloneCount
  <2>2. NumberedBy(rows', pos', ncols')
    BY <2>1 DEF NumberedBy, TypeOK
  <2>3. QED
    BY <2>1, <2>2
<1>5. ASSUME NEW n \in Names, NEW m \in Names, NEW q \in Positions,
             NEW k \in BOOLEAN, ColumnEdit(n, m, q, k)
      PROVE  ColumnsInv'
  <2>1. /\ n \in rows /\ m \notin rows \ {n} /\ q \in 1..ncols
        /\ rows' = (rows \ {n}) \cup {m} /\ ncols' = ncols
    BY <1>5 DEF ColumnEdit, Renamed
  <2>2. pos' = [Reposition(pos[n], q) EXCEPT ![n] = 0, ![m] = q]
    BY <1>5 DEF ColumnEdit
  <2>3. /\ \A b \in rows \ {n} : pos'[b] = Reposition(pos[n], q)[b]
        /\ pos'[m] = q
    BY <2>1, <2>2 DEF Reposition, TypeOK
  <2>4. NumberedBy(rows', pos', ncols)
    BY <2>1, <2>3, MoveNumbers
  <2>5. QED
    BY <2>1, <2>4
<1>6. ASSUME NEW n \in Names, Move(n) PROVE ColumnsInv'
  <2>1. n \in rows /\ rows' = rows /\ ncols' = ncols
    BY <1>6 DEF Move
  <2>2. PICK q \in {pos[m] : m \in rows} \cup {1, ncols} :
            Target(n, q) /\ pos' = [Reposition(pos[n], q) EXCEPT ![n] = q]
    BY <1>6 DEF Move
  <2>3. q \in 1..ncols
    BY <2>1, <2>2 DEF Target, NumberedBy
  <2>4. /\ \A b \in rows \ {n} : pos'[b] = Reposition(pos[n], q)[b]
        /\ pos'[n] = q
    BY <2>1, <2>2 DEF Reposition, TypeOK
  <2>5. NumberedBy((rows \ {n}) \cup {n}, pos', ncols)
    BY <2>1, <2>3, <2>4, MoveNumbers
  <2>6. (rows \ {n}) \cup {n} = rows
    BY <2>1
  <2>7. QED
    BY <2>1, <2>5, <2>6
<1>7. ASSUME NEW n \in Names, ColumnDelete(n) PROVE ColumnsInv'
  <2>1. CASE TakesWorkflow(n)
    BY <1>7, <2>1, NothingColumns DEF ColumnDelete, Vanish
  <2>2. CASE ~ TakesWorkflow(n)
    <3>1. /\ n \in rows /\ rows' = rows \ {n} /\ ncols' = ncols - 1
          /\ pos' = [Reposition(pos[n], ncols + 1) EXCEPT ![n] = 0]
      BY <1>7, <2>2 DEF ColumnDelete
    <3>2. \A b \in rows \ {n} : pos'[b] = Reposition(pos[n], ncols + 1)[b]
      BY <3>1 DEF Reposition, TypeOK
    <3>3. ncols > 0 /\ NumberedBy(rows \ {n}, pos', ncols - 1)
      BY <3>1, <3>2, DeleteNumbers
    <3>4. QED
      BY <3>1, <3>3
  <2>3. QED
    BY <2>1, <2>2
<1>8. ASSUME NEW S \in SUBSET Names, NEW K \in SUBSET Names,
             Upload(S, K) \/ Override(S, K) \/ Merge(S, K)
      PROVE  ColumnsInv'
  <2> DEFINE new == S \ rows
  <2>1. rows' = rows \cup new /\ ncols' = ncols + Cardinality(new)
    BY <1>8 DEF Upload, Override, Merge, Store
  <2>2. PICK f \in Bijection(new, ncols + 1 .. ncols + Cardinality(new)) :
            pos' = [n \in Names |-> IF n \in new THEN f[n] ELSE pos[n]]
    BY <1>8 DEF Upload, Override, Merge, Store
  <2>3. Cardinality(new) \in Nat
    OBVIOUS
  <2>4. NumberedBy(rows \cup new, pos', ncols + Cardinality(new))
    BY <2>2, <2>3, AppendNumbers
  <2>5. QED
    BY <2>1, <2>3, <2>4
<1>9. ASSUME NEW S \in SUBSET Names, NEW K \in SUBSET Names,
             MergeWithoutKey(S, K)
      PROVE  ColumnsInv'
  BY <1>9 DEF MergeWithoutKey
<1>10. ASSUME NEW n \in Names, AssignLuserColumn(n) PROVE ColumnsInv'
  BY <1>10 DEF AssignLuserColumn, columnVars
<1>11. CASE Detail
  BY <1>11 DEF Detail, NumberedBy
<1>12. CASE Flush
  BY <1>12, NothingColumns DEF Flush, Vanish
<1>13. ASSUME NEW c \in Conditions,
              ConditionDelete(c) \/ \E V \in SUBSET Names : ConditionSave(c, V)
       PROVE  ColumnsInv'
  BY <1>13 DEF ConditionSave, ConditionDelete, columnVars
<1>14. ASSUME NEW v \in Views,
              ViewDelete(v) \/ \E C, F \in SUBSET Names : ViewSave(v, C, F)
       PROVE  ColumnsInv'
  BY <1>14 DEF ViewSave, ViewDelete, columnVars
<1> HIDE Counting DEF ColumnsInv, Counted, Numbered
<1>15. QED
  BY <1>1, <1>2, <1>3, <1>4, <1>5, <1>6, <1>7, <1>8, <1>9, <1>10, <1>11,
     <1>12, <1>13, <1>14 DEF Next

\* A new workflow has no columns.
LEMMA InitColumns == Init => ColumnsInv
<1>1. Cardinality({}) = 0
  BY FS_EmptySet
<1>2. QED
  BY <1>1 DEF Init, ColumnsInv, Counted, Numbered, NumberedBy

\* If no column escapes the count, the invariant holds.
LEMMA ColumnsSafety == Spec => [](TypeOK /\ (AllCounted => ColumnsInv))
<1>1. Init => TypeOK /\ ColumnsInv
  BY InitType, InitColumns
<1>2. TypeOK /\ (AllCounted => ColumnsInv) /\ [Next]_vars
          => TypeOK' /\ (AllCounted' => ColumnsInv')
  <2>1. [Next]_vars => (AllCounted' => AllCounted)
    BY HabitsStay DEF AllCounted
  <2>2. QED
    BY <2>1, TypeStep, ColumnsStep
<1>3. QED
  BY <1>1, <1>2, PTL DEF Spec

\* Requests that store what they add keep rows and table equal: data comes with
\* all columns of the workflow, and a computed column can be stored because no
\* other row lacks its column.
LEMMA AgreedStep ==
    ASSUME AllStored, TypeOK, Agreed, [Next]_vars PROVE Agreed'
<1> USE DEF Agreed
<1>1. CASE UNCHANGED vars
  BY <1>1 DEF vars, columnVars
<1>2. ASSUME NEW n \in Names, NEW q \in Positions,
             \/ ColumnAdd(n, q) \/ FormulaColumnAdd(n, q)
             \/ RandomColumnAdd(n, q)
      PROVE  Agreed'
  BY <1>2 DEF ColumnAdd, FormulaColumnAdd, RandomColumnAdd, InsertAllowed,
              InsertRow, AlterTable, StoreWith, AllStored
<1>3. ASSUME NEW n \in Names, NEW m \in Names, ColumnClone(n, m)
      PROVE  Agreed'
  BY <1>3 DEF ColumnClone, AlterTable, AllStored
<1>4. ASSUME NEW n \in Names, NEW m \in Names, NEW q \in Positions,
             NEW k \in BOOLEAN, ColumnEdit(n, m, q, k)
      PROVE  Agreed'
  BY <1>4 DEF ColumnEdit
<1>5. ASSUME NEW n \in Names, ColumnDelete(n) PROVE Agreed'
  BY <1>5 DEF ColumnDelete, DropColumn, Vanish, Nothing
<1>6. ASSUME NEW n \in Names, Move(n) \/ AssignLuserColumn(n) PROVE Agreed'
  BY <1>6 DEF Move, AssignLuserColumn, columnVars
<1>7. ASSUME NEW S \in SUBSET Names, NEW K \in SUBSET Names,
             \/ Upload(S, K) \/ Override(S, K) \/ Merge(S, K)
             \/ MergeWithoutKey(S, K)
      PROVE  Agreed'
  BY <1>7 DEF Upload, Override, Store, Merge, MergeWithoutKey
<1>8. CASE Detail \/ Flush
  BY <1>8 DEF Detail, Flush, Vanish, Nothing
<1>9. ASSUME NEW c \in Conditions,
             ConditionDelete(c) \/ \E V \in SUBSET Names : ConditionSave(c, V)
      PROVE  Agreed'
  BY <1>9 DEF ConditionSave, ConditionDelete, columnVars
<1>10. ASSUME NEW v \in Views,
              ViewDelete(v) \/ \E C, F \in SUBSET Names : ViewSave(v, C, F)
       PROVE  Agreed'
  BY <1>10 DEF ViewSave, ViewDelete, columnVars
<1> HIDE DEF Agreed
<1>11. QED
  BY <1>1, <1>2, <1>3, <1>4, <1>5, <1>6, <1>7, <1>8, <1>9, <1>10 DEF Next

\* If everything is stored, rows and table have the same columns.
LEMMA AgreedSafety == Spec => [](TypeOK /\ (AllStored => Agreed))
<1>1. Init => TypeOK /\ Agreed
  BY InitType DEF Init, Agreed
<1>2. TypeOK /\ (AllStored => Agreed) /\ [Next]_vars
          => TypeOK' /\ (AllStored' => Agreed')
  <2>1. [Next]_vars => (AllStored' => AllStored)
    BY HabitsStay DEF AllStored
  <2>2. QED
    BY <2>1, TypeStep, AgreedStep
<1>3. QED
  BY <1>1, <1>2, PTL DEF Spec

\* Rows, table and counter agree after any sequence of requests, if columns are
\* neither computed nor random and the database does not refuse to add one.
THEOREM ConsistencySafety == Spec => []Consistent
<1>1. (AllCounted => ColumnsInv) /\ (AllStored => Agreed) => Consistent
  BY DEF ColumnsInv, Agreed, Counted, Consistent
<1>2. QED
  BY <1>1, ColumnsSafety, AgreedSafety, PTL

\* Positions are 1 to the number of columns, without gaps or repetitions, also
\* when columns with a row are missing in the table.
THEOREM NumberingSafety == Spec => []ProperlyNumbered
<1>1. ASSUME AllCounted => ColumnsInv PROVE ProperlyNumbered
  <2> SUFFICES ASSUME AllCounted, ColumnsInv
               PROVE  /\ \A a, b \in rows : pos[a] = pos[b] => a = b
                      /\ {pos[n] : n \in rows} = 1..Cardinality(rows)
    BY <1>1 DEF ProperlyNumbered
  <2>1. NumberedBy(rows, pos, Cardinality(rows))
    BY DEF ColumnsInv, Counted, Numbered
  <2>2. {pos[n] : n \in rows} = 1..Cardinality(rows)
    BY <2>1 DEF NumberedBy
  <2>3. QED
    BY <2>1, <2>2 DEF NumberedBy
<1>2. QED
  BY <1>1, ColumnsSafety, PTL
-----------------------------------------------------------------------------
\* What refers to columns, apart from what TypeOK says of views.
References ==
    /\ \A c \in Conditions : cond[c] \subseteq rows
    /\ \A v \in views : vcols[v] # {}

\* Renaming and deleting a column reach every condition and every view.
LEMMA ReferencesStep ==
    ASSUME TypeOK, References, [Next]_vars PROVE References'
<1> USE DEF References, TypeOK
<1>1. CASE UNCHANGED vars
  BY <1>1 DEF vars, columnVars, refVars
<1>2. ASSUME NEW n \in Names, NEW q \in Positions,
             \/ ColumnAdd(n, q) \/ FormulaColumnAdd(n, q)
             \/ RandomColumnAdd(n, q)
      PROVE  References'
  <2>1. rows \subseteq rows' /\ UNCHANGED <<cond, views, vcols>>
    BY <1>2 DEF ColumnAdd, FormulaColumnAdd, RandomColumnAdd, InsertRow, refVars
  <2>2. QED
    BY <2>1
<1>3. ASSUME NEW n \in Names, NEW m \in Names, ColumnClone(n, m)
      PROVE  References'
  BY <1>3 DEF ColumnClone, refVars
<1>4. ASSUME NEW n \in Names, NEW m \in Names, NEW q \in Positions,
             NEW k \in BOOLEAN, ColumnEdit(n, m, q, k)
      PROVE  References'
  <2>1. /\ rows' = Renamed(rows, n, m) /\ views' = views
        /\ cond' = [c \in Conditions |-> Renamed(cond[c], n, m)]
        /\ vcols' = [v \in Views |-> Renamed(vcols[v], n, m)]
    BY <1>4 DEF ColumnEdit, RenameInConditions
  <2>2. ASSUME NEW c \in Conditions PROVE cond'[c] \subseteq rows'
    BY <2>1, RenamedSubset
  <2>3. ASSUME NEW v \in views' PROVE vcols'[v] # {}
    BY <2>1, RenamedSubset
  <2>4. QED
    BY <2>2, <2>3
<1>5. ASSUME NEW n \in Names, ColumnDelete(n) PROVE References'
  <2>1. CASE TakesWorkflow(n)
    BY <1>5, <2>1 DEF ColumnDelete, Vanish, Nothing
  <2>2. CASE ~ TakesWorkflow(n)
    <3>1. rows' = rows \ {n} /\ DropReferences(n)
      BY <1>5, <2>2 DEF ColumnDelete
    <3>2. ASSUME NEW c \in Conditions PROVE cond'[c] \subseteq rows'
      BY <3>1 DEF DropReferences
    <3>3. ASSUME NEW v \in views' PROVE vcols'[v] # {}
      BY <3>1 DEF DropReferences
    <3>4. QED
      BY <3>2, <3>3
  <2>3. QED
    BY <2>1, <2>2
<1>6. ASSUME NEW n \in Names, Move(n) \/ AssignLuserColumn(n)
      PROVE  References'
  BY <1>6 DEF Move, AssignLuserColumn, columnVars, refVars
<1>7. ASSUME NEW S \in SUBSET Names, NEW K \in SUBSET Names,
             \/ Upload(S, K) \/ Override(S, K) \/ Merge(S, K)
             \/ MergeWithoutKey(S, K)
      PROVE  References'
  <2>1. rows \subseteq rows' /\ UNCHANGED <<cond, views, vcols>>
    BY <1>7 DEF Upload, Override, Store, Merge, MergeWithoutKey, refVars
  <2>2. QED
    BY <2>1
<1>8. CASE Detail \/ Flush
  BY <1>8 DEF Detail, Flush, Vanish, Nothing, refVars
<1>9. ASSUME NEW c \in Conditions,
             ConditionDelete(c) \/ \E V \in SUBSET Names : ConditionSave(c, V)
      PROVE  References'
  BY <1>9 DEF ConditionSave, ConditionDelete, columnVars
<1>10. ASSUME NEW v \in Views,
              ViewDelete(v) \/ \E C, F \in SUBSET Names : ViewSave(v, C, F)
       PROVE  References'
  BY <1>10 DEF ViewSave, ViewDelete, columnVars
<1> HIDE DEF References, TypeOK
<1>11. QED
  BY <1>1, <1>2, <1>3, <1>4, <1>5, <1>6, <1>7, <1>8, <1>9, <1>10 DEF Next

\* Conditions and views refer to columns of the workflow, and no view is empty,
\* whatever columns are computed and whatever the database refuses.
THEOREM ReferenceSafety == Spec => []NothingDangles
<1>1. Init => TypeOK /\ References
  BY InitType DEF Init, References
<1>2. TypeOK /\ References /\ [Next]_vars => TypeOK' /\ References'
  BY TypeStep, ReferencesStep
<1>3. TypeOK /\ References => NothingDangles
  BY DEF TypeOK, References, NothingDangles
<1>4. QED
  BY <1>1, <1>2, <1>3, PTL DEF Spec

\* A formula of a view that names columns of the workflow goes on doing so, or one
\* of the columns that it names is deleted.
LEMMA FormulasStep ==
    ASSUME TypeOK, [Next]_vars, NEW v \in views \cap views',
           vform[v] \subseteq rows, ~ (vform'[v] \subseteq rows')
    PROVE  \E n \in vform[v] : rows' = rows \ {n}
<1> USE DEF TypeOK
<1>v. v \in Views
  OBVIOUS
<1>k. ~ (rows \subseteq rows' /\ vform'[v] = vform[v])
  OBVIOUS
<1>1. CASE UNCHANGED vars
  BY <1>k, <1>1 DEF vars, columnVars, refVars
<1>2. ASSUME NEW n \in Names, NEW q \in Positions,
             \/ ColumnAdd(n, q) \/ FormulaColumnAdd(n, q)
             \/ RandomColumnAdd(n, q)
      PROVE  FALSE
  BY <1>k, <1>2
     DEF ColumnAdd, FormulaColumnAdd, RandomColumnAdd, InsertRow, refVars
<1>3. ASSUME NEW n \in Names, NEW m \in Names, ColumnClone(n, m) PROVE FALSE
  BY <1>k, <1>3 DEF ColumnClone, refVars
<1>4. ASSUME NEW n \in Names, NEW m \in Names, NEW q \in Positions,
             NEW k \in BOOLEAN, ColumnEdit(n, m, q, k)
      PROVE  FALSE
  <2>1. rows' = Renamed(rows, n, m) /\ vform'[v] = Renamed(vform[v], n, m)
    BY <1>4, <1>v DEF ColumnEdit, RenameInViews
  <2>2. QED
    BY <2>1, RenamedSubset
<1>5. ASSUME NEW n \in Names, ColumnDelete(n)
      PROVE  \E c \in vform[v] : rows' = rows \ {c}
  <2>1. CASE TakesWorkflow(n)
    BY <1>5, <2>1 DEF ColumnDelete, Vanish, Nothing
  <2>2. CASE ~ TakesWorkflow(n)
    <3>1. rows' = rows \ {n} /\ vform'[v] = vform[v]
      BY <1>5, <1>v, <2>2 DEF ColumnDelete, DropReferences
    <3>2. n \in vform[v]
      BY <3>1
    <3>3. QED
      BY <3>1, <3>2
  <2>3. QED
    BY <2>1, <2>2
<1>6. ASSUME NEW n \in Names, Move(n) \/ AssignLuserColumn(n) PROVE FALSE
  BY <1>k, <1>6 DEF Move, AssignLuserColumn, columnVars, refVars
<1>7. ASSUME NEW S \in SUBSET Names, NEW K \in SUBSET Names,
             \/ Upload(S, K) \/ Override(S, K) \/ Merge(S, K)
             \/ MergeWithoutKey(S, K)
      PROVE  FALSE
  BY <1>k, <1>7 DEF Upload, Override, Store, Merge, MergeWithoutKey, refVars
<1>8. CASE Detail
  BY <1>k, <1>8 DEF Detail, refVars
<1>9. CASE Flush
  BY <1>9 DEF Flush, Vanish, Nothing
<1>10. ASSUME NEW c \in Conditions,
              ConditionDelete(c) \/ \E V \in SUBSET Names : ConditionSave(c, V)
       PROVE  FALSE
  BY <1>k, <1>10 DEF ConditionSave, ConditionDelete, columnVars
<1>11. ASSUME NEW w \in Views,
              ViewDelete(w) \/ \E C, F \in SUBSET Names : ViewSave(w, C, F)
       PROVE  FALSE
  <2>1. rows' = rows /\ v \in views'
    BY <1>11 DEF ViewSave, ViewDelete, columnVars
  <2>2. CASE w # v
    BY <1>11, <1>k, <2>1, <2>2 DEF ViewSave, ViewDelete
  <2>3. CASE w = v
    BY <1>11, <1>v, <2>1, <2>3 DEF ViewSave, ViewDelete
  <2>4. QED
    BY <2>2, <2>3
<1> HIDE DEF TypeOK
<1>12. QED
  BY <1>1, <1>2, <1>3, <1>4, <1>5, <1>6, <1>7, <1>8, <1>9, <1>10, <1>11 DEF Next

\* Of all requests, only the deletion of a column leaves the formula of a view
\* behind; renaming columns and replacing the data do not.
THEOREM ViewFormulaSafety == Spec => OnlyDeletionsDangle
<1>1. TypeOK /\ [Next]_vars =>
          [\A v \in views \cap views' :
              vform[v] \subseteq rows /\ ~ (vform'[v] \subseteq rows') =>
                  \E n \in vform[v] : rows' = rows \ {n}]_vars
  BY FormulasStep
<1>2. QED
  BY <1>1, TableTypes, PTL DEF Spec, OnlyDeletionsDangle
=============================================================================
