-------------------------- MODULE ConditionsProofs --------------------------
(***************************************************************************)
(* Proofs about Conditions for any rows, conditions and learners.  Where    *)
(* learners overlap with other requests, nothing but the types is proved,   *)
(* and the properties promise nothing.                                      *)
(***************************************************************************)
EXTENDS Conditions, FiniteSetTheorems, TLAPS

Overlaps == "overlap" \in habits

\* The null value is no set and no number.
LEMMA NullIsNoSet ==
    /\ \A S \in SUBSET Values : S # None
    /\ \A S \in SUBSET Conds : S # None
    /\ \A n \in Numbers : n # None
BY ConditionsAssumption

LEMMA RowsCounted ==
    ASSUME NEW T \in SUBSET Rows
    PROVE  IsFiniteSet(T) /\ Cardinality(T) \in Numbers
<1>1. /\ IsFiniteSet(T) /\ Cardinality(T) <= Cardinality(Rows)
      /\ Cardinality(Rows) \in Nat
  BY ConditionsAssumption, FS_Subset, FS_CardinalityType
<1>2. Cardinality(T) \in Nat
  BY <1>1, FS_CardinalityType
<1>3. QED
  BY <1>1, <1>2 DEF Numbers

\* A number of selected rows is a number of rows.
LEMMA SelectedFinite ==
    ASSUME NEW d, NEW S
    PROVE  /\ IsFiniteSet(Selected(d, S)) /\ Selected(d, S) \subseteq Rows
           /\ Cardinality(Selected(d, S)) \in Numbers
BY RowsCounted DEF Selected

LEMMA CountType ==
    ASSUME NEW d, NEW S PROVE Cardinality(Selected(d, S)) \in Counts
BY SelectedFinite DEF Counts

LEMMA FreshType ==
    ASSUME NEW d, NEW f, NEW old \in [Conds -> Counts]
    PROVE  Fresh(d, f, old) \in [Conds -> Counts]
BY CountType DEF Fresh

LEMMA RecountType ==
    ASSUME NEW d, TypeOK, RecountAll(d, formula)
    PROVE  count' \in [Conds -> Counts] /\ allFalse' \in Lengths
BY FreshType DEF RecountAll, Reset, TypeOK, Lengths

\* A request of the instructor changes data and what is cached.
LEMMA InstructorStep ==
    ASSUME NEW h, Instructor(h)
    PROVE  UNCHANGED <<habits, kind, touched, todo, readFormula, readCount, readFalse>>
BY DEF Instructor, learnerVars, readVars

LEMMA NumberAllFalseType == NumberAllFalse \in Lengths
BY RowsCounted DEF NumberAllFalse, RowsAllFalse, Present, Lengths

\* The values that change a formula are formulas.
LEMMA EditTypes == ASSUME TypeOK, Edit PROVE TypeOK'
<1> USE ConditionsAssumption DEF TypeOK, Formulas, Lengths, Counts
<1>1. ASSUME NEW S \in SUBSET Values, FilterSave(S) PROVE TypeOK'
  <2>1. count' \in [Conds -> Counts]
    BY <1>1, FreshType DEF FilterSave
  <2>2. QED
    BY <1>1, <2>1, InstructorStep DEF FilterSave
<1>2. ASSUME NEW c \in Conds, NEW S \in SUBSET Values, ConditionSave(c, S)
      PROVE  TypeOK'
  <2>1. Cardinality(Selected(data, S)) \in Counts
    BY CountType
  <2>2. QED
    BY <1>2, <2>1, InstructorStep DEF ConditionSave
<1>3. ASSUME NEW c \in Conds, NEW S \in SUBSET Values, NEW n \in Numbers,
             ForeignClone(c, S, n)
      PROVE  TypeOK'
  BY <1>3, InstructorStep DEF ForeignClone
<1>4. CASE FilterDelete
  <2>1. [count EXCEPT ![Filter] = -1] \in [Conds -> Counts]
    OBVIOUS
  <2>2. count' \in [Conds -> Counts]
    BY <1>4, <2>1, FreshType DEF FilterDelete
  <2>3. QED
    BY <1>4, <2>2, InstructorStep DEF FilterDelete
<1>5. ASSUME NEW c \in Conds, ConditionDelete(c) PROVE TypeOK'
  BY <1>5, InstructorStep DEF ConditionDelete
<1>6. ASSUME NEW c \in Conds, NEW new \in Conds, ConditionClone(c, new) PROVE TypeOK'
  BY <1>6, InstructorStep DEF ConditionClone
<1>7. ASSUME NEW D \in SUBSET Conds, ColumnDelete(D) PROVE TypeOK'
  BY <1>7, InstructorStep DEF ColumnDelete
<1>8. QED
  BY <1>1, <1>2, <1>3, <1>4, <1>5, <1>6, <1>7 DEF Edit

LEMMA DataTypes == ASSUME TypeOK, ChangeData \/ EditPage PROVE TypeOK'
<1> USE ConditionsAssumption
<1>1. ASSUME NEW r \in Rows, NEW v \in Values, RowCreate(r, v) PROVE TypeOK'
  <2>1. data' \in Tables
    BY <1>1 DEF RowCreate, TypeOK, Tables
  <2>2. QED
    BY <1>1, <2>1, InstructorStep DEF RowCreate, TypeOK, cacheVars
<1>2. ASSUME NEW r \in Rows, NEW v \in Values, RowUpdate(r, v) PROVE TypeOK'
  <2>1. data' \in Tables
    BY <1>2 DEF RowUpdate, TypeOK, Tables
  <2>2. QED
    BY <1>2, <2>1, InstructorStep DEF RowUpdate, TypeOK, cacheVars
<1>3. ASSUME NEW r \in Rows, RowDelete(r) PROVE TypeOK'
  <2>1. data' \in Tables
    BY <1>3 DEF RowDelete, TypeOK, Tables
  <2>2. count' \in [Conds -> Counts] /\ allFalse' \in Lengths
    BY <1>3, RecountType DEF RowDelete
  <2>3. QED
    BY <1>3, <2>1, <2>2, InstructorStep DEF RowDelete, TypeOK
<1>4. ASSUME NEW d \in Tables, Replace(d) PROVE TypeOK'
  <2>1. count' \in [Conds -> Counts] /\ allFalse' \in Lengths
    BY <1>4, RecountType DEF Replace
  <2>2. QED
    BY <1>4, <2>1, InstructorStep DEF Replace, TypeOK
<1>5. ASSUME NEW d \in Tables, ReplaceUncounted(d) PROVE TypeOK'
  BY <1>5, InstructorStep DEF ReplaceUncounted, TypeOK, cacheVars
<1>6. CASE EditPage
  BY <1>6, InstructorStep, NumberAllFalseType DEF EditPage, TypeOK
<1>7. QED
  BY <1>1, <1>2, <1>3, <1>4, <1>5, <1>6 DEF ChangeData

LEMMA LearnTypes == ASSUME TypeOK, NEW l \in Learners, Learn(l) PROVE TypeOK'
<1> USE ConditionsAssumption
<1>1. ASSUME NEW k \in {"answer", "click"}, NEW d \in Tables,
             NEW U \in SUBSET Conds, WriteCell(l, k, d, U)
      PROVE  TypeOK'
  BY <1>1 DEF WriteCell, TypeOK, cacheVars, readVars
<1>2. CASE ReadConditions(l)
  BY <1>2 DEF ReadConditions, TypeOK, cacheVars, Existing
<1>3. ASSUME NEW c \in Conds, CountOne(l, c) PROVE TypeOK'
  <2>1. Cardinality(Selected(data, Conjunction(readFormula[l], c))) \in Counts
    BY CountType
  <2>2. count' \in [Conds -> Counts] /\ allFalse' \in Lengths
    BY <1>3, <2>1 DEF CountOne, Reset, TypeOK, Lengths
  <2>3. formula' \in [Conds -> Formulas]
    BY <1>3 DEF CountOne, TypeOK
  <2>4. todo' \in [Learners -> (SUBSET Conds) \cup {None}]
    BY <1>3, NullIsNoSet DEF CountOne, TypeOK
  <2>5. QED
    BY <1>3, <2>2, <2>3, <2>4 DEF CountOne, TypeOK, readVars
<1>4. CASE Finish(l)
  BY <1>4 DEF Finish, TypeOK, NoFormulas, NoCounts, Formulas, Lengths, Counts
<1>5. QED
  BY <1>1, <1>2, <1>3, <1>4 DEF Learn

LEMMA TypesStep == ASSUME TypeOK, [Next]_vars PROVE TypeOK'
<1>1. CASE UNCHANGED vars
  BY <1>1 DEF vars, cacheVars, learnerVars, readVars, TypeOK
<1>2. QED
  BY <1>1, EditTypes, DataTypes, LearnTypes DEF Next

LEMMA TypesInit == Init => TypeOK
<1> SUFFICES ASSUME Init PROVE TypeOK
  OBVIOUS
<1> USE ConditionsAssumption DEF Init
<1>1. QED
  BY DEF TypeOK, NoFormulas, NoCounts, Formulas, Lengths, Counts

\* Counts, formulas and what learners remember stay in their types, whatever
\* overlaps.
THEOREM ConditionTypes == Spec => []TypeOK
BY TypesInit, TypesStep, PTL DEF Spec
-----------------------------------------------------------------------------
(* Formulas.                                                                 *)

\* One request at a time, also of learners.
Serial ==
    /\ "overlap" \notin habits
    /\ \A l, m \in Learners : l # m => kind[l] = "idle" \/ kind[m] = "idle"
    /\ "answers" \in habits \/ \A l \in Learners : kind[l] # "answer"
    /\ "clicks" \in habits \/ \A l \in Learners : kind[l] # "click"

\* What a learner has read and not yet counted is what is there.
Remembers ==
    \A l \in Learners :
        /\ kind[l] = "idle" => todo[l] = None
        /\ todo[l] # None =>
               /\ readFormula[l] = formula
               /\ todo[l] \subseteq Existing(formula)
               /\ \A c \in todo[l] : readCount[l][c] = count[c]

FInv == TypeOK /\ Serial /\ Remembers

\* The instructor is alone.
LEMMA InstructorAlone ==
    ASSUME FInv, NEW h, Instructor(h), TypeOK'
    PROVE  Quiet /\ Quiet' /\ FInv' /\ \A l \in Learners : todo'[l] = None
<1>1. UNCHANGED <<habits, kind, touched, todo, readFormula, readCount, readFalse>>
  BY InstructorStep
<1>2. Quiet
  BY DEF Instructor, Undisturbed, FInv, Serial, Quiet
<1>3. QED
  BY <1>1, <1>2 DEF Quiet, FInv, Serial, Remembers

LEMMA EditOrDataIsInstructor ==
    ASSUME Edit \/ ChangeData \/ EditPage PROVE \E h : Instructor(h)
BY DEF Edit, ChangeData, EditPage, FilterSave, ConditionSave, FilterDelete,
       ConditionDelete, ConditionClone, ForeignClone, RowCreate, RowUpdate,
       RowDelete, Replace, ReplaceUncounted, ColumnDelete

\* A learner that writes a cell starts when nobody is at work.
LEMMA WriteCellAlone ==
    ASSUME FInv, NEW l \in Learners, NEW k, NEW d, NEW U, WriteCell(l, k, d, U)
    PROVE  Quiet
BY DEF WriteCell, Undisturbed, FInv, Serial, Quiet

LEMMA CountOneKeeps ==
    ASSUME FInv, NEW l \in Learners, NEW c \in Conds, CountOne(l, c)
    PROVE  UNCHANGED formula /\ c \in Existing(formula)
<1>1. readFormula[l] = formula /\ c \in Existing(formula)
  BY DEF CountOne, FInv, Remembers
<1>2. formula' = [formula EXCEPT ![c] = formula[c]]
  BY <1>1 DEF CountOne
<1>3. QED
  BY <1>1, <1>2 DEF FInv, TypeOK

\* A learner leaves the formulas as they are, and the others alone.
LEMMA LearnKeeps ==
    ASSUME FInv, NEW l \in Learners, Learn(l), TypeOK'
    PROVE  FInv' /\ UNCHANGED formula
<1> USE DEF FInv, TypeOK
<1>1. ASSUME NEW k \in {"answer", "click"}, NEW d, NEW U, WriteCell(l, k, d, U)
      PROVE  FInv' /\ UNCHANGED formula
  <2>1. Quiet
    BY <1>1, WriteCellAlone
  <2>2. QED
    BY <1>1, <2>1 DEF WriteCell, cacheVars, readVars, Serial, Remembers, Quiet
<1>2. CASE ReadConditions(l)
  BY <1>2 DEF ReadConditions, cacheVars, Serial, Remembers, Existing
<1>3. ASSUME NEW c \in Conds, CountOne(l, c) PROVE FInv' /\ UNCHANGED formula
  <2>1. UNCHANGED formula
    BY <1>3, CountOneKeeps
  <2>2. UNCHANGED <<habits, kind, readFormula, readCount>> /\ Serial'
    BY <1>3 DEF CountOne, readVars, Serial
  <2>3. /\ \A b \in Conds \ {c} : count'[b] = count[b]
        /\ todo'[l] = todo[l] \ {c} /\ todo[l] # None
        /\ \A m \in Learners \ {l} : todo'[m] = todo[m]
    BY <1>3 DEF CountOne
  <2>4. kind[l] # "idle" /\ \A m \in Learners \ {l} : todo[m] = None
    BY <2>3 DEF Serial, Remembers
  <2>5. todo'[l] \subseteq Conds
    BY <2>3
  <2>6. Remembers'
    BY <2>1, <2>2, <2>3, <2>4, <2>5 DEF Remembers, Existing
  <2>7. QED
    BY <2>1, <2>2, <2>6
<1>4. CASE Finish(l)
  BY <1>4 DEF Finish, Serial, Remembers
<1>5. QED
  BY <1>1, <1>2, <1>3, <1>4 DEF Learn

LEMMA FormulasStep == ASSUME FInv, [Next]_vars PROVE FInv'
<1>t. TypeOK'
  BY TypesStep DEF FInv
<1>1. CASE UNCHANGED vars
  BY <1>t, <1>1 DEF vars, cacheVars, learnerVars, readVars, FInv, Serial, Remembers
<1>2. CASE Edit \/ ChangeData \/ EditPage
  BY <1>t, <1>2, EditOrDataIsInstructor, InstructorAlone
<1>3. QED
  BY <1>t, <1>1, <1>2, LearnKeeps DEF Next

LEMMA FormulasInit == Init => Overlaps \/ FInv
BY TypesInit DEF FInv, Init, Overlaps, Serial, Remembers

LEMMA HabitsStay == [Next]_vars => habits' = habits
<1> SUFFICES ASSUME [Next]_vars PROVE habits' = habits
  OBVIOUS
<1>1. CASE UNCHANGED vars
  BY <1>1 DEF vars
<1>2. CASE Edit \/ ChangeData \/ EditPage
  BY <1>2, EditOrDataIsInstructor DEF Instructor
<1>3. ASSUME NEW l \in Learners, Learn(l) PROVE habits' = habits
  BY <1>3 DEF Learn, WriteCell, ReadConditions, CountOne, Finish
<1>4. QED
  BY <1>1, <1>2, <1>3 DEF Next

-----------------------------------------------------------------------------
(* Counts.                                                                   *)

\* The count is one that is promised to be current.
Shown(c) == c = Filter \/ formula[Filter] = None \/ "clicks" \notin habits

CountOK(c) == Shown(c) => count[c] \in {Alone(c), WithFilter(c)}

Tracked == habits \subseteq {"bulk", "clicks", "answers", "duplicates"}

\* What a learner has still to count.
Pending(l) == IF todo[l] = None THEN touched[l] ELSE todo[l]

\* What a learner has counted, or left out, is right for the data of now.
Counted ==
    Tracked =>
        /\ Quiet => \A c \in Existing(formula) : CountOK(c)
        /\ \A l \in Learners : kind[l] # "idle" =>
              \A c \in Existing(formula) \ Pending(l) : CountOK(c)

CInv == FInv /\ Counted

\* Counting all conditions again is right.
LEMMA FreshCounts ==
    ASSUME NEW old, count' = Fresh(data', formula', old),
           NEW c \in Existing(formula')
    PROVE  CountOK(c)'
BY DEF Fresh, Existing, CountOK, WithFilter

LEMMA EditCounts ==
    ASSUME CInv, TypeOK', Tracked, Edit
    PROVE  \A c \in Existing(formula') : CountOK(c)'
<1> USE DEF Existing
<1>0. Quiet => \A c \in Existing(formula) : CountOK(c)
  BY DEF CInv, Counted
<1>q. Quiet
  BY InstructorAlone, EditOrDataIsInstructor DEF CInv
<1> USE DEF CInv, FInv, TypeOK
<1>1. ASSUME NEW S \in SUBSET Values, FilterSave(S)
      PROVE  \A c \in Existing(formula') : CountOK(c)'
  <2>1. count' = Fresh(data', formula', count)
    BY <1>1 DEF FilterSave
  <2>2. QED
    BY <2>1, FreshCounts
<1>2. ASSUME NEW c \in Conds, NEW S \in SUBSET Values, ConditionSave(c, S)
      PROVE  \A b \in Existing(formula') : CountOK(b)'
  <2>1. /\ c # Filter /\ formula'[c] = S /\ data' = data
        /\ count'[c] = Cardinality(Selected(data, S))
        /\ \A b \in Conds \ {c} : formula'[b] = formula[b] /\ count'[b] = count[b]
    BY <1>2 DEF ConditionSave
  <2>2. CountOK(c)'
    BY <2>1 DEF CountOK, Alone
  <2>h. habits' = habits
    BY <1>2 DEF Instructor, ConditionSave
  <2>3. ASSUME NEW b \in Existing(formula'), b # c PROVE CountOK(b)'
    <3>1. b \in Existing(formula) /\ CountOK(b)
      BY <1>0, <1>q, <2>1, <2>3
    <3>2. Filter \in Conds
      BY ConditionsAssumption
    <3>3. Alone(b)' = Alone(b) /\ WithFilter(b)' = WithFilter(b)
      BY <2>1, <2>3, <3>2 DEF Alone, WithFilter, Conjunction
    <3>4. count'[b] = count[b] /\ Shown(b)' = Shown(b)
      BY <2>1, <2>3, <2>h, <3>2 DEF Shown
    <3>5. QED
      BY <3>1, <3>3, <3>4 DEF CountOK
  <2>4. QED
    BY <2>2, <2>3
<1>3. CASE FilterDelete
  <2>1. count' = Fresh(data', formula', [count EXCEPT ![Filter] = -1])
    BY <1>3 DEF FilterDelete
  <2>2. QED
    BY <2>1, FreshCounts
<1>4. ASSUME NEW c \in Conds, ConditionDelete(c)
      PROVE  \A b \in Existing(formula') : CountOK(b)'
  <2>1. /\ c # Filter /\ formula'[c] = None /\ data' = data
        /\ \A b \in Conds \ {c} : formula'[b] = formula[b] /\ count'[b] = count[b]
    BY <1>4 DEF ConditionDelete
  <2>h. habits' = habits
    BY <1>4 DEF Instructor, ConditionDelete
  <2>2. ASSUME NEW b \in Existing(formula') PROVE CountOK(b)'
    <3>1. b # c /\ b \in Existing(formula) /\ CountOK(b)
      BY <1>0, <1>q, <2>1
    <3>2. Filter \in Conds
      BY ConditionsAssumption
    <3>3. Alone(b)' = Alone(b) /\ WithFilter(b)' = WithFilter(b)
      BY <2>1, <3>1, <3>2 DEF Alone, WithFilter, Conjunction
    <3>4. count'[b] = count[b] /\ Shown(b)' = Shown(b)
      BY <2>1, <2>h, <3>1, <3>2 DEF Shown
    <3>5. QED
      BY <3>1, <3>3, <3>4 DEF CountOK
  <2>3. QED
    BY <2>2
<1>5. ASSUME NEW c \in Conds, NEW new \in Conds, ConditionClone(c, new)
      PROVE  \A b \in Existing(formula') : CountOK(b)'
  <2>1. /\ Filter # c /\ Filter # new /\ formula[c] # None /\ data' = data
        /\ formula'[new] = formula[c] /\ count'[new] = count[c]
        /\ \A b \in Conds \ {new} : formula'[b] = formula[b] /\ count'[b] = count[b]
    BY <1>5 DEF ConditionClone
  <2>2. Filter \in Conds
    BY ConditionsAssumption
  <2>h. habits' = habits
    BY <1>5 DEF Instructor, ConditionClone
  <2>3. CountOK(new)'
    <3>1. CountOK(c) /\ Shown(new)' = Shown(c)
      BY <1>0, <1>q, <2>1, <2>2, <2>h DEF Shown
    <3>2. Alone(new)' = Alone(c) /\ WithFilter(new)' = WithFilter(c)
      BY <2>1, <2>2 DEF Alone, WithFilter, Conjunction
    <3>3. QED
      BY <2>1, <3>1, <3>2 DEF CountOK
  <2>4. ASSUME NEW b \in Existing(formula'), b # new PROVE CountOK(b)'
    <3>1. b \in Existing(formula) /\ CountOK(b)
      BY <1>0, <1>q, <2>1, <2>4
    <3>2. Alone(b)' = Alone(b) /\ WithFilter(b)' = WithFilter(b)
      BY <2>1, <2>2, <2>4 DEF Alone, WithFilter, Conjunction
    <3>3. count'[b] = count[b] /\ Shown(b)' = Shown(b)
      BY <2>1, <2>2, <2>4, <2>h DEF Shown
    <3>4. QED
      BY <3>1, <3>2, <3>3 DEF CountOK
  <2>5. QED
    BY <2>3, <2>4
<1>6. ASSUME NEW c, NEW S, NEW n, ForeignClone(c, S, n) PROVE FALSE
  BY <1>6 DEF ForeignClone, Instructor, Tracked
<1>7. ASSUME NEW D, ColumnDelete(D) PROVE FALSE
  BY <1>7 DEF ColumnDelete, Instructor, Tracked
<1>8. QED
  BY <1>1, <1>2, <1>3, <1>4, <1>5, <1>6, <1>7 DEF Edit

LEMMA DataCounts ==
    ASSUME CInv, TypeOK', Tracked, ChangeData \/ EditPage
    PROVE  \A c \in Existing(formula') : CountOK(c)'
<1>0. Quiet => \A c \in Existing(formula) : CountOK(c)
  BY DEF CInv, Counted
<1>q. Quiet
  BY InstructorAlone, EditOrDataIsInstructor DEF CInv
<1>1. ASSUME NEW r, NEW v, RowCreate(r, v) \/ RowUpdate(r, v) PROVE FALSE
  BY <1>1 DEF RowCreate, RowUpdate, Instructor, Tracked
<1>2. ASSUME NEW d, ReplaceUncounted(d) PROVE FALSE
  BY <1>2 DEF ReplaceUncounted, Instructor, Tracked
<1>3. ASSUME NEW d, data' = d, RecountAll(d, formula), UNCHANGED formula
      PROVE  \A c \in Existing(formula') : CountOK(c)'
  <2>1. count' = Fresh(data', formula', count)
    BY <1>3 DEF RecountAll
  <2>2. QED
    BY <2>1, FreshCounts
<1>4. CASE EditPage
  BY <1>0, <1>q, <1>4
     DEF EditPage, Existing, CountOK, Shown, Alone, WithFilter, Conjunction,
         Instructor
<1>5. ASSUME NEW i, RowDelete(i)
      PROVE  \A c \in Existing(formula') : CountOK(c)'
  BY <1>3, <1>5 DEF RowDelete
<1>6. ASSUME NEW d, Replace(d)
      PROVE  \A c \in Existing(formula') : CountOK(c)'
  BY <1>3, <1>6 DEF Replace
<1>7. QED
  BY <1>1, <1>2, <1>4, <1>5, <1>6 DEF ChangeData

LEMMA LearnCounts ==
    ASSUME CInv, TypeOK', NEW l \in Learners, Learn(l) PROVE Counted'
<1> SUFFICES ASSUME Tracked' PROVE Counted'
  BY DEF Counted
<1>k. FInv' /\ UNCHANGED <<formula, habits>> /\ Tracked
  BY LearnKeeps DEF CInv, Learn, WriteCell, ReadConditions, CountOne, Finish, Tracked
<1>s. \A c : Shown(c)' = Shown(c)
  BY <1>k DEF Shown
<1> USE <1>k DEF CInv, FInv, TypeOK
<1>1. ASSUME NEW k \in {"answer", "click"}, NEW d, NEW U, WriteCell(l, k, d, U)
      PROVE  Counted'
  <2>1. Quiet
    BY <1>1, WriteCellAlone
  <2>2. /\ kind'[l] # "idle" /\ todo'[l] = None /\ touched'[l] = U
        /\ \A m \in Learners \ {l} : kind'[m] = "idle"
    BY <1>1, <2>1 DEF WriteCell, Remembers, Quiet
  <2>3. ASSUME NEW c \in Existing(formula) \ U PROVE CountOK(c)'
    <3>1. /\ data' = d /\ count' = count
          /\ Selected(d, formula[c]) = Selected(data, formula[c])
          /\ k = "click" /\ "clicks" \in habits
      BY <1>1, <2>3 DEF WriteCell, cacheVars, Existing
    <3>2. CountOK(c)
      BY <2>1, <2>3 DEF Counted
    <3>3. SUFFICES ASSUME Shown(c) PROVE count[c] \in {Alone(c)', WithFilter(c)'}
      BY <1>s, <3>1 DEF CountOK
    <3>4. Conjunction(formula, c) = formula[c]
      BY <3>1, <3>3 DEF Shown, Conjunction
    <3>5. count[c] = Alone(c)
      BY <3>2, <3>3, <3>4 DEF CountOK, Alone, WithFilter
    <3>6. QED
      BY <3>1, <3>5 DEF Alone
  <2>4. QED
    BY <2>2, <2>3 DEF Counted, Quiet, Pending, Existing
<1>2. CASE ReadConditions(l)
  <2>1. /\ kind[l] # "idle" /\ todo[l] = None
        /\ todo'[l] = Existing(formula) \cap touched[l]
        /\ UNCHANGED <<data, count, kind, touched>>
    BY <1>2 DEF ReadConditions, cacheVars
  <2>2. \A m \in Learners \ {l} : kind'[m] = "idle"
    BY <2>1 DEF Serial
  <2>3. Existing(formula) \ Pending(l)' = Existing(formula) \ Pending(l)
    <3>1. todo'[l] \in SUBSET Conds
      BY <2>1 DEF Existing
    <3>2. todo'[l] # None
      BY <3>1, NullIsNoSet
    <3>3. QED
      BY <2>1, <3>2 DEF Pending
  <2>4. \A c \in Existing(formula) \ Pending(l) : CountOK(c)'
    BY <1>s, <2>1 DEF Counted, CountOK, Alone, WithFilter, Conjunction
  <2>5. QED
    BY <2>1, <2>2, <2>3, <2>4 DEF Counted, Quiet, Existing
<1>3. ASSUME NEW c \in Conds, CountOne(l, c) PROVE Counted'
  <2>1. /\ c \in Existing(formula) /\ readFormula[l] = formula /\ data' = data
        /\ count'[c] = Cardinality(Selected(data, Conjunction(formula, c)))
        /\ \A b \in Conds \ {c} : count'[b] = count[b]
        /\ todo'[l] = todo[l] \ {c} /\ todo[l] # None /\ kind' = kind
    BY <1>3, CountOneKeeps DEF CountOne, Remembers
  <2>2. kind[l] # "idle" /\ \A m \in Learners \ {l} : kind'[m] = "idle"
    BY <2>1 DEF Serial, Remembers
  <2>3. ~ Quiet'
    BY <2>1, <2>2 DEF Quiet
  <2>p. Pending(l) = todo[l] /\ Pending(l)' = todo[l] \ {c}
    <3>1. todo'[l] \in SUBSET Conds
      BY <2>1
    <3>2. QED
      BY <2>1, <3>1, NullIsNoSet DEF Pending
  <2>4. ASSUME NEW b \in Existing(formula) \ Pending(l)' PROVE CountOK(b)'
    <3>1. Alone(b)' = Alone(b) /\ WithFilter(b)' = WithFilter(b)
      BY <2>1 DEF Alone, WithFilter, Conjunction
    <3>2. CASE b = c
      BY <2>1, <3>1, <3>2 DEF CountOK, WithFilter
    <3>3. CASE b # c
      <4>1. b \in Existing(formula) \ Pending(l) /\ count'[b] = count[b]
        BY <2>1, <2>p, <3>3 DEF Existing
      <4>2. CountOK(b)
        BY <2>2, <4>1 DEF Counted
      <4>3. QED
        BY <1>s, <3>1, <4>1, <4>2 DEF CountOK
    <3>4. QED
      BY <3>2, <3>3
  <2>5. QED
    BY <2>2, <2>3, <2>4 DEF Counted, Existing
<1>4. CASE Finish(l)
  <2>1. /\ todo[l] = {} /\ todo[l] # None /\ data' = data /\ count' = count
        /\ kind'[l] = "idle" /\ \A m \in Learners \ {l} : kind'[m] = kind[m]
    BY <1>4, NullIsNoSet DEF Finish
  <2>2. kind[l] # "idle" /\ Pending(l) = {}
    BY <2>1 DEF Remembers, Pending
  <2>3. \A c \in Existing(formula) : CountOK(c)
    BY <2>2 DEF Counted
  <2>4. \A c \in Existing(formula') : CountOK(c)'
    BY <1>s, <2>1, <2>3 DEF CountOK, Alone, WithFilter, Conjunction, Existing
  <2>5. \A m \in Learners : kind'[m] = "idle"
    BY <2>1, <2>2 DEF Serial
  <2>6. QED
    BY <2>4, <2>5 DEF Counted
<1>5. QED
  BY <1>1, <1>2, <1>3, <1>4 DEF Learn

LEMMA CountsStep == ASSUME CInv, [Next]_vars PROVE CInv'
<1>f. FInv' /\ TypeOK'
  BY FormulasStep DEF CInv, FInv
<1>1. CASE UNCHANGED vars
  BY <1>f, <1>1 DEF vars, cacheVars, learnerVars, CInv, Counted, Tracked, Quiet,
                    CountOK, Shown, Pending, Alone, WithFilter, Conjunction, Existing
<1>2. CASE Edit \/ ChangeData \/ EditPage
  <2>1. Tracked' => Tracked
    BY <1>2, EditOrDataIsInstructor DEF Instructor, Tracked
  <2>2. \A l \in Learners : kind'[l] = "idle"
    BY <1>2, <1>f, EditOrDataIsInstructor, InstructorAlone DEF CInv, Quiet
  <2>3. QED
    BY <1>2, <1>f, <2>1, <2>2, EditCounts, DataCounts DEF CInv, Counted
<1>3. QED
  BY <1>f, <1>1, <1>2, LearnCounts DEF Next, CInv

\* The counts that are shown are those of the data and formulas of now, with
\* or without the filter, for any table and any sequence of requests.
THEOREM CountSafety == Spec => []CountsCurrent
<1>1. Init => Overlaps \/ CInv
  BY FormulasInit DEF CInv, Init, Counted, Existing, NoFormulas
<1>2. (Overlaps \/ CInv) /\ [Next]_vars => (Overlaps \/ CInv)'
  BY CountsStep, HabitsStay DEF Overlaps
<1>3. Overlaps \/ CInv => CountsCurrent
  BY DEF Overlaps, CInv, Counted, CountsCurrent, Tracked, CountOK, Shown
<1>4. QED
  BY <1>1, <1>2, <1>3, PTL DEF Spec
-----------------------------------------------------------------------------
(* The rows in which all conditions are false.                               *)

\* If one row changes and no count, the same rows are selected.
LEMMA SameCountSameRows ==
    ASSUME NEW d, NEW e, OneCell(d, e), NEW S,
           Cardinality(Selected(d, S)) = Cardinality(Selected(e, S))
    PROVE  Selected(d, S) = Selected(e, S)
<1> DEFINE A == Selected(d, S)
           B == Selected(e, S)
<1>1. CASE \A r \in Rows : d[r] = e[r]
  BY <1>1 DEF Selected
<1>2. ASSUME NEW i \in Rows, d[i] # e[i] PROVE A = B
  <2>1. \A r \in Rows \ {i} : d[r] = e[r]
    BY <1>2 DEF OneCell
  <2>2. /\ IsFiniteSet(A) /\ IsFiniteSet(B)
        /\ Cardinality(A) \in Nat /\ Cardinality(B) \in Nat
    BY SelectedFinite, FS_CardinalityType
  <2>3. A \ {i} = B \ {i}
    BY <2>1 DEF Selected
  <2>4. /\ Cardinality(A \ {i}) = IF i \in A THEN Cardinality(A) - 1 ELSE Cardinality(A)
        /\ Cardinality(B \ {i}) = IF i \in B THEN Cardinality(B) - 1 ELSE Cardinality(B)
    BY <2>2, FS_RemoveElement
  <2>5. Cardinality(A) = Cardinality(B)
    OBVIOUS
  <2> HIDE DEF A, B
  <2>6. i \in A <=> i \in B
    <3>1. ASSUME NEW x \in Nat, NEW p \in BOOLEAN, NEW q \in BOOLEAN,
                 (IF p THEN x - 1 ELSE x) = (IF q THEN x - 1 ELSE x)
          PROVE  p <=> q
      BY <3>1
    <3>2. Cardinality(A \ {i}) = Cardinality(B \ {i})
      BY <2>3
    <3>3. (IF i \in A THEN Cardinality(A) - 1 ELSE Cardinality(A))
              = (IF i \in B THEN Cardinality(A) - 1 ELSE Cardinality(A))
      BY <2>4, <2>5, <3>2
    <3>4. QED
      BY <2>2, <3>1, <3>3
  <2>7. QED
    BY <2>3, <2>6
<1>3. QED
  BY <1>1, <1>2 DEF A, B

\* The rows of d in which all conditions are false, without a filter.
AllFalseOf(d) ==
    {r \in Present(d) : \A c \in Existing(formula) : r \notin Selected(d, formula[c])}

LEMMA RowsAllFalseIs ==
    ASSUME formula[Filter] = None PROVE RowsAllFalse = AllFalseOf(data)
BY DEF RowsAllFalse, AllFalseOf, Selected, Existing, Present

\* While a tracked click is counted: d is the table of before, a condition that
\* is not yet counted has its count for d, and if the list is still there, it
\* is that of d, and all other conditions select the same rows in d.
ClickCounts(l) ==
    \E d \in Tables :
        /\ OneCell(d, data) /\ Present(d) = Present(data)
        /\ \A c \in Existing(formula) \cap Pending(l) :
              count[c] = Cardinality(Selected(d, formula[c]))
        /\ allFalse # None =>
              /\ allFalse = Cardinality(AllFalseOf(d))
              /\ \A c \in Existing(formula) \ Pending(l) :
                    Selected(d, formula[c]) = Selected(data, formula[c])

Watched == habits = {} \/ (habits \subseteq {"clicks"} /\ formula[Filter] = None)

ListTrue ==
    Watched => /\ Quiet => allFalse \in {None, NumberAllFalse}
               /\ \A l \in Learners : kind[l] # "idle" => ClickCounts(l)

AInv == CInv /\ ListTrue

\* With a list that is forgotten or that of now nothing can be wrong.
LEMMA EditList ==
    ASSUME AInv, CInv', Edit \/ ChangeData \/ EditPage PROVE AInv'
<1> SUFFICES ASSUME Watched'
             PROVE  allFalse' = None \/ allFalse' = NumberAllFalse'
  <2>1. Quiet'
    BY EditOrDataIsInstructor, InstructorAlone DEF AInv, CInv, FInv
  <2>2. QED
    BY <2>1 DEF AInv, ListTrue, Quiet
<1>h. habits \subseteq {"clicks"} /\ habits' = habits
  BY EditOrDataIsInstructor DEF Watched, Instructor
<1>0. Watched => allFalse = None \/ allFalse = NumberAllFalse
  BY EditOrDataIsInstructor, InstructorAlone DEF AInv, CInv, FInv, ListTrue
<1>t. formula \in [Conds -> Formulas] /\ Filter \in Conds
  BY ConditionsAssumption DEF AInv, CInv, FInv, TypeOK
<1>1. ASSUME allFalse' = None PROVE allFalse' = None \/ allFalse' = NumberAllFalse'
  BY <1>1
<1>2. ASSUME NEW c \in Conds, NEW new \in Conds, ConditionClone(c, new)
      PROVE  allFalse' = None \/ allFalse' = NumberAllFalse'
  <2>1. /\ Filter # c /\ Filter # new /\ formula[c] # None
        /\ formula' = [formula EXCEPT ![new] = formula[c]]
        /\ UNCHANGED <<data, allFalse>>
    BY <1>2 DEF ConditionClone
  <2>2. formula'[Filter] = formula[Filter]
    BY <1>t, <2>1
  <2>3. Watched
    BY <1>h, <2>2 DEF Watched
  <2>4. NumberAllFalse' = NumberAllFalse
    BY <1>2, <1>t, <2>1, <2>2
       DEF NumberAllFalse, RowsAllFalse, Present, Existing, ConditionClone
  <2>5. QED
    BY <1>0, <2>1, <2>3, <2>4
<1>3. CASE EditPage
  BY <1>3 DEF EditPage, NumberAllFalse, RowsAllFalse, Present, Existing
<1>4. ASSUME \/ \E c, S, n : ForeignClone(c, S, n)
             \/ \E D : ColumnDelete(D)
             \/ \E r, v : RowCreate(r, v) \/ RowUpdate(r, v)
             \/ \E r : RowDelete(r)
             \/ \E d : Replace(d) \/ ReplaceUncounted(d)
      PROVE  FALSE
  BY <1>4, <1>h DEF ForeignClone, ColumnDelete, RowCreate, RowUpdate, RowDelete,
                    Replace, ReplaceUncounted, Instructor
<1>5. QED
  BY <1>1, <1>2, <1>3, <1>4
     DEF Edit, ChangeData, FilterSave, ConditionSave, FilterDelete, ConditionDelete

LEMMA LearnList ==
    ASSUME AInv, CInv', NEW l \in Learners, Learn(l) PROVE AInv'
<1> SUFFICES ASSUME Watched' PROVE ListTrue'
  BY DEF AInv, ListTrue
<1>k. UNCHANGED <<formula, habits>> /\ Watched
  BY LearnKeeps
     DEF AInv, CInv, FInv, Learn, WriteCell, ReadConditions, CountOne, Finish, Watched
<1>h. kind[l] # "idle" => formula[Filter] = None /\ kind[l] = "click"
  BY <1>k DEF Watched, AInv, CInv, FInv, Serial, TypeOK
<1> USE <1>k DEF AInv, CInv, FInv, TypeOK
<1>1. ASSUME NEW k \in {"answer", "click"}, NEW d \in Tables,
             NEW U \in SUBSET Conds, WriteCell(l, k, d, U)
      PROVE  ListTrue'
  <2>1. Quiet /\ formula[Filter] = None /\ "duplicates" \notin habits
    BY <1>1, WriteCellAlone DEF WriteCell, Watched
  <2>2. /\ data' = d /\ OneCell(data, d) /\ Present(d) = Present(data)
        /\ \A c \in Existing(formula) \ U :
              Selected(d, formula[c]) = Selected(data, formula[c])
        /\ UNCHANGED <<todo, count, allFalse>>
        /\ \A m \in Learners : m # l => kind'[m] = "idle"
        /\ kind'[l] # "idle" /\ touched'[l] = U
    BY <1>1, <2>1 DEF WriteCell, cacheVars, Quiet
  <2>3. Pending(l)' = U
    BY <2>1, <2>2 DEF Remembers, Quiet, Pending
  <2>4. ASSUME NEW c \in Existing(formula)
        PROVE  count[c] = Cardinality(Selected(data, formula[c]))
    <3>1. CountOK(c)
      BY <2>1 DEF Counted, Tracked, Watched
    <3>2. QED
      BY <2>1, <3>1 DEF CountOK, Shown, Alone, WithFilter, Conjunction
  <2>5. allFalse # None => allFalse = Cardinality(AllFalseOf(data))
    BY <2>1, RowsAllFalseIs DEF ListTrue, NumberAllFalse
  <2>6. ClickCounts(l)'
    <3>1. Existing(formula)' = Existing(formula)
      BY DEF Existing
    <3>2. data \in Tables
      OBVIOUS
    <3> HIDE DEF AInv, CInv, FInv, TypeOK
    <3>3. QED
      BY <2>2, <2>3, <2>4, <2>5, <3>1, <3>2 DEF ClickCounts, AllFalseOf
  <2>7. QED
    BY <2>2, <2>6 DEF ListTrue, Quiet
<1>2. CASE ReadConditions(l)
  <2>1. /\ kind[l] # "idle" /\ todo[l] = None
        /\ todo'[l] = Existing(formula) \cap touched[l]
        /\ UNCHANGED <<data, count, allFalse, kind>>
    BY <1>2 DEF ReadConditions, cacheVars
  <2>2. ClickCounts(l)
    BY <2>1 DEF ListTrue
  <2>3. Pending(l) = touched[l] /\ Pending(l)' = Existing(formula) \cap touched[l]
    <3>1. todo'[l] \in SUBSET Conds
      BY <2>1 DEF Existing
    <3>2. QED
      BY <2>1, <3>1, NullIsNoSet DEF Pending
  <2>4. ClickCounts(l)'
    BY <2>1, <2>2, <2>3 DEF ClickCounts, AllFalseOf, Existing
  <2>5. \A m \in Learners \ {l} : kind'[m] = "idle"
    BY <2>1 DEF Serial
  <2>6. QED
    BY <2>1, <2>4, <2>5 DEF ListTrue, Quiet
<1>3. ASSUME NEW c \in Conds, CountOne(l, c) PROVE ListTrue'
  <2>1. /\ c \in Existing(formula) /\ c \in todo[l] /\ todo[l] # None
        /\ readFormula[l] = formula /\ readCount[l][c] = count[c]
        /\ UNCHANGED <<data, kind>>
        /\ \A b \in Conds \ {c} : count'[b] = count[b]
        /\ todo'[l] = todo[l] \ {c}
    <3>1. c \in Existing(formula) /\ c \in todo[l] /\ todo[l] # None
      BY <1>3, CountOneKeeps DEF CountOne
    <3>2. readFormula[l] = formula /\ readCount[l][c] = count[c]
      BY <3>1 DEF Remembers
    <3>3. QED
      BY <1>3, <3>1, <3>2 DEF CountOne
  <2>2. kind[l] # "idle" /\ formula[Filter] = None
    BY <1>h, <2>1 DEF Remembers
  <2>p. Pending(l) = todo[l] /\ Pending(l)' = todo[l] \ {c}
    <3>1. todo'[l] \in SUBSET Conds
      BY <2>1
    <3>2. QED
      BY <2>1, <3>1, NullIsNoSet DEF Pending
  <2>3. PICK d \in Tables :
           /\ OneCell(d, data) /\ Present(d) = Present(data)
           /\ \A b \in Existing(formula) \cap Pending(l) :
                 count[b] = Cardinality(Selected(d, formula[b]))
           /\ allFalse # None =>
                 /\ allFalse = Cardinality(AllFalseOf(d))
                 /\ \A b \in Existing(formula) \ Pending(l) :
                       Selected(d, formula[b]) = Selected(data, formula[b])
    BY <2>2 DEF ListTrue, ClickCounts
  <2> DEFINE n == Cardinality(Selected(data, formula[c]))
  <2>4. Conjunction(readFormula[l], c) = formula[c]
    BY <2>1, <2>2 DEF Conjunction
  <2>5. allFalse' = IF n = count[c] THEN allFalse ELSE None
    BY <1>3, <2>1, <2>4 DEF CountOne, Reset
  <2>6. allFalse' # None =>
           /\ allFalse' = allFalse
           /\ Selected(d, formula[c]) = Selected(data, formula[c])
    BY <2>1, <2>p, <2>3, <2>5, SameCountSameRows
  <2>7. ClickCounts(l)'
    BY <2>1, <2>p, <2>3, <2>6 DEF ClickCounts, AllFalseOf, Existing
  <2>8. \A m \in Learners \ {l} : kind'[m] = "idle"
    BY <2>1, <2>2 DEF Serial
  <2>9. QED
    BY <2>1, <2>2, <2>7, <2>8 DEF ListTrue, Quiet
<1>4. CASE Finish(l)
  <2>1. /\ todo[l] = {} /\ todo[l] # None /\ kind'[l] = "idle"
        /\ UNCHANGED <<data, count>>
        /\ \A m \in Learners \ {l} : kind'[m] = kind[m]
    BY <1>4, NullIsNoSet DEF Finish
  <2>2. kind[l] = "click" /\ formula[Filter] = None
    BY <1>h, <2>1 DEF Remembers
  <2>3. allFalse' = allFalse
    BY <1>4, <2>2 DEF Finish
  <2>4. PICK d \in Tables :
           /\ Present(d) = Present(data)
           /\ allFalse # None =>
                 /\ allFalse = Cardinality(AllFalseOf(d))
                 /\ \A b \in Existing(formula) :
                       Selected(d, formula[b]) = Selected(data, formula[b])
    <3>1. Pending(l) = {} /\ ClickCounts(l)
      BY <2>1, <2>2 DEF ListTrue, Pending
    <3>2. QED
      BY <3>1 DEF ClickCounts
  <2>5. allFalse # None => allFalse = Cardinality(AllFalseOf(data))
    <3> HIDE DEF AInv, CInv, FInv, TypeOK
    <3>1. allFalse # None => AllFalseOf(d) = AllFalseOf(data)
      BY <2>4 DEF AllFalseOf
    <3>2. QED
      BY <2>4, <3>1
  <2>6. NumberAllFalse' = NumberAllFalse
    BY <2>1 DEF NumberAllFalse, RowsAllFalse, Present, Existing
  <2>7. allFalse' \in {None, NumberAllFalse'}
    BY <2>2, <2>3, <2>5, <2>6, RowsAllFalseIs DEF NumberAllFalse
  <2>8. \A m \in Learners : kind'[m] = "idle"
    BY <2>1, <2>2 DEF Serial
  <2>9. QED
    BY <2>7, <2>8 DEF ListTrue
<1>5. QED
  BY <1>1, <1>2, <1>3, <1>4 DEF Learn

LEMMA ListStep == ASSUME AInv, [Next]_vars PROVE AInv'
<1>c. CInv'
  BY CountsStep DEF AInv
<1>1. ASSUME UNCHANGED vars PROVE AInv'
  <2>1. UNCHANGED <<habits, data, formula, count, allFalse, kind, touched, todo>>
    BY <1>1 DEF vars, cacheVars, learnerVars
  <2>2. \A l \in Learners : ClickCounts(l)' = ClickCounts(l)
    BY <2>1 DEF ClickCounts, AllFalseOf, Pending, Existing
  <2>3. NumberAllFalse' = NumberAllFalse
    BY <2>1 DEF NumberAllFalse, RowsAllFalse, Present, Existing
  <2>4. QED
    BY <1>c, <2>1, <2>2, <2>3 DEF AInv, ListTrue, Watched, Quiet
<1>2. QED
  BY <1>c, <1>1, EditList, LearnList DEF Next

\* The number of rows reported is that of now, or to be computed: of an action
\* that nothing disturbs, and without a filter also when cells are clicked on.
THEOREM ListSafety == Spec => []AllFalseCurrent
<1>1. Init => Overlaps \/ AInv
  BY FormulasInit DEF AInv, CInv, Init, Counted, Existing, NoFormulas, ListTrue
<1>2. (Overlaps \/ AInv) /\ [Next]_vars => (Overlaps \/ AInv)'
  BY ListStep, HabitsStay DEF Overlaps
<1>3. Overlaps \/ AInv => AllFalseCurrent
  BY DEF Overlaps, AInv, ListTrue, AllFalseCurrent, Watched
<1>4. QED
  BY <1>1, <1>2, <1>3, PTL DEF Spec
=============================================================================
