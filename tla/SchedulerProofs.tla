-------------------------- MODULE SchedulerProofs --------------------------
(***************************************************************************)
(* Proofs about Scheduler for any number of items and versions, and one     *)
(* worker at a time: a tick that is never slower than the beat.  Two        *)
(* sections are about any number of workers, whose ticks may overlap; the   *)
(* last one is about the book of jobs that one worker implements.           *)
(***************************************************************************)
EXTENDS Scheduler, FiniteSetTheorems, TLAPS

OneWorker == \A v, w \in Workers : v = w

JobOf(w, i) == <<i, read[w][i]>>

\* A row has a version that a user saved; no row, no version.
RowsSaved ==
    \A i \in Items : /\ version[i] <= saved[i]
                     /\ status[i] # "none" => version[i] > 0

\* What was never saved was never executed, and what was not executed has no
\* outcome.
HistoryTrue ==
    \A i \in Items, v \in Versions :
        /\ runs[<<i, v>>] <= 1
        /\ v > saved[i] => runs[<<i, v>>] = 0
        /\ runs[<<i, v>>] = 0 => outcome[<<i, v>>] = "none"

\* The objects a worker has fetched and not executed yet.
Awaiting(w) ==
    batch[w] \cup (IF pc[w] = "claimed" THEN {current[w]} ELSE {})

\* They were saved by a user and never executed.
BatchFresh ==
    \A w \in Workers : \A i \in Items \cap Awaiting(w) :
        read[w][i] > 0 /\ read[w][i] <= saved[i] /\ runs[JobOf(w, i)] = 0

\* The item at hand has left the batch; its version is no longer pending, and
\* the answer of run_task is what happened.
AtHand ==
    \A w \in Workers : pc[w] \in {"claimed", "ran"} =>
        /\ current[w] \in Items /\ current[w] \notin batch[w]
        /\ read[w][current[w]] > 0 /\ read[w][current[w]] <= saved[current[w]]
        /\ status[current[w]] = "pending" =>
               version[current[w]] # read[w][current[w]]
        /\ pc[w] = "ran" => outcome[JobOf(w, current[w])] =
                                IF result[w] THEN "ok" ELSE "error"

PendingFresh ==
    \A i \in Items : status[i] = "pending" => runs[<<i, version[i]>>] = 0

IInv == /\ TypeOK /\ RowsSaved /\ HistoryTrue /\ BatchFresh /\ AtHand
        /\ PendingFresh /\ StatusIsTrue

\* No row and no execution at the start.
LEMMA InitIInv == Init => IInv
<1> SUFFICES ASSUME Init PROVE IInv
  OBVIOUS
<1> USE SchedulerAssumption DEF Init, Versions, Jobs
<1>1. TypeOK
  BY DEF TypeOK, Statuses
<1>2. RowsSaved /\ HistoryTrue /\ PendingFresh /\ StatusIsTrue
  BY DEF RowsSaved, HistoryTrue, PendingFresh, StatusIsTrue
<1>3. BatchFresh /\ AtHand
  BY DEF BatchFresh, AtHand, Awaiting
<1>4. QED
  BY <1>1, <1>2, <1>3 DEF IInv

WorkerTypes ==
    /\ pc \in [Workers -> {"idle", "next", "claimed", "ran"}]
    /\ batch \in [Workers -> SUBSET Items]
    /\ read \in [Workers -> [Items -> 0..MaxVersion]]
    /\ current \in [Workers -> Items \cup {"none"}]
    /\ result \in [Workers -> BOOLEAN]

\* A worker that ends its task is in its type.
LEMMA StopType ==
    ASSUME NEW w \in Workers, WorkerTypes, Stop(w) PROVE WorkerTypes'
<1> USE SchedulerAssumption DEF WorkerTypes, Stop
<1>1. /\ pc' \in [Workers -> {"idle", "next", "claimed", "ran"}]
      /\ batch' \in [Workers -> SUBSET Items]
      /\ result' \in [Workers -> BOOLEAN]
  OBVIOUS
<1>2. current' \in [Workers -> Items \cup {"none"}]
  OBVIOUS
<1>3. [i \in Items |-> 0] \in [Items -> 0..MaxVersion]
  OBVIOUS
<1>4. read' \in [Workers -> [Items -> 0..MaxVersion]]
  BY <1>3
<1>5. QED
  BY <1>1, <1>2, <1>4

\* Every variable stays in its type.
LEMMA TypeStep == TypeOK /\ [CrashNext]_vars => TypeOK'
<1> SUFFICES ASSUME TypeOK, [CrashNext]_vars PROVE TypeOK'
  OBVIOUS
<1> USE SchedulerAssumption DEF TypeOK, Statuses, Versions, Jobs
<1>1. CASE UNCHANGED vars
  BY <1>1 DEF vars, rowVars, workerVars, history
<1>2. ASSUME NEW i \in Items, Save(i) PROVE TypeOK'
  BY <1>2 DEF Save, WriteRow, workerVars, history
<1>3. ASSUME NEW i \in Items, ComeDue(i) PROVE TypeOK'
  BY <1>3 DEF ComeDue, workerVars, history
<1>4. ASSUME NEW i \in Items, Delete(i) PROVE TypeOK'
  BY <1>4 DEF Delete, WriteRow, workerVars, history
<1>5. ASSUME NEW a \in Actions, DeleteAction(a) PROVE TypeOK'
  BY <1>5 DEF DeleteAction, workerVars, history
<1>6. ASSUME NEW w \in Workers, Fetch(w) PROVE TypeOK'
  BY <1>6 DEF Fetch, rowVars, history
<1>7. ASSUME NEW w \in Workers, NEW i \in Items, Claim(w, i) PROVE TypeOK'
  BY <1>7 DEF Claim, WriteBack, WriteRow, history
<1>8. ASSUME NEW w \in Workers, Abort(w) \/ Crash(w) PROVE TypeOK'
  <2>1. WorkerTypes'
    BY <1>8, StopType DEF Abort, Crash, WorkerTypes
  <2>2. QED
    BY <1>8, <2>1 DEF Abort, Crash, rowVars, history, WorkerTypes
<1>9. ASSUME NEW w \in Workers, Run(w) PROVE TypeOK'
  <2> DEFINE j == <<current[w], read[w][current[w]]>>
  <2>1. PICK sent \in BOOLEAN :
           /\ runs' = [runs EXCEPT ![j] = @ + 1]
           /\ outcome' = [outcome EXCEPT ![j] =
                             IF Works(j, sent) THEN "ok" ELSE "error"]
           /\ result' = [result EXCEPT ![w] = Answer(Works(j, sent))]
    BY <1>9 DEF Run
  <2>2. runs' \in [Jobs -> Nat]
    <3>1. ASSUME NEW k \in Jobs PROVE runs[k] \in Nat /\ runs[k] + 1 \in Nat
      OBVIOUS
    <3> QED
      BY <2>1, <3>1
  <2>3. outcome' \in [Jobs -> {"none", "ok", "error"}]
    BY <2>1
  <2>4. result' \in [Workers -> BOOLEAN]
    BY <2>1 DEF Answer, Works
  <2>5. QED
    BY <1>9, <2>2, <2>3, <2>4 DEF Run, rowVars
<1>10. ASSUME NEW w \in Workers, Close(w) PROVE TypeOK'
  <2>1. WorkerTypes'
    <3>1. CASE batch[w] = {}
      BY <1>10, <3>1, StopType DEF Close, NextItem, WorkerTypes
    <3>2. CASE batch[w] # {}
      BY <1>10, <3>2 DEF Close, NextItem, WorkerTypes
    <3>3. QED
      BY <3>1, <3>2
  <2>2. /\ status' \in [Items -> Statuses]
        /\ version' \in [Items -> 0..MaxVersion]
        /\ due' \in [Items -> BOOLEAN]
    BY <1>10 DEF Close, WriteBack, WriteRow
  <2>3. QED
    BY <1>10, <2>1, <2>2 DEF Close, WorkerTypes, history
<1>11. QED
  BY <1>1, <1>2, <1>3, <1>4, <1>5, <1>6, <1>7, <1>8, <1>9, <1>10
     DEF CrashNext, Next, Advance

\* Every variable stays in its type, with any number of workers.
THEOREM SchedulerTypes == Spec => []TypeOK
<1>1. Init => TypeOK
  BY InitIInv DEF IInv
<1>2. QED
  BY <1>1, TypeStep, PTL DEF Spec

Rest == /\ RowsSaved /\ HistoryTrue /\ BatchFresh /\ AtHand
        /\ PendingFresh /\ StatusIsTrue

\* Claiming an item: its row gets the version that was fetched.
LEMMA ClaimStep ==
    ASSUME OneWorker, IInv, NEW w \in Workers, NEW i \in Items, Claim(w, i)
    PROVE  Rest'
<1>1. /\ \A k \in Items : status'[k] = IF k = i THEN "executing" ELSE status[k]
      /\ \A k \in Items : version'[k] = IF k = i THEN read[w][i] ELSE version[k]
  BY DEF Claim, WriteBack, WriteRow, IInv, TypeOK
<1>2. /\ pc[w] = "next" /\ pc'[w] = "claimed"
      /\ i \in batch[w] /\ batch'[w] = batch[w] \ {i} /\ current'[w] = i
      /\ saved' = saved /\ read' = read /\ runs' = runs /\ outcome' = outcome
  BY DEF Claim, history, IInv, TypeOK
<1>3. read[w][i] > 0 /\ read[w][i] <= saved[i] /\ runs[<<i, read[w][i]>>] = 0
  BY <1>2 DEF IInv, BatchFresh, Awaiting, JobOf
<1>4. RowsSaved'
  BY <1>1, <1>2, <1>3 DEF IInv, RowsSaved
<1>5. HistoryTrue'
  BY <1>2 DEF IInv, HistoryTrue
<1>6. PendingFresh'
  BY <1>1, <1>2 DEF IInv, PendingFresh
<1>7. StatusIsTrue'
  BY <1>1, <1>2 DEF IInv, StatusIsTrue
<1>8. BatchFresh'
  BY <1>2, <1>3 DEF IInv, BatchFresh, Awaiting, JobOf, OneWorker
<1>9. AtHand'
  BY <1>1, <1>2, <1>3 DEF IInv, AtHand, OneWorker
<1>10. QED
  BY <1>4, <1>5, <1>6, <1>7, <1>8, <1>9 DEF Rest

\* Executing it: the version is new to the history and no longer pending.
LEMMA RunStep ==
    ASSUME OneWorker, IInv, NEW w \in Workers, Run(w)
    PROVE  Rest'
<1> DEFINE i == current[w]
           v == read[w][i]
<1> USE SchedulerAssumption
<1>1. /\ pc[w] = "claimed" /\ pc'[w] = "ran"
      /\ status' = status /\ version' = version /\ saved' = saved
      /\ batch' = batch /\ read' = read /\ current' = current
  BY DEF Run, rowVars, IInv, TypeOK
<1>2. /\ i \in Items /\ i \notin batch[w] /\ v > 0 /\ v <= saved[i]
      /\ status[i] = "pending" => version[i] # v
  BY <1>1 DEF IInv, AtHand
<1>3. v \in Versions /\ <<i, v>> \in Jobs
  BY <1>2 DEF IInv, TypeOK, Versions, Jobs
<1>4. runs[<<i, v>>] = 0
  BY <1>1, <1>2 DEF IInv, BatchFresh, Awaiting, JobOf
<1>5. outcome[<<i, v>>] = "none"
  BY <1>2, <1>3, <1>4 DEF IInv, HistoryTrue
<1>6. PICK sent \in BOOLEAN :
         /\ runs' = [runs EXCEPT ![<<i, v>>] = @ + 1]
         /\ outcome' = [outcome EXCEPT ![<<i, v>>] =
                           IF Works(<<i, v>>, sent) THEN "ok" ELSE "error"]
         /\ result' = [result EXCEPT ![w] = Answer(Works(<<i, v>>, sent))]
  BY DEF Run
<1>7. /\ runs'[<<i, v>>] = 1
      /\ outcome'[<<i, v>>] = IF result'[w] THEN "ok" ELSE "error"
  BY <1>3, <1>4, <1>6 DEF IInv, TypeOK, Answer
<1>8. \A k \in Items, u \in Versions : ~ (k = i /\ u = v) =>
          /\ runs'[<<k, u>>] = runs[<<k, u>>]
          /\ outcome'[<<k, u>>] = outcome[<<k, u>>]
  <2> SUFFICES ASSUME NEW k \in Items, NEW u \in Versions, ~ (k = i /\ u = v)
               PROVE  /\ runs'[<<k, u>>] = runs[<<k, u>>]
                      /\ outcome'[<<k, u>>] = outcome[<<k, u>>]
    OBVIOUS
  <2>1. <<k, u>> # <<i, v>> /\ <<k, u>> \in Jobs
    BY DEF Jobs
  <2>2. QED
    BY <1>6, <2>1 DEF IInv, TypeOK
<1>9. RowsSaved'
  BY <1>1 DEF IInv, RowsSaved
<1>10. HistoryTrue'
  <2> SUFFICES ASSUME NEW k \in Items, NEW u \in Versions
               PROVE  /\ runs'[<<k, u>>] <= 1
                      /\ u > saved[k] => runs'[<<k, u>>] = 0
                      /\ runs'[<<k, u>>] = 0 => outcome'[<<k, u>>] = "none"
    BY <1>1 DEF HistoryTrue
  <2>1. CASE k = i /\ u = v
    BY <1>2, <1>7, <2>1 DEF IInv, TypeOK
  <2>2. CASE ~ (k = i /\ u = v)
    BY <1>8, <2>2 DEF IInv, HistoryTrue
  <2>3. QED
    BY <2>1, <2>2
<1>11. \A k \in Items : status[k] # "none" => version[k] \in Versions
  BY DEF IInv, TypeOK, RowsSaved, Versions
<1>12. PendingFresh'
  BY <1>1, <1>2, <1>8, <1>11 DEF IInv, PendingFresh
<1>13. StatusIsTrue'
  <2> SUFFICES ASSUME NEW k \in Items
               PROVE  LET o == outcome'[<<k, version[k]>>] IN
                      /\ status[k] = "pending" => o = "none"
                      /\ status[k] = "done" => o = "ok"
                      /\ status[k] = "done_error" => o = "error"
    BY <1>1 DEF StatusIsTrue
  <2>1. CASE k = i /\ version[k] = v
    BY <1>2, <1>5, <2>1 DEF IInv, StatusIsTrue
  <2>2. CASE ~ (k = i /\ version[k] = v)
    BY <1>8, <1>11, <2>2 DEF IInv, StatusIsTrue
  <2>3. QED
    BY <2>1, <2>2
<1>14. BatchFresh'
  <2> SUFFICES ASSUME NEW k \in Items \cap batch[w]
               PROVE  read[w][k] > 0 /\ read[w][k] <= saved[k]
                      /\ runs'[<<k, read[w][k]>>] = 0
    BY <1>1 DEF BatchFresh, Awaiting, JobOf, OneWorker
  <2>1. read[w][k] > 0 /\ read[w][k] <= saved[k] /\ runs[<<k, read[w][k]>>] = 0
    BY DEF IInv, BatchFresh, Awaiting, JobOf
  <2>2. read[w][k] \in Versions /\ k # i
    BY <1>2, <2>1 DEF IInv, TypeOK, Versions
  <2>3. QED
    BY <1>8, <2>1, <2>2
<1>15. AtHand'
  BY <1>1, <1>2, <1>7 DEF AtHand, OneWorker, JobOf
<1>16. QED
  BY <1>9, <1>10, <1>12, <1>13, <1>14, <1>15 DEF Rest

\* Writing the outcome back: the row has the version that was executed.
LEMMA CloseStep ==
    ASSUME OneWorker, IInv, NEW w \in Workers, Close(w)
    PROVE  Rest'
<1> DEFINE i == current[w]
           v == read[w][i]
<1>1. pc[w] = "ran" /\ saved' = saved /\ runs' = runs /\ outcome' = outcome
  BY DEF Close, history
<1>2. /\ i \in Items /\ i \notin batch[w] /\ v > 0 /\ v <= saved[i]
      /\ outcome[<<i, v>>] = IF result[w] THEN "ok" ELSE "error"
  BY <1>1 DEF IInv, AtHand, JobOf
<1>3. /\ \A k \in Items : status'[k] =
            IF k # i THEN status[k]
            ELSE IF result[w] THEN "done" ELSE "done_error"
      /\ \A k \in Items : version'[k] = IF k = i THEN v ELSE version[k]
  BY <1>2 DEF Close, WriteBack, WriteRow, IInv, TypeOK
<1>4. pc'[w] \in {"idle", "next"}
  BY DEF Close, NextItem, Stop, IInv, TypeOK
<1>5. batch'[w] = {} \/ (batch'[w] = batch[w] /\ read'[w] = read[w])
  BY DEF Close, NextItem, Stop, IInv, TypeOK
<1>6. RowsSaved'
  BY <1>1, <1>2, <1>3 DEF IInv, RowsSaved
<1>7. HistoryTrue'
  BY <1>1 DEF IInv, HistoryTrue
<1>8. PendingFresh'
  BY <1>1, <1>3 DEF IInv, PendingFresh
<1>9. StatusIsTrue'
  <2> SUFFICES ASSUME NEW k \in Items
               PROVE  LET o == outcome[<<k, version'[k]>>] IN
                      /\ status'[k] = "pending" => o = "none"
                      /\ status'[k] = "done" => o = "ok"
                      /\ status'[k] = "done_error" => o = "error"
    BY <1>1 DEF StatusIsTrue
  <2>1. CASE k = i
    BY <1>2, <1>3, <2>1
  <2>2. CASE k # i
    BY <1>3, <2>2 DEF IInv, StatusIsTrue
  <2>3. QED
    BY <2>1, <2>2
<1>10. BatchFresh'
  BY <1>1, <1>4, <1>5 DEF IInv, BatchFresh, Awaiting, JobOf, OneWorker
<1>11. AtHand'
  BY <1>4 DEF AtHand, OneWorker
<1>12. QED
  BY <1>6, <1>7, <1>8, <1>9, <1>10, <1>11 DEF Rest

\* One worker keeps the invariant, whatever users do and wherever it dies.
LEMMA SchedulerStep ==
    ASSUME OneWorker, IInv, [CrashNext]_vars PROVE IInv'
<1>t. TypeOK'
  BY TypeStep DEF IInv
<1> SUFFICES Rest'
  BY <1>t DEF IInv, Rest
<1> USE SchedulerAssumption, <1>t
    DEF OneWorker, IInv, TypeOK, Statuses, Versions, Jobs, JobOf, RowsSaved,
        HistoryTrue, BatchFresh, Awaiting, AtHand, PendingFresh, StatusIsTrue,
        Rest
<1>1. CASE UNCHANGED vars
  BY <1>1 DEF vars, rowVars, workerVars, history
<1>2. ASSUME NEW i \in Items, Save(i) PROVE Rest'
  BY <1>2 DEF Save, WriteRow, workerVars, history
<1>3. ASSUME NEW i \in Items, ComeDue(i) PROVE Rest'
  BY <1>3 DEF ComeDue, workerVars, history
<1>4. ASSUME NEW i \in Items, Delete(i) PROVE Rest'
  BY <1>4 DEF Delete, WriteRow, workerVars, history
<1>5. ASSUME NEW a \in Actions, DeleteAction(a) PROVE Rest'
  BY <1>5 DEF DeleteAction, workerVars, history
<1>6. ASSUME NEW w \in Workers, Fetch(w) PROVE Rest'
  BY <1>6 DEF Fetch, Pending, rowVars, history
<1>7. ASSUME NEW w \in Workers, NEW i \in Items, Claim(w, i) PROVE Rest'
  BY <1>7, ClaimStep
<1>8. ASSUME NEW w \in Workers, Abort(w) \/ Crash(w) PROVE Rest'
  BY <1>8 DEF Abort, Crash, Stop, rowVars, history
<1>9. ASSUME NEW w \in Workers, Run(w) PROVE Rest'
  BY <1>9, RunStep
<1>10. ASSUME NEW w \in Workers, Close(w) PROVE Rest'
  BY <1>10, CloseStep
<1>11. QED
  BY <1>1, <1>2, <1>3, <1>4, <1>5, <1>6, <1>7, <1>8, <1>9, <1>10
     DEF CrashNext, Next, Advance

\* The invariant holds from the start and is kept.
LEMMA SchedulerInvariant == ASSUME OneWorker PROVE Spec => []IInv
<1>1. [CrashNext]_vars /\ IInv => IInv'
  BY SchedulerStep
<1>2. QED
  BY <1>1, InitIInv, PTL DEF Spec

\* If a tick ends before the next one starts, what a user asked for is executed
\* at most once.
THEOREM OnceSafety == ASSUME OneWorker PROVE Spec => []AtMostOnce
<1>1. IInv => AtMostOnce
  BY DEF IInv, HistoryTrue, AtMostOnce, Jobs
<1>2. QED
  BY <1>1, SchedulerInvariant, PTL

\* The status of a row is what happened to the version in it.
THEOREM StatusSafety == ASSUME OneWorker PROVE Spec => []StatusIsTrue
<1>1. IInv => StatusIsTrue
  BY DEF IInv
<1>2. QED
  BY <1>1, SchedulerInvariant, PTL

-----------------------------------------------------------------------------
(* Any number of workers, none of which dies.                                *)

\* The worker is between the two saves of item i, in the version of the row.
HasAtHand(w, i) ==
    /\ pc[w] \in {"claimed", "ran"} /\ current[w] = i
    /\ read[w][i] = version[i]

\* What is executed is in some worker's hands, and its action has a row.
OInv == /\ TypeOK
        /\ \A i \in Items : status[i] # "none" => ActionOf[i] \in actions
        /\ \A i \in Items : status[i] = "executing" =>
               \E w \in Workers : HasAtHand(w, i)

\* Whoever leaves the loop has no executing item at hand: the row of the item
\* went with its action, which is why the exception was raised.
LEMMA OwnedStep == ASSUME OInv, [Next]_vars PROVE OInv'
<1>t. TypeOK'
  BY TypeStep DEF OInv, CrashNext
<1> USE SchedulerAssumption, <1>t DEF OInv, TypeOK, Statuses, HasAtHand
<1>1. CASE UNCHANGED vars
  BY <1>1 DEF vars, rowVars, workerVars
<1>2. ASSUME NEW i \in Items, Save(i) PROVE OInv'
  BY <1>2 DEF Save, WriteRow, workerVars
<1>3. ASSUME NEW i \in Items, ComeDue(i) PROVE OInv'
  BY <1>3 DEF ComeDue, workerVars
<1>4. ASSUME NEW i \in Items, Delete(i) PROVE OInv'
  BY <1>4 DEF Delete, WriteRow, workerVars
<1>5. ASSUME NEW a \in Actions, DeleteAction(a) PROVE OInv'
  BY <1>5 DEF DeleteAction, workerVars
<1>6. ASSUME NEW w \in Workers, Fetch(w) PROVE OInv'
  BY <1>6 DEF Fetch, rowVars
<1>7. ASSUME NEW w \in Workers, NEW i \in Items, Claim(w, i) PROVE OInv'
  <2>1. \A v \in Workers \ {w} : /\ pc'[v] = pc[v] /\ current'[v] = current[v]
                                /\ read'[v] = read[v]
    BY <1>7 DEF Claim
  <2>2. /\ pc[w] = "next" /\ actions' = actions /\ ActionOf[i] \in actions
        /\ version'[i] = read[w][i]
        /\ \A k \in Items \ {i} : status'[k] = status[k] /\ version'[k] = version[k]
    BY <1>7 DEF Claim, WriteBack, WriteRow
  <2>3. pc'[w] = "claimed" /\ current'[w] = i /\ read' = read
    BY <1>7 DEF Claim
  <2>4. ASSUME NEW k \in Items, k # i, status'[k] = "executing"
        PROVE  \E v \in Workers : HasAtHand(v, k)'
    <3>1. PICK v \in Workers : HasAtHand(v, k)
      BY <2>2, <2>4
    <3>2. v # w
      BY <2>2, <3>1
    <3>3. HasAtHand(v, k)'
      BY <2>1, <2>2, <2>4, <3>1, <3>2
    <3>4. QED
      BY <3>3
  <2>5. HasAtHand(w, i)'
    BY <2>2, <2>3
  <2>6. \A k \in Items : status'[k] # "none" => ActionOf[k] \in actions'
    BY <2>2
  <2>7. QED
    BY <1>t, <2>4, <2>5, <2>6
<1>8. ASSUME NEW w \in Workers, Abort(w) PROVE OInv'
  <2>1. UNCHANGED <<actions, status, version>>
    BY <1>8 DEF Abort, rowVars
  <2>2. ASSUME NEW i \in Items, NEW v \in Workers,
               status[i] = "executing", HasAtHand(v, i)
        PROVE  v # w
    BY <1>8, <2>2 DEF Abort
  <2>3. \A v \in Workers \ {w} : /\ pc'[v] = pc[v] /\ current'[v] = current[v]
                                /\ read'[v] = read[v]
    BY <1>8 DEF Abort, Stop
  <2>4. ASSUME NEW k \in Items, status'[k] = "executing"
        PROVE  \E v \in Workers : HasAtHand(v, k)'
    <3>1. PICK v \in Workers : HasAtHand(v, k)
      BY <2>1, <2>4
    <3>2. v # w
      BY <2>1, <2>2, <2>4, <3>1
    <3>3. HasAtHand(v, k)'
      BY <2>1, <2>3, <3>1, <3>2
    <3>4. QED
      BY <3>3
  <2>5. QED
    BY <1>t, <2>1, <2>4
<1>9. ASSUME NEW w \in Workers, Run(w) PROVE OInv'
  BY <1>9 DEF Run, rowVars
<1>10. ASSUME NEW w \in Workers, Close(w) PROVE OInv'
  <2>1. \A v \in Workers \ {w} : /\ pc'[v] = pc[v] /\ current'[v] = current[v]
                                /\ read'[v] = read[v]
    BY <1>10 DEF Close, NextItem, Stop
  <2>2. /\ actions' = actions /\ ActionOf[current[w]] \in actions
        /\ \A i \in Items :
              IF i = current[w] THEN status'[i] \in {"done", "done_error"}
              ELSE status'[i] = status[i] /\ version'[i] = version[i]
    BY <1>10 DEF Close, WriteBack, WriteRow
  <2>3. ASSUME NEW k \in Items, status'[k] = "executing"
        PROVE  \E v \in Workers : HasAtHand(v, k)'
    <3>1. PICK v \in Workers : HasAtHand(v, k)
      BY <2>2, <2>3
    <3>2. v # w
      BY <2>2, <2>3, <3>1
    <3>3. HasAtHand(v, k)'
      BY <2>1, <2>2, <2>3, <3>1, <3>2
    <3>4. QED
      BY <3>3
  <2>4. \A k \in Items : status'[k] # "none" => ActionOf[k] \in actions'
    BY <2>2
  <2>5. QED
    BY <1>t, <2>3, <2>4
<1>11. QED
  BY <1>1, <1>2, <1>3, <1>4, <1>5, <1>6, <1>7, <1>8, <1>9, <1>10
     DEF Next, Advance

\* Without crashes no row is left "executing", however many ticks overlap and
\* whatever is edited and deleted meanwhile.
THEOREM OwnedSafety == FairSpec => []ExecutingIsOwned
<1>1. Init => OInv
  BY InitIInv DEF IInv, OInv, Init
<1>2. OInv => ExecutingIsOwned
  BY DEF OInv, HasAtHand, ExecutingIsOwned
<1>3. OInv /\ [Next]_vars => OInv'
  BY OwnedStep
<1>4. QED
  BY <1>1, <1>2, <1>3, PTL DEF FairSpec
-----------------------------------------------------------------------------
(* Any number of workers, whose ticks overlap and which may die.             *)

InHand(w, i) == \/ i \in batch[w]
                \/ pc[w] \in {"claimed", "ran"} /\ current[w] = i

\* The workers that may still execute version v of item i.
Claimants(i, v) == {w \in Workers : i \in Awaiting(w) /\ read[w][i] = v}

\* What is in somebody's hands was saved by a user.
HandsSaved ==
    \A w \in Workers, i \in Items :
        InHand(w, i) => read[w][i] > 0 /\ read[w][i] <= saved[i]

\* What was claimed has left the batch and is not pending.
ClaimedNotPending ==
    \A w \in Workers : pc[w] \in {"claimed", "ran"} =>
        /\ current[w] \in Items /\ current[w] \notin batch[w]
        /\ status[current[w]] = "pending" =>
               version[current[w]] # read[w][current[w]]

UnsavedFresh ==
    \A i \in Items, v \in Versions : v > saved[i] => runs[<<i, v>>] = 0

\* Each worker has executed the version, may execute it, or never will.
Share(i, v) ==
    runs[<<i, v>>] + Cardinality(Claimants(i, v)) <= Cardinality(Workers)

Shared == \A i \in Items, v \in Versions : Share(i, v)

SInv == /\ TypeOK /\ RowsSaved /\ PendingFresh /\ HandsSaved
        /\ ClaimedNotPending /\ UnsavedFresh /\ Shared

\* There are never more claimants than workers.
LEMMA ClaimantsFinite ==
    ASSUME IsFiniteSet(Workers), NEW S \in SUBSET Workers
    PROVE  /\ IsFiniteSet(S)
           /\ Cardinality(S) \in Nat /\ Cardinality(Workers) \in Nat
           /\ Cardinality(S) <= Cardinality(Workers)
BY FS_Subset, FS_CardinalityType

\* Claimants that go away, and no execution.
LEMMA ShareKept ==
    ASSUME IsFiniteSet(Workers), TypeOK, NEW i \in Items, NEW v \in Versions,
           Share(i, v), runs'[<<i, v>>] = runs[<<i, v>>],
           Claimants(i, v)' \subseteq Claimants(i, v)
    PROVE  Share(i, v)'
<1> DEFINE C == Claimants(i, v)
           D == Claimants(i, v)'
<1>1. C \subseteq Workers /\ D \subseteq Workers
  BY DEF Claimants
<1>2. IsFiniteSet(C) /\ Cardinality(C) \in Nat /\ Cardinality(Workers) \in Nat
  BY <1>1, ClaimantsFinite
<1>3. Cardinality(D) <= Cardinality(C) /\ Cardinality(D) \in Nat
  BY <1>2, FS_Subset, FS_CardinalityType
<1>4. runs[<<i, v>>] \in Nat
  BY DEF TypeOK, Jobs
<1>5. runs[<<i, v>>] + Cardinality(C) <= Cardinality(Workers)
  BY DEF Share
<1>6. runs'[<<i, v>>] + Cardinality(D) <= Cardinality(Workers)
  BY <1>2, <1>3, <1>4, <1>5
<1>7. QED
  BY <1>6 DEF Share

\* A claimant that executes the version is none any more.
LEMMA ShareRun ==
    ASSUME IsFiniteSet(Workers), TypeOK, NEW i \in Items, NEW v \in Versions,
           Share(i, v), runs'[<<i, v>>] = runs[<<i, v>>] + 1,
           NEW w \in Claimants(i, v),
           Claimants(i, v)' \subseteq Claimants(i, v) \ {w}
    PROVE  Share(i, v)'
<1> DEFINE C == Claimants(i, v)
           D == Claimants(i, v)'
<1>1. C \subseteq Workers /\ D \subseteq Workers /\ w \in C
  BY DEF Claimants
<1>2. IsFiniteSet(C) /\ Cardinality(C) \in Nat /\ Cardinality(Workers) \in Nat
  BY <1>1, ClaimantsFinite
<1>3. /\ IsFiniteSet(C \ {w}) /\ Cardinality(C \ {w}) \in Nat
      /\ Cardinality(C \ {w}) = Cardinality(C) - 1
  BY <1>1, <1>2, FS_RemoveElement, FS_CardinalityType
<1>4. Cardinality(D) <= Cardinality(C \ {w}) /\ Cardinality(D) \in Nat
  BY <1>3, FS_Subset, FS_CardinalityType
<1>5. runs[<<i, v>>] \in Nat
  BY DEF TypeOK, Jobs
<1>6. runs[<<i, v>>] + Cardinality(C) <= Cardinality(Workers)
  BY DEF Share
<1>7. runs'[<<i, v>>] + Cardinality(D) <= Cardinality(Workers)
  BY <1>2, <1>3, <1>4, <1>5, <1>6
<1>8. QED
  BY <1>7 DEF Share

\* Whatever has not been executed may be fetched by everybody.
LEMMA ShareNew ==
    ASSUME IsFiniteSet(Workers), NEW i \in Items, NEW v \in Versions,
           runs'[<<i, v>>] = 0
    PROVE  Share(i, v)'
<1>1. Claimants(i, v)' \subseteq Workers
  BY DEF Claimants
<1>2. QED
  BY <1>1, ClaimantsFinite DEF Share

\* A step that leaves the history and adds no claimant.
LEMMA SharedKept ==
    ASSUME IsFiniteSet(Workers), TypeOK, Shared, runs' = runs,
           \A w \in Workers : \A i \in Items :
               i \in Awaiting(w)' => i \in Awaiting(w) /\ read'[w][i] = read[w][i]
    PROVE  Shared'
<1> SUFFICES ASSUME NEW i \in Items, NEW v \in Versions PROVE Share(i, v)'
  BY DEF Shared
<1>1. Claimants(i, v)' \subseteq Claimants(i, v)
  BY DEF Claimants
<1>2. Share(i, v)
  BY DEF Shared
<1>3. QED
  BY <1>1, <1>2, ShareKept

\* A worker that goes idle has nothing in its hands; others keep what they have.
LEMMA StopHands ==
    ASSUME TypeOK, NEW w \in Workers, Stop(w)
    PROVE  /\ \A i : ~ InHand(w, i)' /\ i \notin Awaiting(w)'
           /\ \A x \in Workers \ {w} :
                  UNCHANGED <<pc[x], batch[x], read[x], current[x], result[x]>>
           /\ pc'[w] = "idle"
BY DEF TypeOK, Stop, InHand, Awaiting

\* What the invariant says besides the types and the shares.
Fresh == /\ RowsSaved /\ PendingFresh /\ HandsSaved /\ ClaimedNotPending
         /\ UnsavedFresh

\* Whoever stops takes nothing with it that the invariant speaks of.
LEMMA StopShared ==
    ASSUME IsFiniteSet(Workers), SInv, NEW w \in Workers, Stop(w),
           UNCHANGED <<rowVars, saved, history>>
    PROVE  Fresh' /\ Shared'
<1>1. /\ \A i : ~ InHand(w, i)' /\ i \notin Awaiting(w)'
      /\ \A x \in Workers \ {w} :
             UNCHANGED <<pc[x], batch[x], read[x], current[x], result[x]>>
      /\ pc'[w] = "idle"
  BY StopHands DEF SInv
<1>2. RowsSaved' /\ PendingFresh' /\ UnsavedFresh'
  BY DEF SInv, RowsSaved, PendingFresh, UnsavedFresh, rowVars, history
<1>3. HandsSaved'
  BY <1>1 DEF SInv, HandsSaved, InHand
<1>4. ClaimedNotPending'
  BY <1>1 DEF SInv, ClaimedNotPending, rowVars
<1>5. Shared'
  <2>1. \A x \in Workers : \A i \in Items : i \in Awaiting(x)' =>
            i \in Awaiting(x) /\ read'[x][i] = read[x][i]
    BY <1>1 DEF Awaiting
  <2>2. QED
    BY <2>1, SharedKept DEF SInv, history
<1>6. QED
  BY <1>2, <1>3, <1>4, <1>5 DEF Fresh

\* A tick: it gets what has never been executed.
LEMMA FetchShared ==
    ASSUME IsFiniteSet(Workers), SInv, NEW w \in Workers, Fetch(w)
    PROVE  Fresh' /\ Shared'
<1>1. /\ pc[w] = "idle" /\ pc' = [pc EXCEPT ![w] = "next"]
      /\ batch' = [batch EXCEPT ![w] = {i \in Items : Pending(i)}]
      /\ read' = [read EXCEPT ![w] =
                     [i \in Items |-> IF Pending(i) THEN version[i] ELSE 0]]
      /\ current' = current /\ status' = status /\ version' = version
      /\ saved' = saved /\ runs' = runs
  BY DEF Fetch, rowVars, history
<1>2. /\ batch'[w] = {i \in Items : Pending(i)} /\ pc'[w] = "next"
      /\ \A i \in Items : Pending(i) => read'[w][i] = version[i]
      /\ \A x \in Workers \ {w} : /\ pc'[x] = pc[x] /\ batch'[x] = batch[x]
                                  /\ read'[x] = read[x]
  BY <1>1 DEF SInv, TypeOK
<1>3. \A i \in Items : Pending(i) =>
          /\ version[i] > 0 /\ version[i] <= saved[i] /\ runs[<<i, version[i]>>] = 0
  BY DEF SInv, Pending, RowsSaved, PendingFresh
<1>4. RowsSaved' /\ PendingFresh' /\ UnsavedFresh'
  BY <1>1 DEF SInv, RowsSaved, PendingFresh, UnsavedFresh
<1>5. HandsSaved'
  BY <1>1, <1>2, <1>3 DEF SInv, HandsSaved, InHand
<1>6. ClaimedNotPending'
  BY <1>1, <1>2 DEF SInv, ClaimedNotPending
<1>7. ASSUME NEW i \in Items, NEW v \in Versions PROVE Share(i, v)'
  <2>1. CASE Pending(i) /\ version[i] = v
    BY <1>1, <1>3, <2>1, ShareNew
  <2>2. CASE ~ (Pending(i) /\ version[i] = v)
    <3>1. \A x \in Workers : i \in Awaiting(x)' /\ read'[x][i] = v =>
              i \in Awaiting(x) /\ read[x][i] = v
      BY <1>1, <1>2, <2>2 DEF Awaiting
    <3>2. Claimants(i, v)' \subseteq Claimants(i, v)
      BY <3>1 DEF Claimants
    <3>3. Share(i, v) /\ TypeOK
      BY DEF SInv, Shared
    <3>4. runs'[<<i, v>>] = runs[<<i, v>>]
      BY <1>1
    <3>5. QED
      BY <3>2, <3>3, <3>4, ShareKept
  <2>3. QED
    BY <2>1, <2>2
<1>8. QED
  BY <1>4, <1>5, <1>6, <1>7 DEF Fresh, Shared

\* Claiming an item: it goes from the batch into the worker's hands.
LEMMA ClaimShared ==
    ASSUME IsFiniteSet(Workers), SInv, NEW w \in Workers, NEW i \in Items,
           Claim(w, i)
    PROVE  Fresh' /\ Shared'
<1>1. /\ \A k \in Items : status'[k] = IF k = i THEN "executing" ELSE status[k]
      /\ \A k \in Items : version'[k] = IF k = i THEN read[w][i] ELSE version[k]
  BY DEF Claim, WriteBack, WriteRow, SInv, TypeOK
<1>2. /\ pc[w] = "next" /\ pc'[w] = "claimed"
      /\ i \in batch[w] /\ batch'[w] = batch[w] \ {i} /\ current'[w] = i
      /\ saved' = saved /\ read' = read /\ runs' = runs
      /\ \A x \in Workers \ {w} : /\ pc'[x] = pc[x] /\ batch'[x] = batch[x]
                                  /\ current'[x] = current[x]
  BY DEF Claim, history, SInv, TypeOK
<1>3. read[w][i] > 0 /\ read[w][i] <= saved[i]
  BY <1>2 DEF SInv, HandsSaved, InHand
<1>4. RowsSaved'
  BY <1>1, <1>2, <1>3 DEF SInv, RowsSaved
<1>5. PendingFresh' /\ UnsavedFresh'
  BY <1>1, <1>2 DEF SInv, PendingFresh, UnsavedFresh
<1>6. HandsSaved'
  BY <1>2 DEF SInv, HandsSaved, InHand
<1>7. ClaimedNotPending'
  BY <1>1, <1>2 DEF SInv, ClaimedNotPending
<1>8. \A x \in Workers : \A k \in Items : k \in Awaiting(x)' =>
          k \in Awaiting(x) /\ read'[x][k] = read[x][k]
  BY <1>2 DEF Awaiting
<1>9. Shared'
  BY <1>2, <1>8, SharedKept DEF SInv
<1>10. QED
  BY <1>4, <1>5, <1>6, <1>7, <1>9 DEF Fresh

\* Executing it uses up the worker's share of the version.
LEMMA RunShared ==
    ASSUME IsFiniteSet(Workers), SInv, NEW w \in Workers, Run(w)
    PROVE  Fresh' /\ Shared'
<1> DEFINE i == current[w]
           v == read[w][i]
<1> USE SchedulerAssumption
<1>1. /\ pc[w] = "claimed" /\ pc' = [pc EXCEPT ![w] = "ran"]
      /\ status' = status /\ version' = version /\ saved' = saved
      /\ batch' = batch /\ read' = read /\ current' = current
      /\ runs' = [runs EXCEPT ![<<i, v>>] = @ + 1]
  BY DEF Run, rowVars
<1>2. /\ i \in Items /\ i \notin batch[w] /\ v > 0 /\ v <= saved[i]
      /\ status[i] = "pending" => version[i] # v
  BY <1>1 DEF SInv, ClaimedNotPending, HandsSaved, InHand
<1>3. v \in Versions /\ <<i, v>> \in Jobs
  BY <1>2 DEF SInv, TypeOK, Versions, Jobs
<1>4. /\ pc'[w] = "ran" /\ \A x \in Workers \ {w} : pc'[x] = pc[x]
  BY <1>1 DEF SInv, TypeOK
<1>5. runs'[<<i, v>>] = runs[<<i, v>>] + 1
  BY <1>1, <1>3 DEF SInv, TypeOK
<1>6. \A k \in Items, u \in Versions : ~ (k = i /\ u = v) =>
          runs'[<<k, u>>] = runs[<<k, u>>]
  BY <1>1 DEF SInv, TypeOK, Jobs
<1>7. \A k \in Items : status[k] # "none" => version[k] \in Versions
  BY DEF SInv, TypeOK, RowsSaved, Versions
<1>8. RowsSaved'
  BY <1>1 DEF SInv, RowsSaved
<1>9. PendingFresh'
  BY <1>1, <1>2, <1>6, <1>7 DEF SInv, PendingFresh
<1>10. UnsavedFresh'
  <2> SUFFICES ASSUME NEW k \in Items, NEW u \in Versions, u > saved[k]
               PROVE  runs'[<<k, u>>] = 0
    BY <1>1 DEF UnsavedFresh
  <2>1. ~ (k = i /\ u = v)
    BY <1>2 DEF SInv, TypeOK, Versions
  <2>2. QED
    BY <1>6, <2>1 DEF SInv, UnsavedFresh
<1>11. HandsSaved'
  BY <1>1, <1>4 DEF SInv, HandsSaved, InHand
<1>12. ClaimedNotPending'
  BY <1>1, <1>4 DEF SInv, ClaimedNotPending
<1>13. w \in Claimants(i, v) /\ w \notin Claimants(i, v)'
  BY <1>1, <1>2, <1>4 DEF Claimants, Awaiting
<1>14. ASSUME NEW k \in Items, NEW u \in Versions
       PROVE  Claimants(k, u)' \subseteq Claimants(k, u)
  BY <1>1, <1>4 DEF Claimants, Awaiting
<1>15. ASSUME NEW k \in Items, NEW u \in Versions PROVE Share(k, u)'
  <2>1. Share(k, u) /\ TypeOK
    BY DEF SInv, Shared
  <2>2. CASE k = i /\ u = v
    <3>1. runs'[<<k, u>>] = runs[<<k, u>>] + 1
      BY <1>5, <2>2
    <3>2. Claimants(k, u)' \subseteq Claimants(k, u)
      BY <1>14
    <3>3. w \in Claimants(k, u) /\ w \notin Claimants(k, u)'
      BY <1>1, <1>2, <1>4, <2>2 DEF Claimants, Awaiting
    <3>4. Claimants(k, u)' \subseteq Claimants(k, u) \ {w}
      BY <3>2, <3>3
    <3>5. QED
      BY <2>1, <3>1, <3>3, <3>4, ShareRun
  <2>3. CASE ~ (k = i /\ u = v)
    <3>1. runs'[<<k, u>>] = runs[<<k, u>>]
      BY <1>6, <2>3
    <3>2. QED
      BY <1>14, <2>1, <3>1, ShareKept
  <2>4. QED
    BY <2>2, <2>3
<1>16. QED
  BY <1>8, <1>9, <1>10, <1>11, <1>12, <1>15 DEF Fresh, Shared

\* Writing the outcome back, and on to the next item or to the end.
LEMMA CloseShared ==
    ASSUME IsFiniteSet(Workers), SInv, NEW w \in Workers, Close(w)
    PROVE  Fresh' /\ Shared'
<1> DEFINE i == current[w]
           v == read[w][i]
<1>1. pc[w] = "ran" /\ saved' = saved /\ runs' = runs
  BY DEF Close, history
<1>2. i \in Items /\ v > 0 /\ v <= saved[i]
  BY <1>1 DEF SInv, ClaimedNotPending, HandsSaved, InHand
<1>3. /\ \A k \in Items : status'[k] =
            IF k # i THEN status[k]
            ELSE IF result[w] THEN "done" ELSE "done_error"
      /\ \A k \in Items : version'[k] = IF k = i THEN v ELSE version[k]
  BY <1>2 DEF Close, WriteBack, WriteRow, SInv, TypeOK
<1>4. pc'[w] \in {"idle", "next"}
  BY DEF Close, NextItem, Stop, SInv, TypeOK
<1>5. batch'[w] = {} \/ (batch'[w] = batch[w] /\ read'[w] = read[w])
  BY DEF Close, NextItem, Stop, SInv, TypeOK
<1>6. \A x \in Workers \ {w} :
          /\ pc'[x] = pc[x] /\ batch'[x] = batch[x] /\ read'[x] = read[x]
          /\ current'[x] = current[x]
  BY DEF Close, NextItem, Stop, SInv, TypeOK
<1>7. RowsSaved'
  BY <1>1, <1>2, <1>3 DEF SInv, RowsSaved
<1>8. PendingFresh' /\ UnsavedFresh'
  BY <1>1, <1>3 DEF SInv, PendingFresh, UnsavedFresh
<1>9. HandsSaved'
  BY <1>1, <1>4, <1>5, <1>6 DEF SInv, HandsSaved, InHand
<1>10. ClaimedNotPending'
  BY <1>3, <1>4, <1>6 DEF SInv, ClaimedNotPending
<1>11. \A x \in Workers : \A k \in Items : k \in Awaiting(x)' =>
           k \in Awaiting(x) /\ read'[x][k] = read[x][k]
  BY <1>4, <1>5, <1>6 DEF Awaiting
<1>12. Shared'
  BY <1>1, <1>11, SharedKept DEF SInv
<1>13. QED
  BY <1>7, <1>8, <1>9, <1>10, <1>12 DEF Fresh

\* A step of a user: no worker and nothing that was executed changes.
LEMMA UserShared ==
    ASSUME IsFiniteSet(Workers), SInv, UNCHANGED <<workerVars, history>>
    PROVE  Shared'
<1>1. \A x \in Workers : \A k \in Items : k \in Awaiting(x)' =>
          k \in Awaiting(x) /\ read'[x][k] = read[x][k]
  BY DEF Awaiting, workerVars
<1>2. QED
  BY <1>1, SharedKept DEF SInv, history

\* Every step keeps the shares, whatever overlaps and whoever dies.
LEMMA SharesStep ==
    ASSUME IsFiniteSet(Workers), SInv, [CrashNext]_vars PROVE SInv'
<1>t. TypeOK'
  BY TypeStep DEF SInv
<1> SUFFICES Fresh' /\ Shared'
  BY <1>t DEF SInv, Fresh
<1> DEFINE Parts == /\ RowsSaved' /\ PendingFresh' /\ HandsSaved'
                    /\ ClaimedNotPending' /\ UnsavedFresh'
<1>1. CASE UNCHANGED vars
  <2>1. Parts
    BY <1>1 DEF SInv, RowsSaved, PendingFresh, HandsSaved, InHand,
       ClaimedNotPending, UnsavedFresh, vars, rowVars, workerVars, history
  <2>2. QED
    BY <1>1, <2>1, UserShared DEF Fresh, vars
<1>2. ASSUME NEW i \in Items, Save(i) PROVE Fresh' /\ Shared'
  <2>1. Parts
    BY <1>2, SchedulerAssumption DEF SInv, TypeOK, RowsSaved, PendingFresh,
       HandsSaved, InHand, ClaimedNotPending, UnsavedFresh, Versions, Save,
       WriteRow, workerVars, history
  <2>2. QED
    BY <1>2, <2>1, UserShared DEF Fresh, Save
<1>3. ASSUME NEW i \in Items, ComeDue(i) PROVE Fresh' /\ Shared'
  <2>1. Parts
    BY <1>3 DEF SInv, RowsSaved, PendingFresh, HandsSaved, InHand,
       ClaimedNotPending, UnsavedFresh, ComeDue, workerVars, history
  <2>2. QED
    BY <1>3, <2>1, UserShared DEF Fresh, ComeDue
<1>4. ASSUME NEW i \in Items, Delete(i) PROVE Fresh' /\ Shared'
  <2>1. Parts
    BY <1>4 DEF SInv, TypeOK, RowsSaved, PendingFresh, HandsSaved, InHand,
       ClaimedNotPending, UnsavedFresh, Delete, WriteRow, workerVars, history
  <2>2. QED
    BY <1>4, <2>1, UserShared DEF Fresh, Delete
<1>5. ASSUME NEW a \in Actions, DeleteAction(a) PROVE Fresh' /\ Shared'
  <2>1. Parts
    BY <1>5 DEF SInv, TypeOK, RowsSaved, PendingFresh, HandsSaved, InHand,
       ClaimedNotPending, UnsavedFresh, DeleteAction, workerVars, history
  <2>2. QED
    BY <1>5, <2>1, UserShared DEF Fresh, DeleteAction
<1>6. ASSUME NEW w \in Workers, Fetch(w) PROVE Fresh' /\ Shared'
  BY <1>6, FetchShared
<1>7. ASSUME NEW w \in Workers, NEW i \in Items, Claim(w, i)
      PROVE  Fresh' /\ Shared'
  BY <1>7, ClaimShared
<1>8. ASSUME NEW w \in Workers, Abort(w) \/ Crash(w) PROVE Fresh' /\ Shared'
  BY <1>8, StopShared DEF Abort, Crash
<1>9. ASSUME NEW w \in Workers, Run(w) PROVE Fresh' /\ Shared'
  BY <1>9, RunShared
<1>10. ASSUME NEW w \in Workers, Close(w) PROVE Fresh' /\ Shared'
  BY <1>10, CloseShared
<1>11. QED
  BY <1>1, <1>2, <1>3, <1>4, <1>5, <1>6, <1>7, <1>8, <1>9, <1>10
     DEF CrashNext, Next, Advance

\* Nobody has anything in hand at the start.
LEMMA InitShared == ASSUME IsFiniteSet(Workers), Init PROVE SInv
<1>1. TypeOK /\ RowsSaved /\ PendingFresh
  BY InitIInv DEF IInv
<1>2. HandsSaved /\ ClaimedNotPending /\ UnsavedFresh
  BY SchedulerAssumption DEF Init, HandsSaved, InHand, ClaimedNotPending,
     UnsavedFresh, Versions, Jobs
<1>3. ASSUME NEW i \in Items, NEW v \in Versions PROVE Share(i, v)
  <2>1. runs[<<i, v>>] = 0 /\ Claimants(i, v) = {}
    BY DEF Init, Jobs, Claimants, Awaiting
  <2>2. QED
    BY <2>1, ClaimantsFinite, FS_EmptySet DEF Share
<1>4. QED
  BY <1>1, <1>2, <1>3 DEF SInv, Shared

\* However many ticks overlap, whatever is edited meanwhile and whoever dies, a
\* version is executed at most once by each worker.
THEOREM OncePerWorkerSafety ==
    ASSUME IsFiniteSet(Workers) PROVE Spec => []OncePerWorker
<1>1. ASSUME SInv PROVE OncePerWorker
  <2> SUFFICES ASSUME NEW i \in Items, NEW v \in Versions
               PROVE  runs[<<i, v>>] <= Cardinality(Workers)
    BY DEF OncePerWorker, Jobs
  <2>1. Claimants(i, v) \subseteq Workers
    BY DEF Claimants
  <2>2. /\ Cardinality(Claimants(i, v)) \in Nat
        /\ Cardinality(Workers) \in Nat
    BY <2>1, ClaimantsFinite
  <2>3. runs[<<i, v>>] \in Nat
    BY <1>1 DEF SInv, TypeOK, Jobs
  <2>4. runs[<<i, v>>] + Cardinality(Claimants(i, v)) <= Cardinality(Workers)
    BY <1>1 DEF SInv, Shared, Share
  <2>5. QED
    BY <2>2, <2>3, <2>4
<1>2. Init => SInv
  BY InitShared
<1>3. SInv /\ [CrashNext]_vars => SInv'
  BY SharesStep
<1>4. SInv => OncePerWorker
  BY <1>1
<1>5. QED
  BY <1>2, <1>3, <1>4, PTL DEF Spec

-----------------------------------------------------------------------------
(* One worker implements the book of jobs.                                   *)

Entry(i, v) == IF saved[i] < v THEN "unasked"
               ELSE IF outcome[<<i, v>>] = "none" THEN "asked"
               ELSE outcome[<<i, v>>]

\* What is written about each version of each item.
LEMMA EntryOf ==
    /\ Book!Entries = Jobs
    /\ BookOf = [j \in Jobs |-> BookOf[j]]
    /\ \A i \in Items, v \in Versions : BookOf[<<i, v>>] = Entry(i, v)
BY DEF Book!Entries, Jobs, Versions, BookOf, Entry

\* A book with one entry changed.
LEMMA Changed ==
    ASSUME NEW i \in Items, NEW v \in Versions, NEW e, Entry(i, v)' = e,
           \A k \in Items, u \in Versions :
               ~ (k = i /\ u = v) => Entry(k, u)' = Entry(k, u)
    PROVE  BookOf' = [BookOf EXCEPT ![<<i, v>>] = e]
<1> DEFINE New == [BookOf EXCEPT ![<<i, v>>] = e]
<1>1. New = [j \in Jobs |-> New[j]] /\ BookOf' = [j \in Jobs |-> BookOf'[j]]
  BY DEF BookOf
<1>2. ASSUME NEW j \in Jobs PROVE BookOf'[j] = New[j]
  <2>1. PICK k \in Items, u \in Versions : j = <<k, u>>
    BY DEF Jobs
  <2>2. BookOf'[<<k, u>>] = Entry(k, u)'
    BY DEF Jobs, BookOf, Entry
  <2>3. New[<<k, u>>] = IF k = i /\ u = v THEN e ELSE Entry(k, u)
    BY DEF Jobs, BookOf, Entry
  <2>4. QED
    BY <2>1, <2>2, <2>3
<1>3. QED
  BY <1>1, <1>2

\* The book is empty at the start.
LEMMA BookInit == Init => Book!Init
<1> SUFFICES ASSUME Init PROVE BookOf = [j \in Jobs |-> "unasked"]
  BY EntryOf DEF Book!Init
<1>1. ASSUME NEW j \in Jobs PROVE BookOf[j] = "unasked"
  BY DEF Jobs, Versions, BookOf, Init
<1>2. QED
  BY <1>1, EntryOf

\* A save asks for the next version of its item.
LEMMA SaveAsks ==
    ASSUME IInv, NEW i \in Items, Save(i)
    PROVE  \E v \in 1..MaxVersion : Book!Ask(i, v)
<1> USE SchedulerAssumption
<1>0. PICK v \in Versions : v = saved[i] + 1
  BY DEF Save, IInv, TypeOK, Versions
<1>1. /\ saved[i] \in Nat /\ saved'[i] = v
      /\ \A k \in Items : k # i => saved'[k] = saved[k]
      /\ outcome' = outcome
  BY <1>0 DEF Save, IInv, TypeOK, history
<1>2. outcome[<<i, v>>] = "none"
  BY <1>0, <1>1 DEF IInv, HistoryTrue, Versions
<1>3. Entry(i, v) = "unasked" /\ Entry(i, v)' = "asked"
  BY <1>0, <1>1, <1>2 DEF Entry, Versions
<1>4. ASSUME NEW k \in Items, NEW u \in Versions, ~ (k = i /\ u = v)
      PROVE  Entry(k, u)' = Entry(k, u)
  <2>1. CASE k = i
    <3>1. u \in Int /\ v \in Int /\ u # v /\ v = saved[i] + 1
      BY <1>0, <1>4, <2>1 DEF Versions
    <3>2. saved'[i] < u <=> saved[i] < u
      BY <1>1, <3>1
    <3>3. QED
      BY <1>1, <2>1, <3>2 DEF Entry
  <2>2. CASE k # i
    BY <1>1, <2>2 DEF Entry
  <2>3. QED
    BY <2>1, <2>2
<1>5. ASSUME NEW u \in Versions, u < v PROVE Entry(i, u) # "unasked"
  <2>1. ~ saved[i] < u
    BY <1>0, <1>1, <1>5 DEF Versions
  <2>2. outcome[<<i, u>>] \in {"none", "ok", "error"}
    BY DEF IInv, TypeOK, Jobs
  <2>3. QED
    BY <2>1, <2>2 DEF Entry
<1>6. BookOf' = [BookOf EXCEPT ![<<i, v>>] = "asked"]
  BY <1>1, <1>3, <1>4, Changed
<1>7. Book!Ask(i, v)
  BY <1>1, <1>3, <1>5, <1>6, EntryOf DEF Book!Ask, Versions
<1>8. QED
  BY <1>1, <1>7 DEF Versions

\* run_task executes a job that was asked for and has not been executed.
LEMMA RunExecutes ==
    ASSUME IInv, NEW w \in Workers, Run(w)
    PROVE  \E j \in Book!Entries : Book!Execute(j)
<1> USE SchedulerAssumption
<1>1. pc[w] = "claimed" /\ saved' = saved
  BY DEF Run
<1>0. PICK i \in Items : i = current[w]
  BY <1>1 DEF IInv, AtHand
<1>2. PICK v \in Versions : v = read[w][i] /\ v <= saved[i] /\ saved[i] \in Nat
  BY <1>0, <1>1 DEF IInv, AtHand, TypeOK, Versions
<1>3. <<i, v>> \in Jobs
  BY DEF Jobs
<1>4. outcome[<<i, v>>] = "none"
  BY <1>0, <1>1, <1>2 DEF IInv, HistoryTrue, BatchFresh, Awaiting, JobOf
<1>5. PICK sent \in BOOLEAN :
         outcome' = [outcome EXCEPT ![<<i, v>>] =
                        IF Works(<<i, v>>, sent) THEN "ok" ELSE "error"]
  BY <1>0, <1>2 DEF Run
<1>6. PICK end \in {"ok", "error"} :
         outcome' = [outcome EXCEPT ![<<i, v>>] = end]
  BY <1>5
<1>7. outcome'[<<i, v>>] = end
  BY <1>3, <1>6 DEF IInv, TypeOK
<1>8. Entry(i, v) = "asked" /\ Entry(i, v)' = end
  BY <1>1, <1>2, <1>3, <1>4, <1>7 DEF Entry, Versions
<1>9. ASSUME NEW k \in Items, NEW u \in Versions, ~ (k = i /\ u = v)
      PROVE  Entry(k, u)' = Entry(k, u)
  <2>1. <<k, u>> # <<i, v>> /\ <<k, u>> \in Jobs
    BY <1>9 DEF Jobs
  <2>2. outcome'[<<k, u>>] = outcome[<<k, u>>]
    BY <1>6, <2>1 DEF IInv, TypeOK
  <2>3. QED
    BY <1>1, <2>2 DEF Entry
<1>10. BookOf' = [BookOf EXCEPT ![<<i, v>>] = end]
  BY <1>2, <1>3, <1>8, <1>9, Changed
<1>11. Book!Execute(<<i, v>>)
  BY <1>2, <1>3, <1>8, <1>10, EntryOf DEF Book!Execute
<1>12. QED
  BY <1>3, <1>11, EntryOf

\* Nothing else is seen in the book: rows come and go, workers die.
LEMMA BookStep ==
    ASSUME IInv, [CrashNext]_vars PROVE [Book!Next]_BookOf
<1>1. ASSUME NEW i \in Items, Save(i) PROVE Book!Next
  BY <1>1, SaveAsks DEF Book!Next
<1>2. ASSUME NEW w \in Workers, Run(w) PROVE Book!Next
  BY <1>2, RunExecutes DEF Book!Next
<1>3. saved' = saved /\ outcome' = outcome => BookOf' = BookOf
  BY DEF BookOf
<1>4. CASE UNCHANGED vars
  BY <1>3, <1>4 DEF vars, history
<1>5. ASSUME NEW i \in Items, ComeDue(i) \/ Delete(i) PROVE BookOf' = BookOf
  BY <1>3, <1>5 DEF ComeDue, Delete, history
<1>6. ASSUME NEW a \in Actions, DeleteAction(a) PROVE BookOf' = BookOf
  BY <1>3, <1>6 DEF DeleteAction, history
<1>7. ASSUME NEW w \in Workers, NEW i \in Items, Claim(w, i)
      PROVE  BookOf' = BookOf
  BY <1>3, <1>7 DEF Claim, history
<1>8. ASSUME NEW w \in Workers, Fetch(w) \/ Abort(w) \/ Close(w) \/ Crash(w)
      PROVE  BookOf' = BookOf
  BY <1>3, <1>8 DEF Fetch, Abort, Close, Crash, history
<1>9. QED
  BY <1>1, <1>2, <1>4, <1>5, <1>6, <1>7, <1>8 DEF CrashNext, Next, Advance

\* If a tick ends before the next one starts, the rows and the worker implement
\* the book: a job is executed at most once, after it was asked for, and its
\* end is never rewritten.
THEOREM SchedulerKeepsTheBook == ASSUME OneWorker PROVE Spec => KeepsTheBook
<1>1. Init => Book!Init
  BY BookInit
<1>2. IInv /\ [CrashNext]_vars => [Book!Next]_BookOf
  BY BookStep
<1>3. QED
  BY <1>1, <1>2, SchedulerInvariant, PTL DEF Spec, KeepsTheBook, Book!Spec
=============================================================================
