----------------------------- MODULE Scheduler -----------------------------
(***************************************************************************)
(* Scheduled actions: execute_scheduled_actions_task and run_task, which a  *)
(* Celery worker executes at every tick of the beat process, and the pages  *)
(* and API end points that create, edit and delete scheduled actions.       *)
(*                                                                          *)
(* A row of ScheduledAction is its status, whether its execution time has   *)
(* come, and a version: what the user asked for, numbered by the saves of   *)
(* the row that users do.  The worker keeps the objects it fetched and      *)
(* writes them back whole (Model.save updates every field and inserts the   *)
(* row if there is none), so a snapshot is the version it was fetched with. *)
(***************************************************************************)
EXTENDS Naturals, FiniteSets

CONSTANTS
    Items,        \* ids of scheduled actions
    Actions,      \* ids of the actions they execute
    ActionOf,     \* [Items -> Actions]
    Workers,      \* Celery processes that may execute a tick
    MaxVersion,   \* bound on how often users save a row
    ByShared,     \* <<item, version>> saved by a user the workflow is shared with
    SendingFails  \* mail server, JSON end point or evaluation may raise an exception

Versions == 1..MaxVersion
Jobs == Items \X Versions

ASSUME SchedulerAssumption ==
    /\ MaxVersion \in Nat
    /\ ActionOf \in [Items -> Actions]
    /\ ByShared \subseteq Jobs
    /\ SendingFails \in BOOLEAN

VARIABLES
    actions,   \* the actions that have a row
    status,    \* per item: "none" (no row), or the status of the row
    version,   \* per item: the version in the row
    due,       \* per item: execute < now + 1 minute
    saved,     \* per item: the number of versions that users saved
    pc,        \* per worker: "idle", "next", "claimed" or "ran"
    batch,     \* per worker: the items it fetched and has not claimed yet
    read,      \* per worker and item: the version it fetched
    current,   \* per worker: the item it claimed
    result,    \* per worker: the value of run_task
    runs,      \* per job: how often it was executed
    outcome    \* per job: "none", "ok" or "error", of its last execution

rowVars == <<status, version, due>>
workerVars == <<pc, batch, read, current, result>>
history == <<runs, outcome>>
vars == <<actions, rowVars, saved, workerVars, history>>

Statuses == {"none", "pending", "executing", "done", "done_error"}

TypeOK ==
    /\ actions \subseteq Actions
    /\ status \in [Items -> Statuses]
    /\ version \in [Items -> 0..MaxVersion]
    /\ due \in [Items -> BOOLEAN]
    /\ saved \in [Items -> 0..MaxVersion]
    /\ pc \in [Workers -> {"idle", "next", "claimed", "ran"}]
    /\ batch \in [Workers -> SUBSET Items]
    /\ read \in [Workers -> [Items -> 0..MaxVersion]]
    /\ current \in [Workers -> Items \cup {"none"}]
    /\ result \in [Workers -> BOOLEAN]
    /\ runs \in [Jobs -> Nat]
    /\ outcome \in [Jobs -> {"none", "ok", "error"}]

Init ==
    /\ actions = Actions
    /\ status = [i \in Items |-> "none"]
    /\ version = [i \in Items |-> 0]
    /\ due = [i \in Items |-> FALSE]
    /\ saved = [i \in Items |-> 0]
    /\ pc = [w \in Workers |-> "idle"]
    /\ batch = [w \in Workers |-> {}]
    /\ read = [w \in Workers |-> [i \in Items |-> 0]]
    /\ current = [w \in Workers |-> "none"]
    /\ result = [w \in Workers |-> FALSE]
    /\ runs = [j \in Jobs |-> 0]
    /\ outcome = [j \in Jobs |-> "none"]
-----------------------------------------------------------------------------
(* Users.                                                                    *)

\* Mutant of WriteRow: the version after the one that was given.
WriteRowNext(i, st, v) ==
    /\ status' = [status EXCEPT ![i] = st]
    /\ version' = [version EXCEPT ![i] = v + 1]

WriteRow(i, st, v) ==
    /\ status' = [status EXCEPT ![i] = st]
    /\ version' = [version EXCEPT ![i] = v]

\* finish_scheduling and the API serializer: create the row, or overwrite it
\* whatever its status is, and make it pending.  The form has checked that the
\* execution time is in the future, but its last page may be answered later.
Save(i) ==
    /\ ActionOf[i] \in actions
    /\ saved[i] < MaxVersion
    /\ saved[i] > 0 => status[i] # "none"
    /\ WriteRow(i, "pending", saved[i] + 1)
    /\ saved' = [saved EXCEPT ![i] = @ + 1]
    /\ \E late \in BOOLEAN : due' = [due EXCEPT ![i] = late]
    /\ UNCHANGED <<actions, workerVars, history>>

\* Time goes by.
ComeDue(i) ==
    /\ status[i] # "none" /\ ~ due[i]
    /\ due' = [due EXCEPT ![i] = TRUE]
    /\ UNCHANGED <<actions, status, version, saved, workerVars, history>>

Delete(i) ==
    /\ status[i] # "none"
    /\ WriteRow(i, "none", 0)
    /\ due' = [due EXCEPT ![i] = FALSE]
    /\ UNCHANGED <<actions, saved, workerVars, history>>

\* The action is deleted, and its scheduled actions with it (CASCADE).
DeleteAction(a) ==
    /\ a \in actions
    /\ actions' = actions \ {a}
    /\ status' = [i \in Items |-> IF ActionOf[i] = a THEN "none" ELSE status[i]]
    /\ version' = [i \in Items |-> IF ActionOf[i] = a THEN 0 ELSE version[i]]
    /\ due' = [i \in Items |-> due[i] /\ ActionOf[i] # a]
    /\ UNCHANGED <<saved, workerVars, history>>
-----------------------------------------------------------------------------
(* Workers.                                                                  *)

Stop(w) ==
    /\ pc' = [pc EXCEPT ![w] = "idle"]
    /\ batch' = [batch EXCEPT ![w] = {}]
    /\ read' = [read EXCEPT ![w] = [i \in Items |-> 0]]
    /\ current' = [current EXCEPT ![w] = "none"]
    /\ result' = [result EXCEPT ![w] = FALSE]

Pending(i) == status[i] = "pending" /\ due[i]

\* Mutant of Fetch: the query does not look at the status.
FetchDue(w) ==
    /\ pc[w] = "idle"
    /\ \E i \in Items : status[i] # "none" /\ due[i]
    /\ pc' = [pc EXCEPT ![w] = "next"]
    /\ batch' = [batch EXCEPT ![w] =
                    {i \in Items : status[i] # "none" /\ due[i]}]
    /\ read' = [read EXCEPT ![w] = version]
    /\ UNCHANGED <<actions, rowVars, saved, current, result, history>>

\* Mutant of Fetch: a tick with one item to execute is taken for an empty one.
FetchSeveral(w) ==
    /\ pc[w] = "idle"
    /\ \E i, j \in Items : i # j /\ Pending(i) /\ Pending(j)
    /\ pc' = [pc EXCEPT ![w] = "next"]
    /\ batch' = [batch EXCEPT ![w] = {i \in Items : Pending(i)}]
    /\ read' = [read EXCEPT ![w] =
                   [i \in Items |-> IF Pending(i) THEN version[i] ELSE 0]]
    /\ UNCHANGED <<actions, rowVars, saved, current, result, history>>

\* A tick: the loop reads all pending rows that are due before it starts.
Fetch(w) ==
    /\ pc[w] = "idle"
    /\ \E i \in Items : Pending(i)
    /\ pc' = [pc EXCEPT ![w] = "next"]
    /\ batch' = [batch EXCEPT ![w] = {i \in Items : Pending(i)}]
    /\ read' = [read EXCEPT ![w] =
                   [i \in Items |-> IF Pending(i) THEN version[i] ELSE 0]]
    /\ UNCHANGED <<actions, rowVars, saved, current, result, history>>

\* Mutant of WriteBack: the item is not saved when its execution has ended.
WriteBackOnce(w, i, st) ==
    IF st = "executing"
    THEN WriteRow(i, st, read[w][i]) /\ due' = [due EXCEPT ![i] = TRUE]
    ELSE UNCHANGED rowVars

\* s_item.save() in the worker: it writes every field as fetched, and inserts
\* the row if there is none.  A pending row that is written by a worker is due.
WriteBack(w, i, st) ==
    /\ WriteRow(i, st, read[w][i])
    /\ due' = [due EXCEPT ![i] = TRUE]

Claim(w, i) ==
    /\ pc[w] = "next"
    /\ i \in batch[w]
    /\ ActionOf[i] \in actions
    /\ WriteBack(w, i, "executing")
    /\ pc' = [pc EXCEPT ![w] = "claimed"]
    /\ batch' = [batch EXCEPT ![w] = @ \ {i}]
    /\ current' = [current EXCEPT ![w] = i]
    /\ UNCHANGED <<actions, saved, read, result, history>>

\* An insert for an action that was deleted violates a foreign key, and reading
\* the action of the item fails: nothing catches the exception, so the task
\* ends and the rest of the batch stays as it is.
Abort(w) ==
    /\ \/ pc[w] = "next" /\ \E i \in batch[w] : ActionOf[i] \notin actions
       \/ pc[w] \in {"claimed", "ran"} /\ ActionOf[current[w]] \notin actions
    /\ Stop(w)
    /\ UNCHANGED <<actions, rowVars, saved, history>>

\* What becomes of an execution: it needs nothing to go wrong while sending, and
\* get_execution_items finds the action only in the workflows that the user of
\* the item owns.
Works(j, sent) == sent /\ j \notin ByShared

\* Mutant of Answer: run_task does not tell its caller of an exception.
AnswerTrue(worked) == worked \in BOOLEAN

\* run_task returns False if anything raised an exception.
Answer(worked) == worked

Run(w) ==
    /\ pc[w] = "claimed"
    /\ ActionOf[current[w]] \in actions
    /\ LET j == <<current[w], read[w][current[w]]>> IN
       \E sent \in BOOLEAN :
          /\ sent \/ SendingFails
          /\ runs' = [runs EXCEPT ![j] = @ + 1]
          /\ outcome' = [outcome EXCEPT ![j] =
                            IF Works(j, sent) THEN "ok" ELSE "error"]
          /\ result' = [result EXCEPT ![w] = Answer(Works(j, sent))]
    /\ pc' = [pc EXCEPT ![w] = "ran"]
    /\ UNCHANGED <<actions, rowVars, saved, batch, read, current>>

NextItem(w) ==
    IF batch[w] = {}
    THEN Stop(w)
    ELSE /\ pc' = [pc EXCEPT ![w] = "next"]
         /\ current' = [current EXCEPT ![w] = "none"]
         /\ result' = [result EXCEPT ![w] = FALSE]
         /\ UNCHANGED <<batch, read>>

\* Mutant of Close: an item that has failed is tried again at the next tick.
CloseRetrying(w) ==
    /\ pc[w] = "ran"
    /\ ActionOf[current[w]] \in actions
    /\ WriteBack(w, current[w], IF result[w] THEN "done" ELSE "pending")
    /\ NextItem(w)
    /\ UNCHANGED <<actions, saved, history>>

\* The status after the execution, and on to the next item of the batch.
Close(w) ==
    /\ pc[w] = "ran"
    /\ ActionOf[current[w]] \in actions
    /\ WriteBack(w, current[w], IF result[w] THEN "done" ELSE "done_error")
    /\ NextItem(w)
    /\ UNCHANGED <<actions, saved, history>>

\* The process dies.  The task was acknowledged when it started: it is lost.
Crash(w) ==
    /\ pc[w] # "idle"
    /\ Stop(w)
    /\ UNCHANGED <<actions, rowVars, saved, history>>
-----------------------------------------------------------------------------
Advance(w) == \/ \E i \in Items : Claim(w, i)
              \/ Abort(w) \/ Run(w) \/ Close(w)

Next ==
    \/ \E i \in Items : Save(i) \/ ComeDue(i) \/ Delete(i)
    \/ \E a \in Actions : DeleteAction(a)
    \/ \E w \in Workers : Fetch(w) \/ Advance(w)

\* The same with processes that die.
CrashNext == Next \/ \E w \in Workers : Crash(w)

Spec == Init /\ [][CrashNext]_vars

\* Beat sends a tick every SCHEDULER_MINUTE_STEP minutes, so some worker fetches
\* what is due, and a worker that executes a tick goes on.  Nothing takes up what a
\* process that died was at, so the processes live here.
FairSpec == /\ Init /\ [][Next]_vars
            /\ WF_vars(\E w \in Workers : Fetch(w))
            /\ \A w \in Workers : WF_vars(Advance(w))
-----------------------------------------------------------------------------
\* What a user asked for is executed at most once, with edits, deletions and
\* dying workers: claiming writes back objects that are older than the row, and
\* only the order of the writes keeps a version from being pending again.
AtMostOnce == \A j \in Jobs : runs[j] <= 1

\* Ticks that overlap may have the same item in their batches: each worker
\* executes it at most once, also a worker that dies and comes back, because
\* what was claimed once is never pending again (scheduled_actions.py:27-43).
OncePerWorker == \A j \in Jobs : runs[j] <= Cardinality(Workers)

\* The status of a row tells what became of the version in the row, not of one
\* that was replaced while the worker executed it.
StatusIsTrue ==
    \A i \in Items :
        LET o == outcome[<<i, version[i]>>] IN
        /\ status[i] = "pending" => o = "none"
        /\ status[i] = "done" => o = "ok"
        /\ status[i] = "done_error" => o = "error"

\* A row says "executing" while a worker is at it; without crashes nothing
\* leaves it so, although an exception may end the loop in the middle.
ExecutingIsOwned ==
    \A i \in Items : status[i] = "executing" =>
        \E w \in Workers : current[w] = i /\ read[w][i] = version[i]

\* What is pending and due is executed, edited or deleted, also behind items of
\* the same batch that fail or that are deleted with their action.
PendingIsServed == \A i \in Items : Pending(i) ~> ~ Pending(i)

\* If ticks do not overlap, rows that are claimed, written back, deleted and
\* inserted again, and workers that die, amount to a book of jobs in which each
\* is executed at most once and ends as it ended (scheduled_actions.py:37-218).
BookOf == [j \in Jobs |-> IF saved[j[1]] < j[2] THEN "unasked"
                         ELSE IF outcome[j] = "none" THEN "asked"
                         ELSE outcome[j]]

Book == INSTANCE JobBook WITH book <- BookOf

KeepsTheBook == Book!Spec

\* What is to be executed is up to the users: without a save of theirs a row
\* changes its version only by being deleted.  A worker undoes neither an edit
\* nor a deletion ("can be verified, edit and deleted",
\* docs_src/Tutorial/Tasks/scheduling.rst:34).
OnlyUsersSchedule ==
    [][\A i \in Items : saved'[i] = saved[i]
           => version'[i] \in {version[i], 0}]_vars
=============================================================================
