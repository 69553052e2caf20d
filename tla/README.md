# OnTask, specified and checked

OnTask is a Django application. Instructors upload a table of data about
students into a *workflow*, write *actions* (texts with conditions on the
columns of the table), and send the results as e-mail, JSON or Canvas messages,
now or at a scheduled time. Web servers serve requests concurrently, Celery
workers execute scheduled actions and other background tasks, and what they
share is a PostgreSQL database (without transactions around requests) and a
Redis cache with sessions and locks. In the browser, scripts load forms into the
page and send them in the background.

Paths below are relative to `src/ontask/` unless they start with another
directory of the repository.

## 1. Inventory

| component | state | operations | interacts with |
|---|---|---|---|
| **Lock of a workflow** (`workflow/access.py`, `core/decorators.py`, `models/workflow.py:132-350`, `workflow/api.py`) | `Workflow.session_key`; in a session the id of its workflow; a cache lock per workflow id | `access`, `lock`, `unlock`, `unlock_workflow_by_id`, `remove_workflow_from_session` | every view of a workflow goes through it; the session middleware saves the session after the view |
| **Scheduler** (`tasks/scheduled_actions.py`, `tasks/basic.py`, `scheduler/`, `models/scheduler.py`) | rows of `ScheduledAction` with a status | beat fetches what is due, a worker claims, executes and closes items; pages and API create, edit, delete | actions; the log; whatever sends the messages |
| **Workflow table** (`workflow/views/column_*.py`, `workflow/ops.py`, `models/column.py`, `dataops/pandas/`, `dataops/sql/`) | `Column` rows with position and key property, the table in the database, counters `ncols`, `nrows` in the `Workflow` row | add, compute, clone, edit, move, delete columns; upload, override, merge, flush | conditions, views and the learner column refer to columns |
| **Conditions of an action** (`models/action.py`, `models/condition.py`, `action/views/condition.py`, `clone.py`) | formulas, cached counts of selected rows, the cached list `rows_all_false` | create, edit, clone, delete; recount when data or formulas change | the table; rows (`dataops/views/row.py`), surveys (`action/views/serve_survey.py`) and tracked clicks (`tasks/increase_track.py`) change cells and recount, the last two without the lock |
| **Dialogs that run or schedule an action** (`action/payloads.py`, `action/views/run*.py`, `scheduler/views/`) | one payload in the session | pages that fill the payload and a last one that executes or saves | the scheduler; sending |
| **Scripts of the pages** (`src/static/site/js/site.js`, `static/*/js/`) | the modal and what is in it, the options of the query builder, boxes, the table of columns, requests in flight | load and send forms, toggle, drag | views that answer with a form, a redirect or a value |
| **Upload pages** (`dataops/views/upload.py` and others) | `upload_data` in the session, a temporary table | four pages, the last one merges | the table |
| **Sending** (`action/send/`) | tracking columns, log entries, OAuth tokens | e-mail, JSON, Canvas messages in bursts | external services, the table |
| **Background tasks on the table** (`tasks/run_plugin.py`, `tasks/workflow_update_luser.py`) | cells and columns of the table, `lusers` | add the columns a plugin computes, create learners | the table, without its lock |
| **Others**: views of the table, export and import, LTI, accounts, logs, plugins, visualisation, migrations | see `PROJECT.json` | | |

### What is hard, and what makes each part correct

* **Lock.** The decision who may enter a workflow reads two tables (workflow,
  session) and writes one, with four ways out and two more levels of callers
  that unlock and store things in the session. It is correct if two users never
  work on a workflow at once, if leaving releases only one's own lock and every
  lock one holds, if refusals are justified by a lock of a live session, and if
  the cache lock comes back on every path. Hard: requests of several server
  processes between any two database accesses, sessions that expire, log out or
  get a new key, a process that dies, views that save the row they read.
* **Scheduler.** The worker fetches a batch and writes objects back much later.
  It is correct if each version of an item that a user asked for is executed at
  most once, the status of a row tells what happened to the version in it, no
  row is left "executing" and what is due is served. Hard: users edit and delete
  rows meanwhile, actions disappear, executions fail, processes die, ticks
  overlap.
* **Workflow table.** The same fact is kept several times: the `Column` rows, the
  columns in the database, `ncols`, positions, and names in formulas. It is
  correct if they agree after any sequence of requests, if a key column is
  left, if what a condition uses and a view shows are columns that are there, and
  if an operation on one column leaves the order of the others. Hard: long sequences of operations that
  each maintain every copy by hand, and errors halfway without a transaction.
* **Conditions.** Counts, and the list of rows in which no condition is true, are
  computed when needed and kept until something is thought to have changed them.
  They are correct if they are those of the data and formulas of now, and if
  storing a count never stores anything else. Hard: a count is stored
  by saving the whole condition, also by requests that take no lock; whether the
  list is forgotten depends on whether a count has changed; the filter is part
  of some counts and not of others.
* **Dialogs.** What the last page does must be what the first page showed and the
  form was filled with, although all pages hand it on through one place in the
  session, and items and actions disappear meanwhile.
* **Scripts.** The page must show what the server has. Hard: answers arrive in
  any order, after the modal was closed or the page loaded again; options and the
  clicked element are global variables; one request fails while another is on
  its way.
* **Upload pages, background tasks.** The table may have changed between the
  first page and the last, or between the start of a task and its end.

`PROJECT.json` lists the hazards one by one, at their lines, each with the
properties that would catch it or a note why none does.

## 2. Modules

| module | models | state |
|---|---|---|
| `ExclusiveAccess` | what the lock promises: at most one user inside a workflow | `inside` |
| `WorkflowLock` | the lock, step by step | the row's key, the cache lock, sessions, and per request its step, user, session and the object in memory |
| `WorkflowLockProofs` | theorems about it | |
| `Scheduler` | scheduled actions and the workers that execute them | rows, batches, and as history how often each version was executed and with what outcome |
| `JobBook` | what scheduling promises: a job is asked for, executed once, and its end stays | `book` |
| `SchedulerProofs` | theorems about it | |
| `ColumnList` | what users see of columns: a list without repetitions | `list` |
| `WorkflowTable` | columns, table, counters and references | see the module |
| `WorkflowTableProofs` | theorems about it | |
| `ColumnListProofs` | the positions implement `ColumnList` | |
| `Conditions` | filter and conditions of an action, with what is cached about them, and all that changes data or formulas | `data`, `formula`, `count`, `allFalse` (the length of the cached list), and per request without the lock what it has read |
| `ConditionsProofs` | theorems about it | |
| `Dialogs` | the pages that run or schedule an action, EXTENDS `Scheduler`: their last steps are its `Save` and executions | per tab the page and what it is about; the payload of the session |
| `DialogsProofs` | theorems about it, EXTENDS `SchedulerProofs` | |
| `BrowserPages` | the scripts, with the views that answer them | the page, the server, requests in flight |
| `BrowserPagesProofs` | theorems about it | |
| `MCWorkflowLock`, `MCScheduler`, `MCWorkflowTable`, `MCConditions`, `MCDialogs`, `MCBrowserPages` | instances for TLC | |

### WorkflowLock and the code

Each action is one access to the database or to the cache lock, so any number of
requests interleave there. A request moves from `"idle"` to `"access"`
(`Begin`: the decorator `get_workflow`, with the user of the session or of the
token), by `"switch"` and `"switching"` if the session remembers another
workflow (`access.py:47-49`: `UnlockRead`, `UnlockWrite`, `UnlockNoRow`), to
`"deciding"` (`AccessRead`: the cache lock is taken and the row read) and then,
in `Decide`, one of: `KeepLock` (the row has this session's key), `LockWithKey`
(nobody, or an expired or vanished session, or the same user in another
browser), `LockWithNewKey` (a session whose key has no row: it gets a new one),
`ExtendHolder` (a request without a session that meets an expired lock), or
`Refuse`. `StoreInSession` is the decorator's part after `access`; then the view
runs (`ViewSave` for all views that save the row, `ViewShare`, `ViewUnlock`,
`ViewDelete`), and `Finish` is the middleware that saves the session. The home
page is `BeginHome` and the same unlocking steps. `Create` is one step: it makes
a row and stores it in the session, and the lock is taken by the next request.
Session rows have a key, a user and the id of the workflow; they live, expire
and are deleted by logging out.

The cache lock is named after the id in the request. When a session has no
workflow yet, and the URL names none, the code takes a lock of that odd name
for a moment and redirects to the home page; that is not modelled.

What clients do is a constant, `Habits`, because what the lock promises depends
on it: with `{}`, `"delete"`, `"share"` and `"crash"`, clients are browsers that
send one request at a time and pass by the home page between workflows. Each of
the other habits ("tabs", "direct", "api", ...) breaks some property; section 4
says which.

### Scheduler and the code

`Fetch` is the query of the task (`scheduled_actions.py:24-37`) that keeps all
pending due rows as objects; `Claim` takes the next object, sets it to
executing and saves it whole (41-43), which overwrites or re-inserts the row;
`Run` is `run_task` with its outcome; `Close` saves the object again (205-218).
`Abort` is an exception that leaves the loop. `Save`, `Delete`, `DeleteAction`
are users, `ComeDue` is time. `Crash` is a dying process: Celery acknowledges a
task when it starts, so the tick is not delivered again. `Spec` has crashes
(`CrashNext`), `FairSpec` has none. `SendingFails` says whether sending may raise
an exception. A version stands for what the user asked for at a save of the row.

`Works` has a divergence between two queries: users with whom a workflow is
shared may schedule (`scheduler/views/crud.py:197-200`) but the executor finds
only actions of workflows the user owns (`tasks/basic.py:77-79`), so such items
end as errors. Runs include such items.

### WorkflowTable and the code

An action is a whole request: the lock keeps other users out, and one browser
sends one request after the other. Variables are sets of names: `table` (the
database), `rows` (the `Column` rows) and their `pos` and `key`, the counter
`ncols`, and who refers to columns (`cond`, `views` with the columns `vcols` they
show and those `vform` that their formulas name, `luser`).
`Reposition` is `reposition_columns`. Conversions in forms (a position out of
range becomes the last one) are guards on the inputs. An operation that fails in
the middle leaves what it wrote, for instance `AlterTable` in `ColumnAdd`, or
the second disjunct of `RandomColumnAdd`. `Vanish` is what the database does
when the learner column is deleted: the foreign key is declared with CASCADE.
The request that would unset the learner column is unreachable: its URL has no
column, and `get_column` sends requests without one home
(`core/decorators.py:114-124`), so there is no such action.

An edit of a column is one step: a failure between its `ALTER TABLE` and the save
of its row (`column_crud.py:533-544`) is not modelled. A view is saved and deleted;
copying one, which takes columns and formula as they are, is not modelled.

`habits` says which kinds of requests happen that are known to break properties:
computed columns (`"formula"`, `"random"`), a database that refuses `ALTER TABLE`
(`"altfail"`), and merges that take the key property from columns (`"unkey"`: the
user unticks it in the upload pages, and a merge by the API does so by itself for
columns whose values are not unique in the uploaded data, `merge.py:270-274`). A
behaviour has one set of habits from beginning to end, chosen from `HabitSets`;
where a property does not hold with a habit, its own premise says so. What each
breaks alone, by TLC:

| habit | the conclusion that does not hold |
|---|---|
| `"formula"`, `"random"` | of `Consistent`, `ProperlyNumbered`, and `IsColumnList` |
| `"altfail"` | of `Consistent` |
| `"unkey"` | of `KeyColumnRemains` |

`NothingDangles`, `TableColumnsKnown` and `OnlyDeletionsDangle` have no premise.

### Conditions and the code

A row is one value, which stands for all its cells, and a formula the set of
values that satisfy it: that is all that counting and filtering can tell apart.
Rows have no order, because the database numbers them anew in every query
(`ROW_NUMBER() OVER ()`, `row_queries.py:224-228`) and an `UPDATE` moves them. So
of `rows_all_false` the model keeps the number of rows, which the pages of the
action report; the positions, which the preview uses, are not modelled (section
4). `Fresh` and `RecountAll` are `Action.update_n_rows_selected`, `Reset` is the
line of `Condition.update_n_rows_selected` that forgets `rows_all_false` when a
count changes, `RowsAllFalse` the query that computes the list, and `EditPage`
every page that asks for it. Which recount happens where is the point of the
module: `FilterSave` recounts all conditions, `ConditionSave` only its own and
without the filter, `RowCreate`, `RowUpdate` and `ColumnDelete` none, because
their recount is a lazy `map` that nobody reads, and `RowDelete` and `Replace`
(merges, and PUT of the API) all of them. `ReplaceUncounted` is a merge that
raises in `_update_is_key_field` (`merge.py:165-191`) after the merged table was
stored, which `MergeWithoutKey` is in `WorkflowTable`: nothing is counted then.

Requests of the instructor who holds the lock are one step. Answers to surveys
and tracked clicks (`Learners`) take no lock, so they are four steps: the row
(`WriteCell`, which changes every row with the learner's address), reading the
conditions (`ReadConditions`), counting and saving each of them (`CountOne`), and,
for a survey, saving the `Action` object that was read at the start (`Finish`). A
click counts only conditions that use its column (`increase_track.py:95`):
`touched`. Its other conditions select the rows they did, which is all the model
knows of columns. A count and the save of it are one step, where the code may be
interrupted in between.

`HabitSets` says which kinds of requests happen together; a behaviour has one of
them from beginning to end. `"overlap"` lets answers and clicks run while other
requests are served. What is outside the premises of the properties, and does not
hold there (by TLC, with the premise dropped):

| habit | `CountsCurrent` | `AllFalseCurrent` |
|---|---|---|
| `"rows"`, `"columns"`, `"foreign"`, `"lostkey"` | no | no |
| `"bulk"`, `"answers"` | yes | no |
| `"clicks"`, no filter | yes | yes; not with `"duplicates"` (needs 4 values) |
| `"clicks"`, a filter | of the filter | no |

### Dialogs and the code

A tab is at a list (`"index"`), at the form of a dialog, at the page that
excludes recipients (`"filter"`), or elsewhere. `Carried` is
`get_or_set_action_info`: the payload of the session if there is one, whatever
it is about, with the id of an edited item written into it (`crud.py:217`).
`Execute` is the last page of running an action, `FinishScheduling` that of
scheduling, which ends in `Save` of `Scheduler`. `mistakes` is the history: what
a tab showed and what its last page did instead. `Careful` users open a dialog
from a list, one at a time, and may leave it by any link.

### BrowserPages and the code

Three kinds of pages: conditions (forms in the modal with a query builder),
boxes (enabling plugins, actions to learners and the like), and columns (rows
that are dragged). A click sends a request into a slot; `Serve` is what the view
does and answers, `Fail` an error or time-out before or after it, `Arrive` the
handler of the answer. `qbuilder_options["rules"]` is `rules`; `elem` is the
implicit global of `toggleCheckBox`. `Dragged` and `Details` are what the
RowReorder extension of DataTables does and tells, and `Build` the query
builder; both are external. A `hasty` user clicks while a request is in flight.

## 3. Runs

| run | instance | checks |
|---|---|---|
| `lock_calm` | 2 users, 2 workflows shared with both, 3 session keys, 2 requests; deletion, sharing, crashes | `TypeOK`, `MutualExclusion`, `SessionHoldsItsLock`, `RefusalIsCurrent`, `LockIsKept`, and that the lock implements `ExclusiveAccess` (`KeepsPromise`) |
| `lock_all` | the same with 2 keys and all careless habits | `CacheLockOwned`: every path gives the cache lock back; `NoWaitingInCircles` |
| `lock_live` | bookmarks and deletions, with fairness | `NoLeakedLock`, `RequestAnswered` |
| `lock_direct` | a bookmark from one workflow to another | violates `MutualExclusion`: finding |
| `sched_live` | 2 workers, 2 items with different actions, no crashes, with fairness | `ExecutingIsOwned`, `PendingIsServed`; with ticks that overlap, `OncePerWorker` |
| `sched_stale` | 1 worker, 2 versions, nothing fails | violates `OnlyUsersSchedule`: finding |
| `dialogs` | 1 careful tab, 2 items, 2 actions, one for Canvas, 1 worker with crashes and failures | of the composition: `TypeOK`, `AtMostOnce`, `StatusIsTrue` of `Scheduler`, that rows and worker implement `JobBook` (`KeepsTheBook`), and `DialogTypes`, `DoesWhatItShows` |
| `table` | 3 names, a condition, a view, each habit alone and none | `TypeOK`, `Consistent`, `ProperlyNumbered`, `KeyColumnRemains`, `NothingDangles`, `TableColumnsKnown`, that positions implement `ColumnList` (`IsColumnList`), and `OnlyDeletionsDangle` |
| `table_flush` | 2 names | violates `WorkflowRemains`: finding |
| `cond` | 3 values, up to 2 rows, a filter and 2 conditions, one learner at a time, each habit alone and none, and `"duplicates"` with clicks and with answers | `TypeOK`, `CountsCurrent`, `AllFalseCurrent` |
| `cond_overlap` | 2 values, up to 2 rows, a learner who is served while the instructor is | violates `OnlyHolderEdits`: finding |
| `browser` | 2 conditions, formulas and boxes, 3 columns, 2 requests in flight, careful and hasty users, with fairness | `TypeOK`, `RulesAreOfTheForm`, `BoxesAreTrue`, `DragIsKept`, `EmptyModalWaits`, `BlankModalEnds` |

**Why the bounds are enough to be interesting.** Two users and two requests are
what exclusion is about, and two workflows what switching is about; the third
key lets a user log out and in, or get a new key, while the old key is still in
a row. For the scheduler, two items give a batch with an item behind another,
and two versions an edit during execution; with `MaxVersion = 2` every save of a
row but the first is an edit. Three columns let one move past
another or two while the rest stays, in both directions; `MaxUsed` bounds how many
columns the formula of a view names, and one is enough to be renamed or deleted.
For conditions, rows are told apart by whether they are in the filter and in a
condition, so that counts with and without the filter can be equal by accident:
that takes a value in both, one in the condition only and one in the filter only.
Two rows are enough for it: every premise of the two properties can be seen to be
needed with them (section 2), but for `"duplicates"`, which takes a fourth value.
In a table of three columns a drag goes one up, two
up, one down and two down, the cases that `row_reordered` tells apart; the
safety properties of `browser` also hold with four columns. The theorems below
remove these bounds for the safety properties they cover. `MaxDrift` bounds how many columns `ncols`
misses, which would otherwise make positions unbounded. Symmetry is used in
safety runs only, over model values that no definition distinguishes (users
together with the workflows they own, values, rows, conditions that are no filter).

**Deadlock** is not checked: users may do nothing for ever, keys and versions
run out, and deleted workflows stay deleted. In `browser` a page may be left as
it is.

**Fairness.** `WorkflowLock!FairSpec`: a server process that serves a request
goes on (weak fairness of `Advance`), and one that waits for a cache lock gets
it if the lock is free again and again (strong fairness of the two actions that
acquire; Redis locks are polled). Nothing is assumed of clients.
`Scheduler!FairSpec`: beat sends a tick every few minutes, so some worker
fetches (weak fairness), and a worker that executes a tick goes on.
`PendingIsServed` and `RequestAnswered` are checked without crashes: a dead
process keeps the cache lock (it has no timeout), and a dead worker's item stays
"executing"; the code has no recovery for either. `BrowserPages!FairSpec`: a
request is answered or the browser gives up on it, and its handler is then
called; nothing is assumed of the user.

## 4. Findings

With a run that shows them; the quotes that the code disagrees with are in
`PROJECT.json`.

* `lock_direct`: who switches workflows by URL may unlock a workflow that
  somebody else has locked meanwhile, and a third user gets in.
* `sched_stale`: the worker undoes edits and deletions made after its fetch.
* `table_flush`: flushing the data, or deleting the learner column, deletes the
  whole workflow.
* `cond_overlap`: an answer to a survey, or a tracked click, that overlaps with an
  edit of a condition undoes the edit, and inserts a condition again that was
  deleted (`models/condition.py:116`).

Seen while modelling, and the reason why a property has the condition it has;
each appears as soon as the condition is dropped:

* Two ticks of the scheduler that overlap execute an item twice (`AtMostOnce` and
  `KeepsTheBook` are for one worker). It does not get worse than once for each
  worker (`OncePerWorker`).
* Each careless habit of clients breaks the lock alone: with any one of `"tabs"`,
  `"multilogin"`, `"direct"`, `"api"`, `"apiunlock"` and `"slow"` added to those
  of `lock_calm`, a live session loses its lock (`LockIsKept`) and two users get
  into one workflow (`MutualExclusion`).
* Adding a formula or random column does not count it in `ncols`
  (`column_crud.py:313`), although `dataops/pandas/database.py:219` asserts that
  it is the number of columns. A random column keeps the position 0 of a form
  that says 0 stands for the end.
* `unkey`: a merge that takes the key property from the last key column, as the
  user asked or as the API decides, leaves a table without a key.
* Deleting a column leaves it in the formulas of views (`workflow/ops.py:79-83`
  looks at `view.columns` only), whose rows can then not be counted. Renaming does
  reach them (`dataframe.py:379-385`). That is why `NothingDangles` is about the
  columns of conditions and those that views show, and `OnlyDeletionsDangle` says
  what can be said of formulas.
* A merge whose result lacks a column of the uploaded data raises after the table
  was stored and before conditions are counted (`merge.py:319-325`): `"lostkey"`.
* The numbers in `rows_all_false` are positions in the whole table, but the preview
  looks them up among the rows in the filter (`action/views/preview.py:84,186-200`,
  `dataframe.py:295-317`), and the database may number rows differently after an
  `UPDATE`. With a filter, or after a click, "next with anomaly" may show a row in
  which some condition is true. Only the number of rows is modelled.
* The recount after a row is created or edited, and after a column is deleted, is
  a `map` that is never evaluated (`dataops/views/row.py:75,165`,
  `workflow/ops.py:77`): counts stay as they were (`CountsCurrent` excludes the
  habits `"rows"` and `"columns"`). Deleting a row in which all conditions are
  false changes no count, and the list of such rows stays (`AllFalseCurrent`
  excludes `"bulk"`).
* The form of a condition counts it without the filter (`condition.py:358`), the
  recount after a click with it: the two can be equal by accident, and then the
  list of rows with all conditions false stays that of before
  (`models/condition.py:108`). `AllFalseCurrent` therefore excludes actions with a
  filter when links are clicked.
* A click recounts the conditions that use its column (`increase_track.py:95`). If
  the filter uses it, the other conditions keep a count with the filter of before:
  `CountsCurrent` is then about the filter alone.
* The API changes and deletes a workflow without `access` (`workflow/api.py:58-99`),
  so whoever holds its lock is not asked. It is not modelled.
* Two tabs share one payload: a dialog may execute the action of the other one
  (`DoesWhatItShows` is for users who keep to one dialog). A Canvas action without
  the page of recipients fails, or sends the text of an earlier visit.
* A user who closes the modal before its form arrives finds the formula of that
  form in the next new condition (`site.js:78`, `240`); two boxes that are clicked
  one after the other may both be shown wrongly (`site.js:182`).
* Items scheduled by a user with whom the workflow is shared always end as
  errors (`tasks/basic.py:77`).

## 5. Proofs

All theorems hold for every value of the constants that satisfies the named
assumptions of the modules.

* `WorkflowLockProofs`. `TypeCorrect` needs one addition to the type invariant
  (`Located`: a request that is about to write knows its row) and holds for all
  habits. `CacheLockSafety` assumes only that no process is killed: `Owns` says
  that a cache lock belongs to a request at a step that will release it, and
  there is a lemma for each way the lock changes hands. `LockSafety`,
  `SessionSafety` and `RefusalSafety` assume `Calm`
  (clients as in `lock_calm`), which cannot be weakened by any one habit (section
  4). `MutualExclusion` alone is not inductive: that
  nobody else works on a workflow follows from who holds its key, so `IInv` adds
  that a session is of one user (`Sessions`), that a session has one request at
  a time (`Serial`), that what a request and its session remember agrees with
  the row (`Remembers`), and who holds the cache lock. `LeakSafety` adds
  `Remembered` (a key in a row is that of a session that remembers the workflow,
  or of the request at work). `KeptSafety` is an action property from the same
  invariant: of all steps only those that write the row of a workflow matter, and
  each is either of a request of the holder's session or finds that the holder is
  not live; for a view that saves the row it read, `Remembers` says that the row
  is still the same. `NoCircles` needs `CacheLockOwned` only: who has a cache lock
  is at a step that asks for none. `LockKeepsPromise` is the refinement:
  `InitRefines` and `StepRefines`, by the cases of `Next`.
* `SchedulerProofs`. `SchedulerTypes` holds for any number of workers.
  `OnceSafety` and `StatusSafety` assume one worker at a time; `IInv` says that
  what a worker has fetched and not executed has never been executed
  (`BatchFresh`), that the item at hand is not pending in the same version
  (`AtHand`), and the same of pending rows (`PendingFresh`). `OwnedSafety` is for
  any number of workers and without crashes. `OncePerWorkerSafety` is for any
  finite number of workers (`IsFiniteSet(Workers)`, the only assumption), with
  crashes. A version may be in several batches, so nothing says that it is fresh
  in a batch; what is bounded is the number of its executions plus the number of
  workers that may still execute it (`Claimants`, `Shared`). A fetch adds a
  claimant and is harmless because what is pending has not been executed
  (`PendingFresh`), which stays true because what is claimed is no longer pending
  in that version (`ClaimedNotPending`); an execution takes one claimant away for
  the one it adds to the count, and a crash only takes claimants away. `SchedulerKeepsTheBook` is the refinement of
  `JobBook` for one worker: a save asks, `Run` executes, and all other steps, the
  ones that put an old version back into a row included, leave the book as it is.
* `DialogsProofs`. `DialogsUseScheduler` shows that every step of the composition
  is a step of `Scheduler` or leaves its variables alone, so `AtMostOnce` and
  `StatusIsTrue` carry over (`DialogsOnce`, `DialogsStatus`) for any number of
  tabs, and so does the refinement of `JobBook` (`DialogsKeepTheBook`). `DialogsDoWhatTheyShow` assumes `Careful`; its invariant says that at most
  one tab is not at a list (`OneDialog`) and that the payload is the one that the
  page of this tab needs (`PayloadServes`).
* `ConditionsProofs`. `ConditionTypes` holds for all habits. The other two are
  proved of all behaviours, too, but say nothing of those that their premises
  exclude, overlapping ones among them. What a request has read is still there
  when it writes (`Remembers`), as long as requests do not overlap. `CountSafety`
  adds that a condition that is counted while others still wait, or is left out,
  is right for the data of now (`Counted`). `ListSafety` needs that the table
  before a click differs from that after it in one row only (`ClickCounts`), and
  that equal counts then mean equal sets of rows (`SameCountSameRows`); without
  that the cached number could not be trusted, and it is here that the filter,
  and several rows that change at once, break it.
* `WorkflowTableProofs`. `TableTypes`, `ColumnsKnown`, `ReferenceSafety` and
  `ViewFormulaSafety` are for all habits. The premises of the other properties are
  those that the table in section 2 shows to be needed, and the theorems are of
  all behaviours: `habits` never changes (`HabitsStay`), so where a premise holds
  it has held from the start. `KeySafety` needs that a workflow without data has
  no columns. `AllCounted` (no column escapes `ncols`: none is computed or random)
  is the premise of `NumberingSafety`, and with `AllStored` (every column with a
  row gets into the table) of `ConsistencySafety`. `Counted` and
  `Numbered` are only inductive together (`ColumnsInv`): a position is
  made from `ncols`, and `ncols` numbers the rows only if positions have no
  gaps. `NumberedBy` says that positions number a set of columns, and one lemma
  for each way to change them (`InsertNumbers`, `DeleteNumbers`, `MoveNumbers`,
  `AppendNumbers`) that `Reposition` keeps it so; `Counting` does the same for
  the number of columns.
* `ColumnListProofs`. `PositionsAreAList`, which claims nothing without `AllCounted`: `ListOf` is the sequence
  that positions describe, `InsertAtProperties` and `RemoveAtProperties` say what
  the operators of the abstract specification do element by element, and
  `ListInsert`, `ListRemove`, `ListMove`, `ListAppend` that `Reposition` does the
  same to positions. `ListStep` then goes through the requests.
* `BrowserPagesProofs`. `PagesTyped` holds for all users and any number of
  requests in flight. So does `EmptyModalsWait`: no other invariant is needed than
  that of types, which says what a request and its answer may be; each step is then shown to leave such a request in flight or to
  end the emptiness. `RulesAreTheirs`, `BoxesAreTheServers` and `DragsAreKept` are about users who wait for answers
  (`hasty` is false) and share one invariant, `Patient`: there is one request at
  a time (`Alone`), without a form in the modal there are no rules and a form
  that is shown waits for the user (`ModalTrue`), only the box that is being
  toggled may differ from the server (`BoxTrue`), and only a move that is not
  done may separate the two orders (`ListTrue`). For the drag, `DraggedAt` says
  place by place what a drag does, `ChangedPlaces` that the places that change
  are an interval, and `DragIsMove` that the pair of names taken from its ends
  moves the column on the server as the user did, whatever the direction.

Only model-checked: liveness under fairness (`RequestAnswered`, `PendingIsServed`,
`BlankModalEnds`). It needs `ENABLED` of the fair actions, which the provers
cannot treat. The safety half of each is proved: `NoWaitingInCircles` and
`CacheLockOwned` for the first, `ExecutingIsOwned` for the second,
`EmptyModalWaits` for the third.

## 6. Not modelled, and why

* **Upload pages.** Their effect on the columns is in `WorkflowTable`, as one
  request. What they keep in the session is compared with the table only by name
  and only in the last step; no doc says what a user may expect who changes the
  table in between. The values of a merge are what pandas makes of them.
* **Plugins and the update of learners** run in Celery without the lock and save
  the `Workflow` object they started with: rows, table and counter need not agree
  when a request comes in between, so there is no property to check. Tracked
  clicks and surveys, which also take no lock, are in `Conditions`.
* **Details of modelled parts.** Of the exceptions that end a batch of the
  scheduler only that of a deleted action is a step; others (a payload with a wrong
  field, raised under `DEBUG`, `action/payloads.py:44-58`) would leave the row
  "executing". The PUT of the scheduler's API saves the row twice
  (`scheduler/serializers.py:70,169`), which is one save here. In the browser, the
  answer to an unchanged form (`action/views/condition.py:44-45`), which only
  closes the modal, and a server that goes on after the page was loaded again, are
  left out.
* **Sending** is one step of `Scheduler`: the loop over the messages has no state
  but its position, and what a mail server does is not known.
* **Evaluation of texts and formulas**, export and import, LTI and accounts,
  logs, plugins and connections as lists of settings, visualisation, migrations:
  pure functions, or one row each that nothing else interferes with.
* Most JavaScript of the repository is third-party code (moment, summernote,
  select2, the administration site, underscore), in several copies. What is
  OnTask's own are `site.js` and `static/*/js/`, about a thousand lines, of which
  `BrowserPages` covers those with state. They stand beside a Python program of
  thirty thousand lines, which is what the other modules are about.
