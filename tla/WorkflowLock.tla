---------------------------- MODULE WorkflowLock ----------------------------
(***************************************************************************)
(* The lock of a workflow: ontask/workflow/access.py (access and the        *)
(* functions that store the workflow in the session), the lock, unlock and  *)
(* unlock_workflow_by_id methods of ontask/models/workflow.py, the home     *)
(* page, log in and log out.                                                *)
(*                                                                          *)
(* A request is executed by a server process in several database accesses,  *)
(* and each of them is an action here.  cache.lock('ONTASK_WORKFLOW_id') is *)
(* the variable mutex: it covers the decision of access() and the unlock of *)
(* a workflow by its id, but not what a view does afterwards.  A workflow   *)
(* row is abstracted to the session key it stores (lockKey); Workflow.save  *)
(* writes the key as the object in memory remembers it (rsnap), so a view   *)
(* that saves writes back what it read.                                     *)
(***************************************************************************)
EXTENDS FiniteSets, Naturals

CONSTANTS Users, Workflows,
          Keys,       \* session keys; a key no row refers to is handed out anew
          Requests,   \* server processes
          Owner,      \* [Workflows -> Users]: ids are not used twice
          Shared,     \* [Workflows -> SUBSET Users]: sharing at the start
          None,       \* the empty key, user, workflow or request
          Habits      \* what clients are taken to do, see AllHabits

(***************************************************************************)
(* The model can be restricted to the clients that a property is about:     *)
(*   "tabs"       two requests of one session are served at the same time   *)
(*   "multilogin" a user has several sessions (two browsers)                *)
(*   "direct"     a request names another workflow than the session's       *)
(*                without passing by the home page (a bookmark)             *)
(*   "api"        requests with basic or token authentication, no session   *)
(*   "apiunlock"  the API lock end point is called to unlock                *)
(*   "delete"     a workflow is deleted                                     *)
(*   "share"      users are added to and removed from those who share       *)
(*   "slow"       a session expires while one of its requests is served     *)
(*   "crash"      a server process dies in the middle of a request          *)
(***************************************************************************)
AllHabits == {"tabs", "multilogin", "direct", "api", "apiunlock", "delete",
              "share", "slow", "crash"}

ASSUME LockAssumption ==
    /\ Habits \subseteq AllHabits
    /\ Owner \in [Workflows -> Users]
    /\ Shared \in [Workflows -> SUBSET Users]
    /\ None \notin Users \cup Workflows \cup Keys \cup Requests

VARIABLES
    lockKey,   \* Workflow.session_key, None when it is ''
    rows,      \* the workflows that have a row in the database
    shared,    \* Workflow.shared
    mutex,     \* per workflow, the request that holds the cache lock
    sstate,    \* per key: "none" (no Session row), "live", "expired"
    sholder,   \* the user whose browser or program holds the cookie
    sauth,     \* '_auth_user_id' in the session
    ssid,      \* 'ontask_workflow_id' in the session
    pc, ruser, rkey, rwid,  \* per request: step, user, session key, workflow
    rsid,      \* 'ontask_workflow_id' in the request's copy of the session
    rsnap      \* session_key in the Workflow object of the request

sessVars == <<sstate, sholder, sauth, ssid>>
reqVars == <<pc, ruser, rkey, rwid, rsid, rsnap>>
vars == <<lockKey, rows, shared, mutex, sessVars, reqVars>>

Steps == {"idle", "switch", "switching", "access", "deciding", "granted",
          "view", "refused", "home", "homing"}

TypeOK ==
    /\ lockKey \in [Workflows -> Keys \cup {None}]
    /\ rows \subseteq Workflows
    /\ shared \in [Workflows -> SUBSET Users]
    /\ mutex \in [Workflows -> Requests \cup {None}]
    /\ sstate \in [Keys -> {"none", "live", "expired"}]
    /\ sholder \in [Keys -> Users \cup {None}]
    /\ sauth \in [Keys -> Users \cup {None}]
    /\ ssid \in [Keys -> Workflows \cup {None}]
    /\ pc \in [Requests -> Steps]
    /\ ruser \in [Requests -> Users \cup {None}]
    /\ rkey \in [Requests -> Keys \cup {None}]
    /\ rwid \in [Requests -> Workflows \cup {None}]
    /\ rsid \in [Requests -> Workflows \cup {None}]
    /\ rsnap \in [Requests -> Keys \cup {None}]

Init ==
    /\ lockKey = [w \in Workflows |-> None]
    /\ rows = Workflows
    /\ shared = Shared
    /\ mutex = [w \in Workflows |-> None]
    /\ sstate = [k \in Keys |-> "none"]
    /\ sholder = [k \in Keys |-> None]
    /\ sauth = [k \in Keys |-> None]
    /\ ssid = [k \in Keys |-> None]
    /\ pc = [r \in Requests |-> "idle"]
    /\ ruser = [r \in Requests |-> None]
    /\ rkey = [r \in Requests |-> None]
    /\ rwid = [r \in Requests |-> None]
    /\ rsid = [r \in Requests |-> None]
    /\ rsnap = [r \in Requests |-> None]
-----------------------------------------------------------------------------
(* Sessions.  Keys are random in the program: a key may stand for a new      *)
(* session once nothing remembers the old one.                               *)

Fresh(k) ==
    /\ sstate[k] # "live"
    /\ \A w \in Workflows : lockKey[w] # k
    /\ \A r \in Requests : rkey[r] # k /\ rsnap[r] # k

Serving(k) == {r \in Requests : pc[r] # "idle" /\ rkey[r] = k}

Login(u, k) ==
    /\ Fresh(k)
    /\ "multilogin" \notin Habits =>
           \A j \in Keys : sholder[j] = u => sstate[j] # "live"
    /\ sstate' = [sstate EXCEPT ![k] = "live"]
    /\ sholder' = [sholder EXCEPT ![k] = u]
    /\ sauth' = [sauth EXCEPT ![k] = u]
    /\ ssid' = [ssid EXCEPT ![k] = None]
    /\ UNCHANGED <<lockKey, rows, shared, mutex, reqVars>>

\* django.contrib.auth.logout flushes the session: its row is deleted.
Logout(k) ==
    /\ sstate[k] = "live" /\ sauth[k] # None
    /\ "tabs" \notin Habits => Serving(k) = {}
    /\ sstate' = [sstate EXCEPT ![k] = "none"]
    /\ sholder' = [sholder EXCEPT ![k] = None]
    /\ sauth' = [sauth EXCEPT ![k] = None]
    /\ ssid' = [ssid EXCEPT ![k] = None]
    /\ UNCHANGED <<lockKey, rows, shared, mutex, reqVars>>

\* SESSION_COOKIE_AGE went by without a request of the session.
Expire(k) ==
    /\ sstate[k] = "live"
    /\ "slow" \notin Habits => Serving(k) = {}
    /\ sstate' = [sstate EXCEPT ![k] = "expired"]
    /\ UNCHANGED <<lockKey, rows, shared, mutex, sholder, sauth, ssid, reqVars>>
-----------------------------------------------------------------------------
(* A request.                                                                *)

\* Back to "idle"; a slot that serves nothing remembers nothing.
Forget(r) ==
    /\ pc' = [pc EXCEPT ![r] = "idle"]
    /\ ruser' = [ruser EXCEPT ![r] = None]
    /\ rkey' = [rkey EXCEPT ![r] = None]
    /\ rwid' = [rwid EXCEPT ![r] = None]
    /\ rsid' = [rsid EXCEPT ![r] = None]
    /\ rsnap' = [rsnap EXCEPT ![r] = None]

Goto(r, step) ==
    /\ pc' = [pc EXCEPT ![r] = step]
    /\ UNCHANGED <<ruser, rkey, rwid, rsid, rsnap>>

\* A browser sends the key of its session; a program with a token may send
\* none, or the key of a session that an earlier answer gave it.
MaySend(u, k) ==
    \/ /\ k \in Keys /\ sstate[k] = "live" /\ sholder[k] = u
       /\ sauth[k] = u \/ "api" \in Habits
       /\ "tabs" \notin Habits => Serving(k) = {}
    \/ k = None /\ "api" \in Habits

SidOf(k) == IF k = None THEN None ELSE ssid[k]

\* A view decorated with get_workflow is called for workflow w: access() looks
\* at the workflow of the session first.
Begin(r, u, k, w) ==
    /\ pc[r] = "idle" /\ MaySend(u, k)
    /\ "direct" \notin Habits => SidOf(k) \in {w, None}
    /\ pc' = [pc EXCEPT ![r] =
                 IF SidOf(k) \in {w, None} THEN "access" ELSE "switch"]
    /\ ruser' = [ruser EXCEPT ![r] = u]
    /\ rkey' = [rkey EXCEPT ![r] = k]
    /\ rwid' = [rwid EXCEPT ![r] = w]
    /\ rsid' = [rsid EXCEPT ![r] = SidOf(k)]
    /\ UNCHANGED <<lockKey, rows, shared, mutex, sessVars, rsnap>>

\* The home page: remove_workflow_from_session.
BeginHome(r, u, k) ==
    /\ pc[r] = "idle" /\ k # None /\ MaySend(u, k) /\ sauth[k] = u
    /\ ssid[k] # None
    /\ pc' = [pc EXCEPT ![r] = "home"]
    /\ ruser' = [ruser EXCEPT ![r] = u]
    /\ rkey' = [rkey EXCEPT ![r] = k]
    /\ rsid' = [rsid EXCEPT ![r] = ssid[k]]
    /\ UNCHANGED <<lockKey, rows, shared, mutex, sessVars, rwid, rsnap>>

\* Mutants of the two below: no cache lock, and a cache lock that is kept.
AcquireNothing(r, w) == r \in Requests /\ w \in Workflows /\ UNCHANGED mutex
ReleaseNothing(w) == w \in Workflows /\ UNCHANGED mutex
ReleaseToNobody(w) == mutex' = [mutex EXCEPT ![w] = "nobody"]

Acquire(r, w) ==
    /\ mutex[w] = None
    /\ mutex' = [mutex EXCEPT ![w] = r]

Release(w) == mutex' = [mutex EXCEPT ![w] = None]

\* Mutant of SaveSession: the workflow of the session is not stored.
SaveExpiryOnly(k, sid) ==
    /\ sstate' = [sstate EXCEPT ![k] = "live"]
    /\ UNCHANGED <<ssid, sholder, sauth>>

\* request.session.save(): the whole session is written and its expiry date
\* moved; it fails when the row is gone.
SaveSession(k, sid) ==
    /\ sstate' = [sstate EXCEPT ![k] = "live"]
    /\ ssid' = [ssid EXCEPT ![k] = sid]
    /\ UNCHANGED <<sholder, sauth>>

CanSave(k) == k # None /\ sstate[k] # "none"

\* unlock_workflow_by_id, called with the workflow of the session by access()
\* and by the home page: read the row under the cache lock, then save it with
\* an empty key.  Neither looks at who holds the lock.
UnlockRead(r) ==
    /\ pc[r] \in {"switch", "home"}
    /\ rsid[r] \in rows
    /\ Acquire(r, rsid[r])
    /\ Goto(r, IF pc[r] = "switch" THEN "switching" ELSE "homing")
    /\ UNCHANGED <<lockKey, rows, shared, sessVars>>

\* Mutant of EndHome: the session still remembers the workflow it has left.
EndHomeRemembers(r) ==
    /\ IF CanSave(rkey[r])
       THEN SaveSession(rkey[r], rsid[r]) ELSE UNCHANGED sessVars
    /\ Forget(r)

EndHome(r) ==
    /\ IF CanSave(rkey[r])
       THEN SaveSession(rkey[r], None) ELSE UNCHANGED sessVars
    /\ Forget(r)

UnlockNoRow(r) ==
    /\ pc[r] \in {"switch", "home"}
    /\ rsid[r] \notin rows
    /\ mutex[rsid[r]] = None
    /\ IF pc[r] = "switch"
       THEN Goto(r, "access") /\ UNCHANGED sessVars
       ELSE EndHome(r)
    /\ UNCHANGED <<lockKey, rows, shared, mutex>>

\* Mutant of UnlockWrite: who switches keeps the first cache lock on the way to
\* the second one.
UnlockWriteHolding(r) ==
    /\ pc[r] \in {"switching", "homing"}
    /\ lockKey' = [lockKey EXCEPT ![rsid[r]] = None]
    /\ rows' = rows \cup {rsid[r]}
    /\ UNCHANGED shared
    /\ IF pc[r] = "switching"
       THEN Goto(r, "access") /\ UNCHANGED <<mutex, sessVars>>
       ELSE Release(rsid[r]) /\ EndHome(r)

UnlockWrite(r) ==
    /\ pc[r] \in {"switching", "homing"}
    /\ lockKey' = [lockKey EXCEPT ![rsid[r]] = None]
    /\ rows' = rows \cup {rsid[r]}
    /\ Release(rsid[r])
    /\ UNCHANGED shared
    /\ IF pc[r] = "switching"
       THEN Goto(r, "access") /\ UNCHANGED sessVars
       ELSE EndHome(r)

CanOpen(u, w) == u = Owner[w] \/ u \in shared[w]

\* Step 1 of access(): the row, if there is one and the user may see it.
AccessRead(r) ==
    /\ pc[r] = "access"
    /\ IF rwid[r] \in rows /\ CanOpen(ruser[r], rwid[r])
       THEN /\ Acquire(r, rwid[r])
            /\ pc' = [pc EXCEPT ![r] = "deciding"]
            /\ rsnap' = [rsnap EXCEPT ![r] = lockKey[rwid[r]]]
            /\ UNCHANGED <<ruser, rkey, rwid, rsid>>
       ELSE /\ mutex[rwid[r]] = None
            /\ Goto(r, "refused")
            /\ UNCHANGED mutex
    /\ UNCHANGED <<lockKey, rows, shared, sessVars>>
-----------------------------------------------------------------------------
(* Steps 2 to 6 of access(): what the key in the row says to request r.      *)

OwnKey(r) == rsnap[r] # None /\ rsnap[r] = rkey[r]
NoHolder(r) == rsnap[r] \notin {k \in Keys : sstate[k] # "none"}
\* Mutant of LockedOut: the expiry date is compared the wrong way round.
LockedOutReversed(r) ==
    rsnap[r] \in {k \in Keys : /\ sstate[k] = "expired"
                              /\ sauth[k] \notin {None, ruser[r]}}
LockedOut(r) == rsnap[r] \in {k \in Keys : /\ sstate[k] = "live"
                                           /\ sauth[k] \notin {None, ruser[r]}}

\* Saving the workflow.  The row of a deleted one is inserted again, without
\* the users it was shared with.
WriteKey(r, k) ==
    /\ lockKey' = [lockKey EXCEPT ![rwid[r]] = k]
    /\ rows' = rows \cup {rwid[r]}
    /\ UNCHANGED shared

Granted(r, k, snap) ==
    /\ pc' = [pc EXCEPT ![r] = "granted"]
    /\ rkey' = [rkey EXCEPT ![r] = k]
    /\ rsnap' = [rsnap EXCEPT ![r] = snap]
    /\ UNCHANGED <<ruser, rwid, rsid>>

NewSession(k, u, auth) ==
    /\ Fresh(k)
    /\ sstate' = [sstate EXCEPT ![k] = "live"]
    /\ sholder' = [sholder EXCEPT ![k] = u]
    /\ sauth' = [sauth EXCEPT ![k] = auth]
    /\ ssid' = [ssid EXCEPT ![k] = None]

\* Step 2: the row has the key of this session.
KeepLock(r) ==
    /\ OwnKey(r)
    /\ IF CanSave(rkey[r])
       THEN SaveSession(rkey[r], rsid[r]) /\ Granted(r, rkey[r], rsnap[r])
       ELSE UNCHANGED sessVars /\ Goto(r, "refused")
    /\ UNCHANGED <<lockKey, rows, shared>>

\* Workflow.lock for a request that has a session: its key goes to the row and
\* the session is saved, with the user in it if a session had to be created.
LockWithKey(r) ==
    /\ ~ OwnKey(r) /\ ~ LockedOut(r) /\ rkey[r] # None
    /\ WriteKey(r, rkey[r])
    /\ IF CanSave(rkey[r])
       THEN /\ sstate' = [sstate EXCEPT ![rkey[r]] = "live"]
            /\ ssid' = [ssid EXCEPT ![rkey[r]] = rsid[r]]
            /\ sauth' = [sauth EXCEPT ![rkey[r]] =
                            IF NoHolder(r) THEN ruser[r] ELSE @]
            /\ UNCHANGED sholder
            /\ Granted(r, rkey[r], rkey[r])
       ELSE UNCHANGED sessVars /\ Goto(r, "refused")

\* Workflow.lock for a request without session when the row is unlocked or its
\* session is gone: a session is created, and its key goes to the row.
LockWithNewKey(r) ==
    /\ NoHolder(r) /\ rkey[r] = None
    /\ \E k \in Keys :
          /\ NewSession(k, ruser[r], ruser[r])
          /\ WriteKey(r, k)
          /\ Granted(r, k, k)

\* Workflow.lock for a request without session when the row has the key of a
\* session: the expiry date of THAT session is moved and the row is not saved.
\* Then store_workflow_nrows_in_session creates a session for the request,
\* whose cookie the client may keep.
ExtendHolder(r) ==
    /\ ~ NoHolder(r) /\ ~ LockedOut(r) /\ rkey[r] = None
    /\ \/ /\ sstate' = [sstate EXCEPT ![rsnap[r]] = "live"]
          /\ UNCHANGED <<sholder, sauth, ssid>>
          /\ Granted(r, None, rsnap[r])
       \/ \E k \in Keys :
             /\ Fresh(k)
             /\ sstate' = [sstate EXCEPT ![rsnap[r]] = "live", ![k] = "live"]
             /\ sholder' = [sholder EXCEPT ![k] = ruser[r]]
             /\ sauth' = [sauth EXCEPT ![k] = None]
             /\ ssid' = [ssid EXCEPT ![k] = None]
             /\ Granted(r, k, rsnap[r])
    /\ UNCHANGED <<lockKey, rows, shared>>

Refuse(r) ==
    /\ ~ OwnKey(r) /\ LockedOut(r)
    /\ Goto(r, "refused")
    /\ UNCHANGED <<lockKey, rows, shared, sessVars>>

Decide(r) ==
    /\ pc[r] = "deciding"
    /\ Release(rwid[r])
    /\ \/ KeepLock(r)
       \/ LockWithKey(r)
       \/ LockWithNewKey(r)
       \/ ExtendHolder(r)
       \/ Refuse(r)
-----------------------------------------------------------------------------
(* After access(): the decorator stores the workflow in the session and      *)
(* calls the view.                                                           *)

StoreInSession(r) ==
    /\ pc[r] = "granted"
    /\ IF rkey[r] = None
       THEN Goto(r, "view") /\ UNCHANGED sessVars
       ELSE IF CanSave(rkey[r])
       THEN /\ SaveSession(rkey[r], rwid[r])
            /\ pc' = [pc EXCEPT ![r] = "view"]
            /\ rsid' = [rsid EXCEPT ![r] = rwid[r]]
            /\ UNCHANGED <<ruser, rkey, rwid, rsnap>>
       ELSE Goto(r, "refused") /\ UNCHANGED sessVars
    /\ UNCHANGED <<lockKey, rows, shared, mutex>>

\* A view that ends in workflow.save(): every field is written, the key too.
ViewSave(r) ==
    /\ pc[r] = "view"
    /\ WriteKey(r, rsnap[r])
    /\ UNCHANGED <<mutex, sessVars, reqVars>>

\* share_create and share_delete: as well a view that saves the workflow.
ViewShare(r, u) ==
    /\ pc[r] = "view" /\ "share" \in Habits
    /\ \/ u \notin shared[rwid[r]] \cup {ruser[r]}
       \/ u \in shared[rwid[r]]
    /\ shared' = [shared EXCEPT ![rwid[r]] =
                     IF u \in @ THEN @ \ {u} ELSE @ \cup {u}]
    /\ lockKey' = [lockKey EXCEPT ![rwid[r]] = rsnap[r]]
    /\ rows' = rows \cup {rwid[r]}
    /\ UNCHANGED <<mutex, sessVars, reqVars>>

\* WorkflowAPILock.delete: workflow.unlock() in the view.
ViewUnlock(r) ==
    /\ pc[r] = "view" /\ "apiunlock" \in Habits
    /\ WriteKey(r, None)
    /\ rsnap' = [rsnap EXCEPT ![r] = None]
    /\ UNCHANGED <<mutex, sessVars, pc, ruser, rkey, rwid, rsid>>

\* The answer is sent and the session saved (SESSION_SAVE_EVERY_REQUEST).  The
\* browser of a refused request is sent to the home page, a request of its own.
EndRequest(r) ==
    /\ IF CanSave(rkey[r])
       THEN SaveSession(rkey[r], rsid[r]) ELSE UNCHANGED sessVars
    /\ Forget(r)

Finish(r) ==
    /\ pc[r] \in {"view", "refused"}
    /\ EndRequest(r)
    /\ UNCHANGED <<lockKey, rows, shared, mutex>>

ViewDelete(r) ==
    /\ pc[r] = "view" /\ "delete" \in Habits
    /\ rows' = rows \ {rwid[r]}
    /\ lockKey' = [lockKey EXCEPT ![rwid[r]] = None]
    /\ shared' = [shared EXCEPT ![rwid[r]] = {}]
    /\ EndRequest(r)
    /\ UNCHANGED mutex

\* A new workflow, with an id that nothing remembers.  The dialog is part of the
\* home page.  The session of a browser remembers the workflow from now on,
\* although its lock is not taken yet.
Create(u, k, w) ==
    /\ MaySend(u, k) /\ u = Owner[w]
    /\ k # None => sauth[k] = u /\ ("tabs" \notin Habits => ssid[k] = None)
    /\ w \notin rows
    /\ \A r \in Requests : rwid[r] # w /\ rsid[r] # w
    /\ \A j \in Keys : ssid[j] # w
    /\ rows' = rows \cup {w}
    /\ lockKey' = [lockKey EXCEPT ![w] = None]
    /\ shared' = [shared EXCEPT ![w] = {}]
    /\ IF k = None THEN UNCHANGED sessVars ELSE SaveSession(k, w)
    /\ UNCHANGED <<mutex, reqVars>>

\* The process dies.  Nobody releases a cache lock that it holds.
Crash(r) ==
    /\ "crash" \in Habits /\ pc[r] # "idle"
    /\ Forget(r)
    /\ UNCHANGED <<lockKey, rows, shared, mutex, sessVars>>
-----------------------------------------------------------------------------
Advance(r) == \/ UnlockRead(r) \/ UnlockNoRow(r) \/ UnlockWrite(r)
              \/ AccessRead(r) \/ Decide(r) \/ StoreInSession(r) \/ Finish(r)

Next ==
    \/ \E k \in Keys : Logout(k) \/ Expire(k) \/ \E u \in Users : Login(u, k)
    \/ \E r \in Requests :
          \/ \E u \in Users, k \in Keys \cup {None} :
                \/ \E w \in Workflows : Begin(r, u, k, w)
                \/ BeginHome(r, u, k)
          \/ \E u \in Users : ViewShare(r, u)
          \/ Advance(r)
          \/ ViewSave(r) \/ ViewUnlock(r) \/ ViewDelete(r) \/ Crash(r)
    \/ \E u \in Users, k \in Keys \cup {None}, w \in Workflows : Create(u, k, w)

Spec == Init /\ [][Next]_vars

\* A process that serves a request goes on, and one that waits for a cache lock
\* gets it if it is free again and again.
FairSpec == Spec /\ \A r \in Requests :
                        /\ WF_vars(Advance(r))
                        /\ SF_vars(UnlockRead(r) \/ UnlockNoRow(r))
                        /\ SF_vars(AccessRead(r))
-----------------------------------------------------------------------------
Working(r) == pc[r] \in {"granted", "view"}

\* While a view of a workflow is executed for one user, none is executed for
\* another: "the platform locks it so that no other user can manipulate it"
\* (docs_src/Using/index.rst:99; access.py:36, "to avoid race conditions").
MutualExclusion ==
    \A q, r \in Requests :
        Working(q) /\ Working(r) /\ rwid[q] = rwid[r] => ruser[q] = ruser[r]

\* A session that remembers a workflow holds its lock, or nobody does, so leaving
\* it for the home page, which unlocks without a look at the key, releases nobody
\* else's lock (access.py:171-179, workflow.py:132-146).
SessionHoldsItsLock ==
    \A k \in Keys : sstate[k] = "live" /\ ssid[k] \in rows
                        => lockKey[ssid[k]] \in {k, None}

\* A lock of a live session that serves no request is in the session as well:
\* otherwise going home would not release it and it would stay until the
\* session expires (access.py:47-48, 158-168).
NoLeakedLock ==
    \A k \in Keys, w \in Workflows :
        sstate[k] = "live" /\ Serving(k) = {} /\ lockKey[w] = k => ssid[k] = w

\* Who is refused because of the lock is refused for a lock that is in the
\* database at that moment, of a live session of another user: reading the row
\* and deciding on it are two steps, kept together by the cache lock
\* (access.py:50, 110-117).
RefusalIsCurrent ==
    [][\A r \in Requests :
          pc[r] = "deciding" /\ pc'[r] = "refused" /\ rwid[r] \in rows =>
              \E k \in Keys : /\ lockKey[rwid[r]] = k /\ sstate[k] = "live"
                              /\ sauth[k] # ruser[r]]_vars

\* A cache lock that is taken has a taker who is between its read and its write:
\* no way through access() or the home page, errors included, leaves it taken.
CacheLockOwned ==
    \A w \in Workflows : mutex[w] # None =>
        LET r == mutex[w] IN
            \/ pc[r] = "deciding" /\ rwid[r] = w
            \/ pc[r] \in {"switching", "homing"} /\ rsid[r] = w

\* The key of a live session leaves a row only by a step of a request of that
\* session: between its requests, too, nobody takes the lock over and nobody
\* gives it back for its holder (access.py:110-117, workflow.py:132-146).
LockIsKept ==
    [][\A k \in Keys, w \in Workflows :
          lockKey[w] = k /\ sstate[k] = "live" /\ lockKey'[w] # k =>
              \E r \in Requests : rkey[r] = k /\ pc'[r] # pc[r]]_vars

\* Request r is at a cache lock that somebody else may have.
WaitsFor(r, w) == \/ pc[r] \in {"switch", "home"} /\ rsid[r] = w
                  \/ pc[r] = "access" /\ rwid[r] = w

\* Who waits for a cache lock waits for a request that itself waits for none, so
\* a chain of waiting requests has one link and no circle is possible, although
\* a request may need the locks of two workflows (access.py:47-51).
NoWaitingInCircles ==
    \A q, r \in Requests, v, w \in Workflows :
        WaitsFor(r, w) /\ mutex[w] = q => ~ WaitsFor(q, v)

\* Every request is answered: the two cache locks of a request are never held
\* together, so requests do not wait for each other in a circle.
RequestAnswered == \A r \in Requests : pc[r] # "idle" ~> pc[r] = "idle"

\* The lock keeps the promise of ExclusiveAccess.
Inside == [w \in Workflows |->
              {ruser[r] : r \in {q \in Requests : Working(q) /\ rwid[q] = w}}]

Promise == INSTANCE ExclusiveAccess WITH inside <- Inside

KeepsPromise == Promise!Spec
=============================================================================
