-------------------------- MODULE WorkflowLockProofs --------------------------
(***************************************************************************)
(* Proofs about WorkflowLock, for every set of users, workflows, session     *)
(* keys and server processes.                                                *)
(***************************************************************************)
EXTENDS WorkflowLock, TLAPS

\* A request that is about to write a row knows which one.
Located ==
    \A r \in Requests :
        /\ pc[r] \in {"access", "deciding", "granted", "view", "switch",
                      "switching"} => rwid[r] \in Workflows
        /\ pc[r] \in {"switch", "switching", "home", "homing"} =>
               rsid[r] \in Workflows

TypeInv == TypeOK /\ Located

\* No step of any client takes a variable out of its type.
LEMMA TypeStep == TypeInv /\ [Next]_vars => TypeInv'
<1> SUFFICES ASSUME TypeInv, [Next]_vars PROVE TypeInv'
  OBVIOUS
<1> USE LockAssumption DEF TypeInv, TypeOK, Located
<1>1. CASE UNCHANGED vars
  BY <1>1 DEF vars, sessVars, reqVars
<1>2. ASSUME NEW k \in Keys, NEW u \in Users, Login(u, k) PROVE TypeInv'
  BY <1>2 DEF Login, reqVars
<1>3. ASSUME NEW k \in Keys, Logout(k) PROVE TypeInv'
  BY <1>3 DEF Logout, reqVars
<1>4. ASSUME NEW k \in Keys, Expire(k) PROVE TypeInv'
  BY <1>4 DEF Expire, reqVars
<1>5. ASSUME NEW r \in Requests, NEW u \in Users, NEW k \in Keys \cup {None},
             NEW w \in Workflows, Begin(r, u, k, w)
      PROVE  TypeInv'
  BY <1>5 DEF Begin, SidOf, sessVars, Steps
<1>6. ASSUME NEW r \in Requests, NEW u \in Users, NEW k \in Keys \cup {None},
             BeginHome(r, u, k)
      PROVE  TypeInv'
  BY <1>6 DEF BeginHome, sessVars, Steps
<1>7. ASSUME NEW r \in Requests, UnlockRead(r) PROVE TypeInv'
  BY <1>7 DEF UnlockRead, Acquire, Goto, sessVars, Steps
<1>8. ASSUME NEW r \in Requests, UnlockNoRow(r) PROVE TypeInv'
  BY <1>8 DEF UnlockNoRow, Goto, EndHome, CanSave, SaveSession, Forget,
              sessVars, Steps
<1>9. ASSUME NEW r \in Requests, UnlockWrite(r) PROVE TypeInv'
  BY <1>9 DEF UnlockWrite, Release, Goto, EndHome, CanSave, SaveSession,
              Forget, sessVars, Steps
<1>10. ASSUME NEW r \in Requests, AccessRead(r) PROVE TypeInv'
  BY <1>10 DEF AccessRead, Acquire, Goto, sessVars, Steps
<1>11. ASSUME NEW r \in Requests, Decide(r) PROVE TypeInv'
  <2> SUFFICES ASSUME pc[r] = "deciding", Release(rwid[r]) PROVE TypeInv'
    BY <1>11 DEF Decide
  <2> USE DEF Release, Steps
  <2>1. CASE KeepLock(r)
    BY <2>1 DEF KeepLock, OwnKey, CanSave, SaveSession, Granted, Goto,
                sessVars
  <2>2. CASE LockWithKey(r)
    BY <2>2 DEF LockWithKey, WriteKey, CanSave, Granted, Goto, sessVars
  <2>3. CASE LockWithNewKey(r)
    BY <2>3 DEF LockWithNewKey, NewSession, WriteKey, Granted
  <2>4. CASE ExtendHolder(r)
    BY <2>4 DEF ExtendHolder, NoHolder, Granted
  <2>5. CASE Refuse(r)
    BY <2>5 DEF Refuse, Goto, sessVars
  <2>6. QED
    BY <1>11, <2>1, <2>2, <2>3, <2>4, <2>5 DEF Decide
<1>12. ASSUME NEW r \in Requests, StoreInSession(r) PROVE TypeInv'
  BY <1>12 DEF StoreInSession, SaveSession, CanSave, Goto, sessVars,
               Steps
<1>13. ASSUME NEW r \in Requests, Finish(r) PROVE TypeInv'
  BY <1>13 DEF Finish, EndRequest, SaveSession, CanSave, Forget,
               sessVars, Steps
<1>14. ASSUME NEW r \in Requests, ViewSave(r) PROVE TypeInv'
  BY <1>14 DEF ViewSave, WriteKey, sessVars, reqVars, Steps
<1>15. ASSUME NEW r \in Requests, ViewUnlock(r) PROVE TypeInv'
  BY <1>15 DEF ViewUnlock, WriteKey, sessVars, Steps
<1>16. ASSUME NEW r \in Requests, ViewDelete(r) PROVE TypeInv'
  BY <1>16 DEF ViewDelete, EndRequest, SaveSession, CanSave, Forget,
               sessVars, Steps
<1>17. ASSUME NEW r \in Requests, Crash(r) PROVE TypeInv'
  BY <1>17 DEF Crash, Forget, sessVars, Steps
<1>18. ASSUME NEW u \in Users, NEW k \in Keys \cup {None},
             NEW w \in Workflows, Create(u, k, w)
      PROVE  TypeInv'
  BY <1>18 DEF Create, MaySend, Serving, SaveSession, sessVars, reqVars
<1>19. ASSUME NEW r \in Requests, NEW u \in Users, ViewShare(r, u)
       PROVE  TypeInv'
  BY <1>19 DEF ViewShare, sessVars, reqVars, Steps
<1>20. QED
  BY <1>1, <1>2, <1>3, <1>4, <1>5, <1>6, <1>7, <1>8, <1>9, <1>10, <1>11,
     <1>12, <1>13, <1>14, <1>15, <1>16, <1>17, <1>18, <1>19 DEF Next, Advance

\* Every variable stays in its type whatever the clients do.
THEOREM TypeCorrect == Spec => []TypeOK
<1>1. Init => TypeInv
  BY LockAssumption DEF Init, TypeInv, TypeOK, Located, Steps
<1>2. QED
  BY <1>1, TypeStep, PTL DEF Spec, TypeInv

-----------------------------------------------------------------------------
(* The cache lock, with clients of all kinds.                                 *)

Owns(r, w) == \/ pc[r] = "deciding" /\ rwid[r] = w
              \/ pc[r] \in {"switching", "homing"} /\ rsid[r] = w

\* Requests that neither take nor give back a cache lock, nor wait at one they
\* have taken, change nothing about it.
LEMMA OwnedElsewhere ==
    ASSUME TypeInv, CacheLockOwned, UNCHANGED mutex,
           \A r \in Requests : \/ UNCHANGED <<pc[r], rwid[r], rsid[r]>>
                               \/ pc[r] \notin {"deciding", "switching", "homing"}
    PROVE  CacheLockOwned'
BY LockAssumption DEF TypeInv, TypeOK, CacheLockOwned

\* The one that is given back is the only one that a request has.
LEMMA OwnedReleased ==
    ASSUME TypeInv, CacheLockOwned, NEW r \in Requests, NEW w \in Workflows,
           Owns(r, w), Release(w),
           \A q \in Requests \ {r} : UNCHANGED <<pc[q], rwid[q], rsid[q]>>
    PROVE  CacheLockOwned'
BY LockAssumption DEF TypeInv, TypeOK, CacheLockOwned, Owns, Release

LEMMA OwnedTaken ==
    ASSUME TypeInv, CacheLockOwned, NEW r \in Requests, NEW w \in Workflows,
           pc[r] \notin {"deciding", "switching", "homing"},
           Acquire(r, w), Owns(r, w)',
           \A q \in Requests \ {r} : UNCHANGED <<pc[q], rwid[q], rsid[q]>>
    PROVE  CacheLockOwned'
BY LockAssumption DEF TypeInv, TypeOK, CacheLockOwned, Owns, Acquire

LEMMA OwnedStep ==
    ASSUME "crash" \notin Habits, TypeInv, CacheLockOwned, [Next]_vars
    PROVE  CacheLockOwned'
<1> USE DEF TypeInv, TypeOK
<1>1. CASE UNCHANGED <<mutex, reqVars>>
  BY <1>1, OwnedElsewhere DEF reqVars
<1>2. CASE UNCHANGED vars
  BY <1>1, <1>2 DEF vars
<1>3. ASSUME NEW k \in Keys, Logout(k) \/ Expire(k) \/ \E u \in Users : Login(u, k)
      PROVE  CacheLockOwned'
  BY <1>1, <1>3 DEF Logout, Expire, Login
<1>4. ASSUME NEW r \in Requests, NEW u, NEW k, NEW w,
             Begin(r, u, k, w) \/ BeginHome(r, u, k)
      PROVE  CacheLockOwned'
  BY <1>4, OwnedElsewhere DEF Begin, BeginHome
<1>5. ASSUME NEW r \in Requests, UnlockRead(r) PROVE CacheLockOwned'
  <2>1. rsid[r] \in Workflows
    BY <1>5 DEF UnlockRead
  <2>2. Owns(r, rsid[r])'
    BY <1>5 DEF UnlockRead, Goto, Owns
  <2>3. QED
    BY <1>5, <2>1, <2>2, OwnedTaken DEF UnlockRead, Goto
<1>6. ASSUME NEW r \in Requests, UnlockNoRow(r) PROVE CacheLockOwned'
  BY <1>6, OwnedElsewhere DEF UnlockNoRow, Goto, EndHome, Forget
<1>7. ASSUME NEW r \in Requests, UnlockWrite(r) PROVE CacheLockOwned'
  BY <1>7, OwnedReleased DEF UnlockWrite, Goto, EndHome, Forget, Owns, Located
<1>8. ASSUME NEW r \in Requests, AccessRead(r) PROVE CacheLockOwned'
  <2>1. CASE UNCHANGED mutex
    BY <1>8, <2>1, OwnedElsewhere DEF AccessRead, Goto, Acquire
  <2>2. CASE Acquire(r, rwid[r]) /\ pc' = [pc EXCEPT ![r] = "deciding"]
    <3>1. rwid[r] \in Workflows /\ pc[r] = "access" /\ UNCHANGED <<rwid, rsid>>
      BY <1>8 DEF AccessRead, Located, Goto
    <3>2. QED
      BY <2>2, <3>1, OwnedTaken DEF Owns
  <2>3. QED
    BY <1>8, <2>1, <2>2 DEF AccessRead
<1>9. ASSUME NEW r \in Requests, Decide(r) PROVE CacheLockOwned'
  <2>1. pc[r] = "deciding" /\ Release(rwid[r]) /\ rwid[r] \in Workflows
    BY <1>9 DEF Decide, Located
  <2>2. \A q \in Requests \ {r} : UNCHANGED <<pc[q], rwid[q], rsid[q]>>
    BY <1>9 DEF Decide, KeepLock, LockWithKey, LockWithNewKey, ExtendHolder,
                Refuse, Granted, Goto
  <2>3. QED
    BY <2>1, <2>2, OwnedReleased DEF Owns
<1>10. ASSUME NEW r \in Requests,
              StoreInSession(r) \/ Finish(r) \/ ViewUnlock(r) \/ ViewDelete(r)
       PROVE  CacheLockOwned'
  BY <1>10, OwnedElsewhere
     DEF StoreInSession, Finish, ViewUnlock, ViewDelete, Goto, EndRequest, Forget
<1>11. ASSUME NEW r \in Requests, ViewSave(r) \/ \E u \in Users : ViewShare(r, u)
       PROVE  CacheLockOwned'
  BY <1>1, <1>11 DEF ViewSave, ViewShare
<1>12. ASSUME NEW u, NEW k, NEW w, Create(u, k, w) PROVE CacheLockOwned'
  BY <1>1, <1>12 DEF Create
<1>13. ASSUME NEW r, Crash(r) PROVE FALSE
  BY <1>13 DEF Crash
<1>14. QED
  BY <1>2, <1>3, <1>4, <1>5, <1>6, <1>7, <1>8, <1>9, <1>10, <1>11, <1>12, <1>13
     DEF Next, Advance

\* The cache lock comes back on every path, whatever clients do, if no process
\* dies.
THEOREM CacheLockSafety ==
    ASSUME "crash" \notin Habits PROVE Spec => []CacheLockOwned
<1>1. Init => TypeInv /\ CacheLockOwned
  BY LockAssumption
     DEF Init, TypeInv, TypeOK, Located, Steps, CacheLockOwned
<1>2. TypeInv /\ CacheLockOwned /\ [Next]_vars => TypeInv' /\ CacheLockOwned'
  BY TypeStep, OwnedStep
<1>3. QED
  BY <1>1, <1>2, PTL DEF Spec

\* Who has a cache lock is at a step that waits for none, whatever clients do.
THEOREM NoCircles ==
    ASSUME "crash" \notin Habits PROVE Spec => []NoWaitingInCircles
<1>1. CacheLockOwned => NoWaitingInCircles
  BY LockAssumption DEF CacheLockOwned, NoWaitingInCircles, WaitsFor
<1>2. QED
  BY <1>1, CacheLockSafety, PTL

-----------------------------------------------------------------------------
(* What the lock relies on when clients are calm: one browser and one request  *)
(* at a time per user, who goes from one workflow to another by the home page.  *)

Calm == Habits \subseteq {"delete", "share", "crash"}

\* A request is served for a live session of its user, one at a time.
Served(r) ==
    /\ rkey[r] \in Keys /\ sstate[rkey[r]] = "live"
    /\ ruser[r] \in Users /\ sauth[rkey[r]] = ruser[r]
    /\ rsid[r] = ssid[rkey[r]]

Sessions ==
    /\ \A k \in Keys : sstate[k] # "none"
                          => sholder[k] \in Users /\ sauth[k] = sholder[k]
    /\ \A j, k \in Keys : sstate[j] = "live" /\ sstate[k] = "live"
                             /\ sholder[j] = sholder[k] => j = k

Serial ==
    \A q, r \in Requests : pc[q] # "idle" /\ pc[r] # "idle"
                              /\ rkey[q] = rkey[r] => q = r

\* Where a request is, and what it knows there.
Place(r) ==
    /\ pc[r] \notin {"switch", "switching"}
    /\ pc[r] \in {"access", "deciding", "granted", "view", "refused"} =>
           rwid[r] \in Workflows
    /\ pc[r] \in {"access", "deciding", "granted"} => rsid[r] \in {rwid[r], None}
    /\ pc[r] = "view" => rsid[r] = rwid[r]
    /\ pc[r] \in {"home", "homing"} => rsid[r] \in Workflows
    /\ pc[r] = "deciding" => mutex[rwid[r]] = r
    /\ pc[r] = "homing" => mutex[rsid[r]] = r /\ rsid[r] \in rows
    /\ Working(r) => /\ lockKey[rwid[r]] = rkey[r]
                     /\ rsnap[r] = rkey[r]

\* What a request has read under the cache lock is still in the row, unless the
\* holder has deleted the workflow.
Current(r) ==
    pc[r] = "deciding" =>
        \/ rwid[r] \in rows /\ rsnap[r] = lockKey[rwid[r]]
        \/ /\ rwid[r] \notin rows
           /\ rsnap[r] # rkey[r]
           /\ \A k \in Keys : sstate[k] = "live" /\ ssid[k] = rwid[r]
                                 => k = rsnap[r]

\* Session k has created workflow w and has not opened it yet: nobody else can.
Unopened(k, w) ==
    /\ lockKey[w] = None
    /\ shared[w] = {}
    /\ sauth[k] = Owner[w]
    /\ \A r \in Requests : pc[r] = "deciding" /\ rwid[r] = w => rkey[r] = k

\* A session remembers a workflow it has the lock of, or one it has created.
Remembers ==
    \A k \in Keys : sstate[k] = "live" /\ ssid[k] \in rows
                        => lockKey[ssid[k]] = k \/ Unopened(k, ssid[k])

IInv ==
    /\ TypeInv
    /\ Sessions
    /\ Serial
    /\ \A r \in Requests : pc[r] # "idle" => Served(r)
    /\ \A r \in Requests : Place(r) /\ Current(r)
    /\ Remembers
    /\ \A w \in Workflows : w \notin rows => lockKey[w] = None

\* Calm clients keep the invariant, crashes of server processes included.
LEMMA LockStep == ASSUME Calm, IInv, [Next]_vars PROVE IInv'
<1>0. TypeInv'
  BY TypeStep DEF IInv
<1>calm. Habits \cap {"tabs", "multilogin", "direct", "api", "apiunlock", "slow"} = {}
  BY DEF Calm
<1> USE LockAssumption, <1>0, <1>calm
    DEF IInv, TypeInv, TypeOK, Located, Steps, Sessions,
   Serial, Served, Place, Current, Remembers, Unopened, Working
<1>1. CASE UNCHANGED vars
  BY <1>1 DEF vars, sessVars, reqVars
<1>2. ASSUME NEW k \in Keys, NEW u \in Users, Login(u, k) PROVE IInv'
  BY <1>2 DEF Login, reqVars, Fresh
<1>3. ASSUME NEW k \in Keys, Logout(k) PROVE IInv'
  BY <1>3 DEF Logout, reqVars, Serving
<1>4. ASSUME NEW k \in Keys, Expire(k) PROVE IInv'
  BY <1>4 DEF Expire, reqVars, Serving
<1>5. ASSUME NEW r \in Requests, NEW u \in Users, NEW k \in Keys \cup {None},
             NEW w \in Workflows, Begin(r, u, k, w)
      PROVE  IInv'
  BY <1>5 DEF Begin, MaySend, SidOf, sessVars, Steps, Serving
<1>6. ASSUME NEW r \in Requests, NEW u \in Users, NEW k \in Keys \cup {None},
             BeginHome(r, u, k)
      PROVE  IInv'
  BY <1>6 DEF BeginHome, MaySend, sessVars, Steps, Serving
<1>7. ASSUME NEW r \in Requests, UnlockRead(r) PROVE IInv'
  BY <1>7 DEF UnlockRead, Acquire, Goto, sessVars, Steps
<1>8. ASSUME NEW r \in Requests, UnlockNoRow(r) PROVE IInv'
  <2>1. /\ pc[r] = "home" /\ rkey[r] \in Keys /\ CanSave(rkey[r])
        /\ SaveSession(rkey[r], None) /\ Forget(r)
        /\ UNCHANGED <<lockKey, rows, shared, mutex>>
    BY <1>8 DEF UnlockNoRow, EndHome, CanSave
  <2> USE <2>1 DEF SaveSession, Forget
  <2>2. Sessions' /\ Serial'
    OBVIOUS
  <2>3. \A q \in Requests : pc'[q] # "idle" => Served(q)'
    OBVIOUS
  <2>4. \A q \in Requests : Place(q)' /\ Current(q)'
    OBVIOUS
  <2>5. Remembers'
    OBVIOUS
  <2>6. QED
    BY <2>2, <2>3, <2>4, <2>5
<1>9. ASSUME NEW r \in Requests, UnlockWrite(r) PROVE IInv'
  <2>1. /\ pc[r] = "homing" /\ rkey[r] \in Keys /\ CanSave(rkey[r])
        /\ rsid[r] \in rows /\ rows' = rows /\ shared' = shared
        /\ lockKey' = [lockKey EXCEPT ![rsid[r]] = None]
        /\ mutex' = [mutex EXCEPT ![rsid[r]] = None]
        /\ SaveSession(rkey[r], None) /\ Forget(r)
    BY <1>9 DEF UnlockWrite, Release, EndHome, CanSave
  <2>2. lockKey[rsid[r]] \in {rkey[r], None} /\ ssid[rkey[r]] = rsid[r]
    BY <2>1
  <2>3. \A q \in Requests : Working(q) \/ pc[q] = "deciding"
                                => rwid[q] # rsid[r]
    <3>1. ASSUME NEW q \in Requests, Working(q), rwid[q] = rsid[r] PROVE FALSE
      <4>1. lockKey[rsid[r]] = rkey[q] /\ rkey[q] \in Keys /\ pc[q] # "idle"
        BY <3>1
      <4>2. rkey[q] = rkey[r]
        BY <2>2, <4>1
      <4>3. QED
        BY <2>1, <3>1, <4>1, <4>2
    <3>2. ASSUME NEW q \in Requests, pc[q] = "deciding", rwid[q] = rsid[r]
          PROVE  FALSE
      BY <2>1, <3>2
    <3>3. QED
      BY <3>1, <3>2
  <2>4. \A q \in Requests : pc[q] = "homing" /\ q # r => rsid[q] # rsid[r]
    BY <2>1
  <2> USE <2>1, <2>2, <2>3, <2>4 DEF SaveSession, Forget
  <2>5. Sessions' /\ Serial'
    OBVIOUS
  <2>6. \A q \in Requests : pc'[q] # "idle" => Served(q)'
    OBVIOUS
  <2>7. \A q \in Requests : Place(q)' /\ Current(q)'
    OBVIOUS
  <2>8. Remembers'
    OBVIOUS
  <2>9. QED
    BY <2>5, <2>6, <2>7, <2>8
<1>10. ASSUME NEW r \in Requests, AccessRead(r) PROVE IInv'
  <2>1. CASE rwid[r] \in rows /\ CanOpen(ruser[r], rwid[r])
    <3>1. /\ pc[r] = "access" /\ rwid[r] \in rows /\ mutex[rwid[r]] = None
          /\ mutex' = [mutex EXCEPT ![rwid[r]] = r]
          /\ pc' = [pc EXCEPT ![r] = "deciding"]
          /\ rsnap' = [rsnap EXCEPT ![r] = lockKey[rwid[r]]]
          /\ UNCHANGED <<ruser, rkey, rwid, rsid, lockKey, rows, shared,
                         sstate, sholder, sauth, ssid>>
      BY <1>10, <2>1 DEF AccessRead, Acquire, sessVars
    <3>2. \A k \in Keys : /\ sstate[k] = "live" /\ ssid[k] = rwid[r]
                          /\ Unopened(k, rwid[r])
                          => k = rkey[r]
      BY <2>1, <3>1 DEF CanOpen
    <3> USE <3>1
    <3>3. Sessions' /\ Serial'
      OBVIOUS
    <3>4. \A q \in Requests : pc'[q] # "idle" => Served(q)'
      OBVIOUS
    <3>5. \A q \in Requests : Place(q)' /\ Current(q)'
      OBVIOUS
    <3>6. Remembers'
      BY <3>2
    <3>7. QED
      BY <3>3, <3>4, <3>5, <3>6
  <2>2. CASE ~ (rwid[r] \in rows /\ CanOpen(ruser[r], rwid[r]))
    BY <1>10, <2>2 DEF AccessRead, Goto, sessVars
  <2>3. QED
    BY <2>1, <2>2
<1>11. ASSUME NEW r \in Requests, Decide(r) PROVE IInv'
  <2> SUFFICES ASSUME pc[r] = "deciding", Release(rwid[r]) PROVE IInv'
    BY <1>11 DEF Decide
  <2>0. rkey[r] \in Keys /\ CanSave(rkey[r])
    BY DEF CanSave
  <2> USE <2>0 DEF Release, CanSave
  <2>1. CASE KeepLock(r)
    BY <2>1 DEF KeepLock, OwnKey, SaveSession, Granted
  <2>2. CASE LockWithKey(r)
    <3>1. \A k \in Keys : sstate[k] = "live" => k # rsnap[r]
      BY <2>2 DEF LockWithKey, OwnKey, LockedOut
    <3>2. \A k \in Keys : sstate[k] = "live" /\ ssid[k] = rwid[r]
                              => k = rkey[r]
      <4> SUFFICES ASSUME NEW k \in Keys, sstate[k] = "live", ssid[k] = rwid[r]
                   PROVE  k = rkey[r]
        OBVIOUS
      <4>1. CASE rwid[r] \in rows
        <5>1. lockKey[rwid[r]] = k \/ Unopened(k, rwid[r])
          BY <4>1
        <5>2. rsnap[r] = lockKey[rwid[r]]
          BY <4>1
        <5>3. QED
          BY <5>1, <5>2, <3>1 DEF Unopened
      <4>2. CASE rwid[r] \notin rows
        BY <4>2, <3>1
      <4>3. QED
        BY <4>1, <4>2
    <3>3. \A q \in Requests : Working(q) => rwid[q] # rwid[r]
      BY <3>1
    <3>4. QED
      BY <2>2, <3>1, <3>2, <3>3, SMTT(60) DEF LockWithKey, WriteKey, Granted,
                                            NoHolder
  <2>3. CASE LockWithNewKey(r)
    BY <2>3 DEF LockWithNewKey
  <2>4. CASE ExtendHolder(r)
    BY <2>4 DEF ExtendHolder
  <2>5. CASE Refuse(r)
    BY <2>5 DEF Refuse, Goto, sessVars
  <2>6. QED
    BY <1>11, <2>1, <2>2, <2>3, <2>4, <2>5 DEF Decide
<1>12. ASSUME NEW r \in Requests, StoreInSession(r) PROVE IInv'
  BY <1>12 DEF StoreInSession, SaveSession, CanSave, Goto, sessVars,
               Steps
<1>13. ASSUME NEW r \in Requests, Finish(r) PROVE IInv'
  BY <1>13 DEF Finish, EndRequest, SaveSession, CanSave, Forget,
               sessVars, Steps
<1>14. ASSUME NEW r \in Requests, ViewSave(r) PROVE IInv'
  BY <1>14 DEF ViewSave, WriteKey, sessVars, reqVars, Steps
<1>15. ASSUME NEW r \in Requests, ViewUnlock(r) PROVE IInv'
  BY <1>15 DEF ViewUnlock, WriteKey, sessVars, Steps
<1>16. ASSUME NEW r \in Requests, ViewDelete(r) PROVE IInv'
  BY <1>16 DEF ViewDelete, EndRequest, SaveSession, CanSave, Forget,
               sessVars, Steps
<1>17. ASSUME NEW r \in Requests, Crash(r) PROVE IInv'
  BY <1>17 DEF Crash, Forget, sessVars, Steps
<1>18. ASSUME NEW u \in Users, NEW k \in Keys \cup {None},
             NEW w \in Workflows, Create(u, k, w)
      PROVE  IInv'
  BY <1>18 DEF Create, MaySend, Serving, SaveSession, sessVars, reqVars
<1>19. ASSUME NEW r \in Requests, NEW u \in Users, ViewShare(r, u)
       PROVE  IInv'
  BY <1>19 DEF ViewShare, sessVars, reqVars, Steps
<1>20. QED
  BY <1>1, <1>2, <1>3, <1>4, <1>5, <1>6, <1>7, <1>8, <1>9, <1>10, <1>11,
     <1>12, <1>13, <1>14, <1>15, <1>16, <1>17, <1>18, <1>19 DEF Next, Advance

\* The invariant holds from the start and is kept.
THEOREM LockInvariant == ASSUME Calm PROVE Spec => []IInv
<1>1. Init => IInv
  BY LockAssumption DEF Init, IInv, TypeInv, TypeOK, Located, Steps, Sessions,
     Serial, Served, Place, Current, Remembers, Unopened, Working
<1>2. IInv /\ [Next]_vars => IInv'
  BY LockStep
<1>3. QED
  BY <1>1, <1>2, PTL DEF Spec

\* No two users work on a workflow at the same time: both would have their key
\* in the row, and a session has one user.
THEOREM LockSafety == ASSUME Calm PROVE Spec => []MutualExclusion
<1>1. IInv => MutualExclusion
  BY DEF IInv, MutualExclusion, Place, Working, Served, Serial
<1>2. QED
  BY <1>1, LockInvariant, PTL

\* A session never remembers a workflow whose lock it does not hold, so going
\* home releases nobody else's lock.
THEOREM SessionSafety == ASSUME Calm PROVE Spec => []SessionHoldsItsLock
<1>1. IInv => SessionHoldsItsLock
  BY DEF IInv, Remembers, Unopened, SessionHoldsItsLock
<1>2. QED
  BY <1>1, LockInvariant, PTL

\* Who is refused is refused for a lock that is in the row at that moment.
THEOREM RefusalSafety == ASSUME Calm PROVE Spec => RefusalIsCurrent
<1> DEFINE Justified ==
       \A r \in Requests :
          pc[r] = "deciding" /\ pc'[r] = "refused" /\ rwid[r] \in rows =>
              \E k \in Keys : /\ lockKey[rwid[r]] = k /\ sstate[k] = "live"
                              /\ sauth[k] # ruser[r]
<1>1. ASSUME IInv, [Next]_vars PROVE [Justified]_vars
  <2> SUFFICES ASSUME NEW r \in Requests, Next, pc[r] = "deciding",
                      pc'[r] = "refused", rwid[r] \in rows
               PROVE  \E k \in Keys : /\ lockKey[rwid[r]] = k
                                      /\ sstate[k] = "live"
                                      /\ sauth[k] # ruser[r]
    BY <1>1 DEF vars, sessVars, reqVars
  <2> USE <1>1 DEF IInv, TypeInv, TypeOK, Steps
  <2>1. Decide(r)
    <3> USE DEF Forget, Goto, sessVars, reqVars
    <3>1. ASSUME NEW q \in Requests, Advance(q), ~ Decide(q) PROVE FALSE
      BY <3>1 DEF Advance, UnlockRead, UnlockNoRow, UnlockWrite, AccessRead,
                  StoreInSession, Finish, EndHome, EndRequest
    <3>2. ASSUME NEW q \in Requests, Decide(q), q # r PROVE FALSE
      BY <3>2 DEF Decide, KeepLock, LockWithKey, LockWithNewKey, ExtendHolder,
                  Refuse, Granted
    <3>3. CASE \E q \in Requests : Advance(q)
      BY <3>1, <3>2, <3>3
    <3>4. CASE ~ \E q \in Requests : Advance(q)
      <4> USE DEF Steps
      <4>1. ASSUME NEW k \in Keys,
                   Logout(k) \/ Expire(k) \/ \E u \in Users : Login(u, k)
            PROVE  FALSE
        BY <4>1 DEF Login, Logout, Expire
      <4>2. ASSUME NEW q \in Requests, NEW u \in Users,
                   NEW k \in Keys \cup {None},
                   \/ \E w \in Workflows : Begin(q, u, k, w)
                   \/ BeginHome(q, u, k)
            PROVE  FALSE
        BY <4>2 DEF Begin, BeginHome
      <4>3. ASSUME NEW q \in Requests, \/ \E u \in Users : ViewShare(q, u)
                                       \/ ViewSave(q) \/ ViewUnlock(q)
                                       \/ ViewDelete(q) \/ Crash(q)
            PROVE  FALSE
        BY <4>3 DEF ViewShare, ViewSave, ViewUnlock, ViewDelete, Crash,
                    EndRequest
      <4>4. ASSUME NEW u \in Users, NEW k \in Keys \cup {None},
                   NEW w \in Workflows, Create(u, k, w)
            PROVE  FALSE
        BY <4>4 DEF Create
      <4>5. QED
        BY <3>4, <4>1, <4>2, <4>3, <4>4 DEF Next
    <3>5. QED
      BY <3>3, <3>4
  <2>2. CanSave(rkey[r])
    BY LockAssumption DEF Served, CanSave
  <2>3. LockedOut(r)
    BY <2>1, <2>2 DEF Decide, KeepLock, LockWithKey, LockWithNewKey,
                      ExtendHolder, Refuse, Granted
  <2>4. rsnap[r] = lockKey[rwid[r]]
    BY DEF Current
  <2>5. QED
    BY <2>3, <2>4 DEF LockedOut
<1>2. QED
  BY <1>1, LockInvariant, PTL DEF Spec, RefusalIsCurrent

\* A step that takes the key of a live session out of a row is taken by a request
\* of that session: the others find the key by which they work in the row, and
\* who decides on a row with the key of a live session of another user is
\* refused.
LEMMA KeptStep ==
    ASSUME Calm, IInv, [Next]_vars, NEW k \in Keys, NEW w \in Workflows,
           lockKey[w] = k, sstate[k] = "live", lockKey'[w] # k
    PROVE  \E r \in Requests : rkey[r] = k /\ pc'[r] # pc[r]
<1>calm. "apiunlock" \notin Habits
  BY DEF Calm
<1> USE LockAssumption DEF IInv, TypeInv, TypeOK, Located, Served, Place,
        Working
<1>1. CASE UNCHANGED lockKey
  BY <1>1
<1>2. ASSUME NEW r \in Requests, UnlockWrite(r)
      PROVE  rkey[r] = k /\ pc'[r] # pc[r]
  <2>1. /\ pc[r] = "homing" /\ rsid[r] = w /\ w \in rows
        /\ ssid[rkey[r]] = w /\ sstate[rkey[r]] = "live" /\ rkey[r] \in Keys
    BY <1>2 DEF UnlockWrite
  <2>2. rkey[r] = k
    BY <2>1 DEF Remembers, Unopened
  <2>3. pc'[r] = "idle"
    BY <1>2, <2>1 DEF UnlockWrite, EndHome, Forget
  <2>4. QED
    BY <2>1, <2>2, <2>3
<1>3. ASSUME NEW r \in Requests, Decide(r), ~ UNCHANGED lockKey
      PROVE  rkey[r] = k /\ pc'[r] # pc[r]
  <2>1. pc[r] = "deciding" /\ rkey[r] \in Keys /\ ruser[r] \in Users
    BY <1>3 DEF Decide
  <2>2. LockWithKey(r)
    BY <1>3, <2>1 DEF Decide, KeepLock, LockWithNewKey, ExtendHolder, Refuse
  <2>3. w = rwid[r] /\ w \in rows /\ rsnap[r] = k /\ k # rkey[r]
    BY <2>1, <2>2 DEF LockWithKey, WriteKey, Current
  <2>4. sauth[k] = sholder[k] /\ sholder[k] \in Users
        /\ sauth[k] = ruser[r] /\ sholder[rkey[r]] = ruser[r]
    BY <2>1, <2>2, <2>3 DEF LockWithKey, LockedOut, Sessions
  <2>5. QED
    BY <2>1, <2>3, <2>4 DEF Sessions
<1>4. ASSUME NEW r \in Requests,
             ViewSave(r) \/ ViewUnlock(r) \/ \E u \in Users : ViewShare(r, u)
      PROVE  FALSE
  BY <1>calm, <1>4 DEF ViewSave, ViewUnlock, ViewShare, WriteKey
<1>5. ASSUME NEW r \in Requests, ViewDelete(r)
      PROVE  rkey[r] = k /\ pc'[r] # pc[r]
  BY <1>5 DEF ViewDelete, EndRequest, Forget
<1>6. ASSUME NEW u \in Users, NEW j, NEW v \in Workflows, Create(u, j, v)
      PROVE  FALSE
  BY <1>6 DEF Create
<1>7. QED
  <2>1. CASE UNCHANGED vars
    BY <1>1, <2>1 DEF vars
  <2>2. CASE \E j \in Keys : \/ Logout(j) \/ Expire(j)
                            \/ \E u \in Users : Login(u, j)
    BY <1>1, <2>2 DEF Logout, Expire, Login
  <2>3. CASE \E r \in Requests, u \in Users, j \in Keys \cup {None} :
                \/ \E v \in Workflows : Begin(r, u, j, v)
                \/ BeginHome(r, u, j)
    BY <1>1, <2>3 DEF Begin, BeginHome
  <2>4. CASE \E r \in Requests : \/ UnlockRead(r) \/ UnlockNoRow(r)
                                \/ AccessRead(r) \/ StoreInSession(r)
                                \/ Finish(r) \/ Crash(r)
    BY <1>1, <2>4 DEF UnlockRead, UnlockNoRow, AccessRead, StoreInSession,
                      Finish, Crash
  <2>5. CASE \E r \in Requests : \/ UnlockWrite(r) \/ Decide(r)
                                \/ ViewDelete(r) \/ ViewSave(r)
                                \/ ViewUnlock(r)
                                \/ \E u \in Users : ViewShare(r, u)
    BY <1>1, <1>2, <1>3, <1>4, <1>5, <2>5
  <2>6. QED
    BY <1>6, <2>1, <2>2, <2>3, <2>4, <2>5 DEF Next, Advance

\* The lock of a live session stays until the session gives it up itself.
THEOREM KeptSafety == ASSUME Calm PROVE Spec => LockIsKept
<1>1. IInv /\ [Next]_vars =>
         [\A k \in Keys, w \in Workflows :
             lockKey[w] = k /\ sstate[k] = "live" /\ lockKey'[w] # k =>
                 \E r \in Requests : rkey[r] = k /\ pc'[r] # pc[r]]_vars
  BY KeptStep
<1>2. QED
  BY <1>1, LockInvariant, PTL DEF Spec, LockIsKept
-----------------------------------------------------------------------------
(* No lock is left behind, if no server process dies between taking the lock   *)
(* and storing the workflow in the session.                                    *)

Remembered ==
    \A k \in Keys, w \in Workflows :
        sstate[k] = "live" /\ lockKey[w] = k =>
            \/ ssid[k] = w
            \/ \E r \in Requests :
                  pc[r] = "granted" /\ rkey[r] = k /\ rwid[r] = w

\* Every step of clients who delete workflows but whose requests do not die keeps
\* Remembered.
LEMMA RememberStep ==
    ASSUME Habits \subseteq {"delete", "share"}, IInv, Remembered, [Next]_vars
    PROVE  Remembered'
<1>calm. /\ Calm
         /\ Habits \cap {"tabs", "multilogin", "direct", "api", "apiunlock",
                         "slow", "crash"} = {}
  BY DEF Calm
<1> USE LockAssumption, <1>calm
    DEF IInv, TypeInv, TypeOK, Located, Steps, Sessions, Serial, Served, Place,
        Remembers, Unopened, Working, Remembered
<1>1. CASE UNCHANGED vars
  BY <1>1 DEF vars, sessVars, reqVars
<1>2. ASSUME NEW k \in Keys, NEW u \in Users, Login(u, k) PROVE Remembered'
  BY <1>2 DEF Login, reqVars, Fresh
<1>3. ASSUME NEW k \in Keys, Logout(k) PROVE Remembered'
  BY <1>3 DEF Logout, reqVars, Serving
<1>4. ASSUME NEW k \in Keys, Expire(k) PROVE Remembered'
  BY <1>4 DEF Expire, reqVars, Serving
<1>5. ASSUME NEW r \in Requests, NEW u \in Users, NEW k \in Keys \cup {None},
             NEW w \in Workflows, Begin(r, u, k, w)
      PROVE  Remembered'
  BY <1>5 DEF Begin, MaySend, SidOf, sessVars, Serving
<1>6. ASSUME NEW r \in Requests, NEW u \in Users, NEW k \in Keys \cup {None},
             BeginHome(r, u, k)
      PROVE  Remembered'
  BY <1>6 DEF BeginHome, MaySend, sessVars, Serving
<1>7. ASSUME NEW r \in Requests, UnlockRead(r) PROVE Remembered'
  BY <1>7 DEF UnlockRead, Acquire, Goto, sessVars
<1>8. ASSUME NEW r \in Requests, UnlockNoRow(r) PROVE Remembered'
  BY <1>8, SMTT(60) DEF UnlockNoRow, Goto, EndHome, CanSave, SaveSession,
                        Forget, sessVars
<1>9. ASSUME NEW r \in Requests, UnlockWrite(r) PROVE Remembered'
  BY <1>9, SMTT(60) DEF UnlockWrite, Release, Goto, EndHome, CanSave,
                        SaveSession, Forget, sessVars
<1>10. ASSUME NEW r \in Requests, AccessRead(r) PROVE Remembered'
  BY <1>10 DEF AccessRead, Acquire, Goto, sessVars
<1>11. ASSUME NEW r \in Requests, Decide(r) PROVE Remembered'
  <2>1. rkey[r] # None /\ CanSave(rkey[r])
    BY <1>11 DEF Decide, CanSave
  <2>2. CASE KeepLock(r)
    <3>1. /\ UNCHANGED <<lockKey, sstate, ssid>>
          /\ \A q \in Requests \ {r} : UNCHANGED <<pc[q], rkey[q], rwid[q]>>
      <4>1. pc[r] = "deciding"
        BY <1>11 DEF Decide
      <4>2. rsid[r] = ssid[rkey[r]] /\ sstate[rkey[r]] = "live" /\ rkey[r] \in Keys
        BY <4>1
      <4>3. SaveSession(rkey[r], rsid[r]) /\ Granted(r, rkey[r], rsnap[r])
            /\ UNCHANGED lockKey
        BY <2>1, <2>2 DEF KeepLock
      <4>4. UNCHANGED <<sstate, ssid>>
        BY <4>2, <4>3 DEF SaveSession
      <4>5. QED
        BY <4>3, <4>4 DEF Granted
    <3>2. pc[r] = "deciding"
      BY <1>11 DEF Decide
    <3>3. QED
      BY <3>1, <3>2
  <2>3. CASE LockWithKey(r)
    <3>1. \A w \in Workflows : lockKey[w] = rkey[r] => w = rwid[r]
      BY <1>11 DEF Decide
    <3>2. QED
      BY <1>11, <2>1, <2>3, <3>1
         DEF Decide, LockWithKey, WriteKey, Granted, NoHolder
  <2>4. CASE Refuse(r)
    BY <1>11, <2>4 DEF Decide, Refuse, Goto, sessVars
  <2>5. QED
    BY <1>11, <2>1, <2>2, <2>3, <2>4 DEF Decide, LockWithNewKey, ExtendHolder
<1>12. ASSUME NEW r \in Requests, StoreInSession(r) PROVE Remembered'
  BY <1>12, SMTT(60) DEF StoreInSession, SaveSession, CanSave, Goto, sessVars
<1>13. ASSUME NEW r \in Requests, Finish(r) PROVE Remembered'
  BY <1>13 DEF Finish, EndRequest, SaveSession, CanSave, Forget, sessVars
<1>14. ASSUME NEW r \in Requests, ViewSave(r) PROVE Remembered'
  BY <1>14 DEF ViewSave, WriteKey, sessVars, reqVars
<1>15. ASSUME NEW r \in Requests, ViewUnlock(r) \/ Crash(r) PROVE Remembered'
  BY <1>15 DEF ViewUnlock, Crash
<1>16. ASSUME NEW r \in Requests, ViewDelete(r) PROVE Remembered'
  BY <1>16 DEF ViewDelete, EndRequest, SaveSession, CanSave, Forget, sessVars
<1>17. ASSUME NEW u \in Users, NEW k \in Keys \cup {None},
             NEW w \in Workflows, Create(u, k, w)
      PROVE  Remembered'
  BY <1>17 DEF Create, MaySend, Serving, SaveSession, sessVars, reqVars
<1>18. ASSUME NEW r \in Requests, NEW u \in Users, ViewShare(r, u)
       PROVE  Remembered'
  BY <1>18 DEF ViewShare, sessVars, reqVars
<1>19. QED
  BY <1>1, <1>2, <1>3, <1>4, <1>5, <1>6, <1>7, <1>8, <1>9, <1>10, <1>11,
     <1>12, <1>13, <1>14, <1>15, <1>16, <1>17, <1>18 DEF Next, Advance

\* A live session that serves no request and whose key is in a row remembers
\* that workflow: its user can give the lock back by going home.
THEOREM LeakSafety ==
    ASSUME Habits \subseteq {"delete", "share"} PROVE Spec => []NoLeakedLock
<1>1. Calm
  BY DEF Calm
<1>2. Init => Remembered
  BY LockAssumption DEF Init, Remembered
<1>3. IInv /\ Remembered /\ [Next]_vars => Remembered'
  BY RememberStep
<1>4. IInv /\ Remembered => NoLeakedLock
  BY DEF IInv, Remembered, NoLeakedLock, Serving
<1>5. Spec => []IInv
  BY <1>1, LockInvariant
<1>6. QED
  BY <1>2, <1>3, <1>4, <1>5, PTL DEF Spec
-----------------------------------------------------------------------------
(* Refinement: the lock implements ExclusiveAccess.                            *)

\* Nobody is inside a workflow at the start.
LEMMA InitRefines == Init => Promise!Init
  BY DEF Init, Promise!Init, Inside, Working

\* A step of the lock is a step of ExclusiveAccess or changes nothing in it: only
\* Decide lets a request in, and it finds nobody else inside.
LEMMA StepRefines ==
    ASSUME Calm, IInv, IInv', [Next]_vars PROVE [Promise!Next]_Inside
<1> DEFINE Same(q) == /\ Working(q)' <=> Working(q)
                      /\ Working(q) => rwid'[q] = rwid[q] /\ ruser'[q] = ruser[q]
           Quiet == \A q \in Requests : Same(q)
           Comes(r) == /\ ~ Working(r) /\ Working(r)'
                       /\ \A q \in Requests \ {r} : Same(q)
           Goes(r) == /\ Working(r) /\ ~ Working(r)'
                      /\ \A q \in Requests \ {r} : Same(q)
<1>1. Quiet \/ \E r \in Requests : Comes(r) \/ Goes(r)
  <2> USE DEF IInv, TypeInv, TypeOK, Steps, Working, sessVars, reqVars
  <2>1. CASE UNCHANGED vars
    BY <2>1 DEF vars
  <2>2. CASE \E k \in Keys : Logout(k) \/ Expire(k) \/ \E u \in Users : Login(u, k)
    BY <2>2 DEF Login, Logout, Expire
  <2>3. CASE \E r \in Requests, u \in Users, k \in Keys \cup {None} :
                \/ \E w \in Workflows : Begin(r, u, k, w)
                \/ BeginHome(r, u, k)
    BY <2>3 DEF Begin, BeginHome
  <2>4. CASE \E r \in Requests : UnlockRead(r) \/ UnlockNoRow(r) \/ UnlockWrite(r)
    BY <2>4 DEF UnlockRead, UnlockNoRow, UnlockWrite, Goto, EndHome, Forget
  <2>5. CASE \E r \in Requests : AccessRead(r)
    BY <2>5 DEF AccessRead, Goto
  <2>6. CASE \E r \in Requests : Decide(r)
    BY <2>6 DEF Decide, KeepLock, LockWithKey, LockWithNewKey, ExtendHolder,
                Refuse, Granted, Goto
  <2>7. CASE \E r \in Requests : StoreInSession(r) \/ Finish(r)
    BY <2>7 DEF StoreInSession, Finish, EndRequest, Goto, Forget
  <2>8. CASE \E r \in Requests : ViewSave(r) \/ ViewUnlock(r) \/ ViewDelete(r)
                                   \/ Crash(r)
    BY <2>8 DEF ViewSave, ViewUnlock, ViewDelete, Crash, EndRequest, Forget
  <2>9. CASE \/ \E u \in Users, k \in Keys \cup {None}, w \in Workflows :
                  Create(u, k, w)
             \/ \E r \in Requests, u \in Users : ViewShare(r, u)
    BY <2>9 DEF Create, ViewShare
  <2>10. QED
    BY <2>1, <2>2, <2>3, <2>4, <2>5, <2>6, <2>7, <2>8, <2>9 DEF Next, Advance
<1>2. ASSUME Quiet PROVE UNCHANGED Inside
  BY <1>2 DEF Inside
<1>3. ASSUME NEW q \in Requests, NEW r \in Requests, Working(q), Working(r),
             rwid[q] = rwid[r]
      PROVE  q = r
  BY <1>3 DEF IInv, Place, Working, Serial
<1>4. ASSUME NEW q \in Requests, NEW r \in Requests, Working(q)', Working(r)',
             rwid'[q] = rwid'[r]
      PROVE  q = r
  BY <1>4 DEF IInv, Place, Working, Serial
<1>5. ASSUME NEW r \in Requests, Comes(r) PROVE Promise!Next
  <2>1. rwid'[r] \in Workflows /\ ruser'[r] \in Users
    BY <1>5 DEF IInv, TypeInv, Located, Working, Served, Place
  <2>2. Inside[rwid'[r]] = {}
    BY <1>4, <1>5, <2>1 DEF Inside
  <2>3. Inside' = [Inside EXCEPT ![rwid'[r]] = {ruser'[r]}]
    <3>1. Inside'[rwid'[r]] = {ruser'[r]}
      BY <1>4, <1>5, <2>1 DEF Inside
    <3>2. ASSUME NEW w \in Workflows, w # rwid'[r] PROVE Inside'[w] = Inside[w]
      BY <1>5, <3>2 DEF Inside
    <3>3. QED
      BY <2>1, <3>1, <3>2 DEF Inside
  <2>4. Promise!Enter(rwid'[r], ruser'[r])
    BY <2>1, <2>2, <2>3 DEF Promise!Enter
  <2>5. QED
    BY <2>1, <2>4 DEF Promise!Next
<1>6. ASSUME NEW r \in Requests, Goes(r) PROVE Promise!Next
  <2>1. rwid[r] \in Workflows /\ ruser[r] \in Users
    BY <1>6 DEF IInv, TypeInv, Located, Working, Served
  <2>2. Inside[rwid[r]] = {ruser[r]}
    BY <1>3, <1>6, <2>1 DEF Inside
  <2>3. Inside' = [Inside EXCEPT ![rwid[r]] = @ \ {ruser[r]}]
    <3>1. Inside'[rwid[r]] = {}
      BY <1>3, <1>6, <2>1 DEF Inside
    <3>2. ASSUME NEW w \in Workflows, w # rwid[r] PROVE Inside'[w] = Inside[w]
      BY <1>6, <3>2 DEF Inside
    <3>3. QED
      BY <2>1, <2>2, <3>1, <3>2 DEF Inside
  <2>4. Promise!Leave(rwid[r], ruser[r])
    BY <2>2, <2>3 DEF Promise!Leave
  <2>5. QED
    BY <2>1, <2>4 DEF Promise!Next
<1>7. QED
  BY <1>1, <1>2, <1>5, <1>6

\* The lock keeps the promise of the documentation for calm clients.
THEOREM LockKeepsPromise == ASSUME Calm PROVE Spec => KeepsPromise
<1>1. IInv /\ IInv' /\ [Next]_vars => [Promise!Next]_Inside
  BY StepRefines
<1>2. QED
  BY <1>1, InitRefines, LockInvariant, PTL DEF Spec, KeepsPromise, Promise!Spec
=============================================================================
