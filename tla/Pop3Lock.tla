------------------------------ MODULE Pop3Lock ------------------------------
(***************************************************************************)
(* Store.acquirePop3 and Store.pop3Mu: the mutex that serializes every     *)
(* operation of the store, with an acquisition that the caller's context   *)
(* can cancel.                                                             *)
(*                                                                         *)
(* Go's sync.Mutex cannot be waited for with a timeout, so a caller whose  *)
(* TryLock fails starts a helper goroutine that calls Lock and closes the  *)
(* channel `acquired`.  The caller selects between `acquired` and          *)
(* ctx.Done().  If the context wins, the helper is still going to lock the *)
(* mutex, so a cleanup goroutine waits for it and unlocks on behalf of     *)
(* nobody.  The hazard is the lock that stays held for ever after the      *)
(* caller has gone.                                                        *)
(*                                                                         *)
(* mu is the mutex: Free, the process whose call (or whose helper) locked  *)
(* it, or Abandoned when it was locked by a helper whose caller has given  *)
(* up and only the cleanup goroutine knows of it.                          *)
(***************************************************************************)
EXTENDS Naturals

CONSTANTS Procs,        \* the goroutines that call the store
          MaxOrphans    \* bound: helpers still in Lock whose caller gave up

Free == "free"
Abandoned == "abandoned"

ASSUME ProcsAssumption == Free \notin Procs /\ Abandoned \notin Procs
ASSUME OrphansAssumption == MaxOrphans \in Nat

VARIABLES mu,       \* Store.pop3Mu
          lk,       \* where each caller is in acquirePop3
          orphans   \* helpers of cancelled callers that wait in Lock

lockVars == <<mu, lk, orphans>>

LockTypeOK ==
    /\ mu \in Procs \cup {Free, Abandoned}
    /\ lk \in [Procs -> {"out", "waiting", "holding"}]
    /\ orphans \in 0..MaxOrphans

LockInit ==
    /\ mu = Free
    /\ lk = [p \in Procs |-> "out"]
    /\ orphans = 0

-----------------------------------------------------------------------------
\* Mutant: a caller that goes on although TryLock failed.
TryLockIgnored(p) ==
    /\ lk[p] = "out"
    /\ mu' = p
    /\ lk' = [lk EXCEPT ![p] = "holding"]
    /\ UNCHANGED orphans

\* if store.pop3Mu.TryLock() { return nil }
TryLock(p) ==
    /\ lk[p] = "out"
    /\ mu = Free
    /\ mu' = p
    /\ lk' = [lk EXCEPT ![p] = "holding"]
    /\ UNCHANGED orphans

\* TryLock fails: the helper goroutine is started and the caller selects.
TryLockFails(p) ==
    /\ lk[p] = "out"
    /\ mu # Free
    /\ lk' = [lk EXCEPT ![p] = "waiting"]
    /\ UNCHANGED <<mu, orphans>>

\* The helper's Lock returns and it closes `acquired`.
HelperLocks(p) ==
    /\ lk[p] = "waiting"
    /\ mu = Free
    /\ mu' = p
    /\ UNCHANGED <<lk, orphans>>

\* case <-acquired: the caller goes on, holding the mutex.
Acquired(p) ==
    /\ lk[p] = "waiting"
    /\ mu = p
    /\ lk' = [lk EXCEPT ![p] = "holding"]
    /\ UNCHANGED <<mu, orphans>>

\* Mutant: the caller leaves without a cleanup goroutine.
CancelWaitForgets(p) ==
    /\ lk[p] = "waiting"
    /\ lk' = [lk EXCEPT ![p] = "out"]
    /\ UNCHANGED <<mu, orphans>>

\* case <-ctx.Done(): the caller returns ctx.Err().  Select chooses freely when
\* `acquired` is closed too, and then the lock passes to the cleanup goroutine.
CancelWait(p) ==
    /\ lk[p] = "waiting"
    /\ lk' = [lk EXCEPT ![p] = "out"]
    /\ \/ /\ mu = p
          /\ mu' = Abandoned
          /\ UNCHANGED orphans
       \/ /\ mu # p
          /\ orphans < MaxOrphans
          /\ orphans' = orphans + 1
          /\ UNCHANGED mu

\* A helper whose caller gave up gets the mutex after all.
OrphanLocks ==
    /\ orphans > 0
    /\ mu = Free
    /\ mu' = Abandoned
    /\ orphans' = orphans - 1
    /\ UNCHANGED lk

\* Mutant: the cleanup goroutine waits for `acquired` and does not unlock.
CleanupKeeps ==
    /\ mu = Abandoned
    /\ UNCHANGED lockVars

\* The cleanup goroutine: <-acquired; store.pop3Mu.Unlock()
CleanupUnlocks ==
    /\ mu = Abandoned
    /\ mu' = Free
    /\ UNCHANGED <<lk, orphans>>

\* The deferred store.pop3Mu.Unlock() of an operation.
Unlock(p) ==
    /\ lk[p] = "holding"
    /\ mu' = Free
    /\ lk' = [lk EXCEPT ![p] = "out"]
    /\ UNCHANGED orphans

Background == OrphanLocks \/ CleanupUnlocks

LockNext ==
    \/ \E p \in Procs :
         \/ TryLock(p) \/ TryLockFails(p)
         \/ HelperLocks(p) \/ Acquired(p) \/ CancelWait(p)
         \/ Unlock(p)
    \/ Background

LockSpec == LockInit /\ [][LockNext]_lockVars

-----------------------------------------------------------------------------
(* Fairness.  A goroutine that can run runs: the caller takes its `acquired` *)
(* case, releases the lock it holds, the cleanup goroutine unlocks.  Being   *)
(* granted the mutex needs strong fairness, since another goroutine may take *)
(* it first any number of times: sync.Mutex switches to starvation mode when *)
(* a waiter has waited 1 ms and then hands the lock to the first waiter.     *)
(* Calling an operation and cancelling a context are the environment's       *)
(* choice and not fair.                                                      *)
LockFairness ==
    /\ \A p \in Procs : /\ SF_lockVars(HelperLocks(p))
                        /\ WF_lockVars(Acquired(p))
                        /\ WF_lockVars(Unlock(p))
    /\ SF_lockVars(OrphanLocks)
    /\ WF_lockVars(CleanupUnlocks)

LockFairSpec == LockSpec /\ LockFairness

-----------------------------------------------------------------------------
\* A caller inside an operation is the owner of the mutex, and the mutex is
\* never owned by a process that neither holds it nor is about to: a cancelled
\* acquisition (store.acquirePop3) leaves nothing behind in the caller's name.
LockOwned ==
    \A p \in Procs : /\ lk[p] = "holding" => mu = p
                     /\ mu = p => lk[p] \in {"waiting", "holding"}

\* acquirePop3 and the deferred Unlock implement the critical section of Mutex.
MutexSpec ==
    INSTANCE Mutex WITH inside <- {p \in Procs : lk[p] = "holding"}

ImplementsMutex == MutexSpec!Spec

\* Every caller that waits in acquirePop3 gets an answer: the lock, or the
\* cancellation of its context.
WaiterAnswered == \A p \in Procs : lk[p] = "waiting" ~> lk[p] # "waiting"
=============================================================================
