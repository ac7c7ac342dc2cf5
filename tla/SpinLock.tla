------------------------------ MODULE SpinLock ------------------------------
(***************************************************************************)
(* The three mutexes of the library and the guards that take them:         *)
(* TSpinLock.hpp, TMutex.hpp, TMutexDummy.hpp and TLockGuard.hpp.          *)
(*                                                                         *)
(* A thread builds one guard at a time.  A LockGuard locks in its          *)
(* constructor and unlocks in its destructor; a LockGuardTry calls         *)
(* try_lock() and unlocks only if that returned true.  Every access to the *)
(* std::atomic<bool> of a SpinLock is one step, but the test of the flag   *)
(* and the store that takes it are two: SpinLock::lock() is a loop         *)
(* followed by an assignment.                                              *)
(***************************************************************************)
EXTENDS Naturals

CONSTANTS Threads,    \* the threads that share the mutex
          Kinds       \* the classes the mutex may be of

ASSUME KindsAssumption == Kinds \subseteq {"SpinLock", "Mutex", "MutexDummy"}

VARIABLES kind,       \* its class: the T of LockGuard<T>, for its whole life
          held,       \* the flag mSpinLock (of a std::mutex: it is locked)
          guard       \* where each thread is in the life of its guard

lockVars == <<kind, held, guard>>

(***************************************************************************)
(* "none"    the thread has no guard                                       *)
(* "waiting" it is in the constructor of a LockGuard, inside lock()        *)
(* "seen"    it read the flag as false and has not yet stored true         *)
(* "owns"    the guard is built and will unlock                            *)
(* "missed"  a LockGuardTry whose try_lock() returned false                *)
(***************************************************************************)
GuardState == {"none", "waiting", "seen", "owns", "missed"}

LockTypeOK == /\ kind \in Kinds
              /\ held \in BOOLEAN
              /\ guard \in [Threads -> GuardState]

LockInit == /\ kind \in Kinds
            /\ held = FALSE
            /\ guard = [t \in Threads |-> "none"]

Move(t, from, to) == /\ guard[t] = from
                     /\ guard' = [guard EXCEPT ![t] = to]
                     /\ UNCHANGED kind

\* LockGuard(T& mutex): lock() is called.
Enter(t) == Move(t, "none", "waiting") /\ UNCHANGED held

\* Defect: an exchange that lets everybody in.
GrantAlways(t, from) == Move(t, from, "owns") /\ held' = TRUE

(***************************************************************************)
(* What a free mutex does for a caller of lock() or try_lock(): a SpinLock *)
(* has only been read, a std::mutex is taken in the same step and a        *)
(* MutexDummy has nothing to take.                                         *)
(***************************************************************************)
Grant(t, from) ==
    \/ /\ kind = "SpinLock"
       /\ ~held
       /\ Move(t, from, "seen")
       /\ UNCHANGED held
    \/ /\ kind = "Mutex"
       /\ ~held
       /\ Move(t, from, "owns")
       /\ held' = TRUE
    \/ /\ kind = "MutexDummy"
       /\ Move(t, from, "owns")
       /\ UNCHANGED held

\* while (mSpinLock) { }: the read that ends the loop.  Reads that find the
\* flag set change nothing.
Acquire(t) == Grant(t, "waiting")

\* mSpinLock = true, in lock() and in try_lock().
Store(t) == /\ Move(t, "seen", "owns")
            /\ held' = TRUE

\* LockGuardTry(T& mutex) when the mutex looks free.
TryAcquire(t) == Grant(t, "none")

\* LockGuardTry(T& mutex) when it does not: try_lock() returns false.
TryMiss(t) == /\ held
              /\ Move(t, "none", "missed")
              /\ UNCHANGED held

\* Defect: the destructor does not unlock.
UnlockForgotten(t) == Move(t, "owns", "none") /\ UNCHANGED held

\* ~LockGuard() and ~LockGuardTry() with mGotLock.
Unlock(t) == /\ Move(t, "owns", "none")
             /\ held' = FALSE

\* Defect: the destructor unlocks whether or not try_lock() succeeded.
LeaveUnlocks(t) == Move(t, "missed", "none") /\ held' = FALSE

\* ~LockGuardTry() without mGotLock.
Leave(t) == Move(t, "missed", "none") /\ UNCHANGED held

LockStep(t) == Enter(t) \/ Acquire(t) \/ Store(t) \/ TryAcquire(t)
               \/ TryMiss(t) \/ Unlock(t) \/ Leave(t)

LockNext == \E t \in Threads : LockStep(t)

(***************************************************************************)
(* A thread that is inside lock(), try_lock() or the guarded scope keeps   *)
(* running (the operating system schedules it); nothing says that it ever  *)
(* builds a guard, or that a waiting thread reads the flag while it is     *)
(* free.                                                                   *)
(***************************************************************************)
LockFairness == \A t \in Threads :
    WF_lockVars(Acquire(t) \/ Store(t) \/ Unlock(t) \/ Leave(t))

LockSpec == LockInit /\ [][LockNext]_lockVars /\ LockFairness
-----------------------------------------------------------------------------
Owners == {t \in Threads : guard[t] = "owns"}

(***************************************************************************)
(* At most one thread is inside a guarded scope: what "lock was aquired"   *)
(* means to every user of a guard.                                         *)
(***************************************************************************)
MutualExclusion == \A t, u \in Owners : t = u

(***************************************************************************)
(* A std::mutex does exclude, its guards and failed tries in any order.    *)
(***************************************************************************)
StdMutexExcludes == kind = "Mutex" => MutualExclusion

(***************************************************************************)
(* The flag is set only while some guard will clear it: no interleaving of *)
(* guards and failed tries leaves the mutex locked for ever.               *)
(***************************************************************************)
HeldHasOwner == held => Owners # {}

(***************************************************************************)
(* The flag is cleared only by the destructor of a guard that took it; a   *)
(* LockGuardTry that missed never releases the lock of another thread.     *)
(***************************************************************************)
OnlyOwnerReleases ==
    [][held /\ ~held' => \E t \in Owners : guard'[t] = "none"]_lockVars

(***************************************************************************)
(* A thread waiting in lock() does not wait for nobody: some thread gets   *)
(* into the guarded scope (not always the waiting one: lock() is unfair).  *)
(***************************************************************************)
SomeoneGetsIn ==
    (\E t \in Threads : guard[t] = "waiting") ~> (Owners # {})
=============================================================================
