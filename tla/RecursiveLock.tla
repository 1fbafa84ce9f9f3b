---------------------------- MODULE RecursiveLock ----------------------------
(***************************************************************************)
(* The recursive lock of src/kern/acpi/mutex.c, which guards the event and *)
(* operation-region subsystems: a native mutex, the thread that owns it    *)
(* and how often that thread has acquired it.  The owner is read without   *)
(* the mutex, while other threads store it.                                *)
(*                                                                         *)
(* `held' counts, per thread, the acquires it has not released.  Threads   *)
(* release only what they have acquired, and the lock is created and       *)
(* destroyed when no thread is in a call.                                  *)
(***************************************************************************)
EXTENDS Naturals

CONSTANTS Threads, NoThread,
          MaxHeld,    \* bound on the recursion of a thread
          MaxFaults   \* bound on host failures of an acquire

ASSUME ThreadsAssumption == NoThread \notin Threads
ASSUME BoundsAssumption == MaxHeld \in Nat /\ MaxFaults \in Nat

VARIABLES live,    \* lock->mutex is not UACPI_NULL
          mutex,   \* its holder, or NoThread
          owner, depth,
          pc, held, faults

vars == <<live, mutex, owner, depth, pc, held, faults>>

Places == {"ready", "acquire", "take", "store", "release", "drop", "unlock"}

Goto(t, place) == pc' = [pc EXCEPT ![t] = place]
Quiet == \A t \in Threads : pc[t] = "ready"

Init ==
    /\ live = FALSE
    /\ mutex = NoThread /\ owner = NoThread /\ depth = 0
    /\ pc = [t \in Threads |-> "ready"]
    /\ held = [t \in Threads |-> 0]
    /\ faults = 0

\* A failed creation leaves no lock.
uacpi_recursive_lock_init ==
    /\ ~live /\ Quiet
    /\ live' = TRUE /\ mutex' = NoThread
    /\ owner' = NoThread /\ depth' = 0
    /\ UNCHANGED <<pc, held, faults>>

\* An active lock is reported, then reset and freed like an idle one; here
\* its holder has gone with the subsystem.
uacpi_recursive_lock_deinit ==
    /\ live /\ Quiet
    /\ live' = FALSE /\ mutex' = NoThread
    /\ owner' = NoThread /\ depth' = 0
    /\ held' = [t \in Threads |-> 0]
    /\ UNCHANGED <<pc, faults>>

-----------------------------------------------------------------------------
(***************************************************************************)
(* uacpi_recursive_lock_acquire.                                           *)
(***************************************************************************)
CallAcquire(t) ==
    /\ pc[t] = "ready" /\ held[t] < MaxHeld
    /\ Goto(t, "acquire")
    /\ UNCHANGED <<live, mutex, owner, depth, held, faults>>

\* Mutant: whoever finds an owner is taken for it.
LoadOwnerAny(t) ==
    /\ pc[t] = "acquire"
    /\ IF owner # NoThread
       THEN /\ depth' = depth + 1
            /\ held' = [held EXCEPT ![t] = @ + 1]
            /\ Goto(t, "ready")
       ELSE /\ Goto(t, "take")
            /\ UNCHANGED <<depth, held>>
    /\ UNCHANGED <<live, mutex, owner, faults>>

\* The unlocked read of the owner: the owner goes deeper at once.
LoadOwner(t) ==
    /\ pc[t] = "acquire"
    /\ IF owner = t
       THEN /\ depth' = depth + 1
            /\ held' = [held EXCEPT ![t] = @ + 1]
            /\ Goto(t, "ready")
       ELSE /\ Goto(t, "take")
            /\ UNCHANGED <<depth, held>>
    /\ UNCHANGED <<live, mutex, owner, faults>>

TakeMutex(t) ==
    /\ pc[t] = "take"
    /\ live /\ mutex = NoThread
    /\ mutex' = t
    /\ Goto(t, "store")
    /\ UNCHANGED <<live, owner, depth, held, faults>>

\* A null mutex, or a failure of the host.
TakeMutexFails(t) ==
    /\ pc[t] = "take"
    /\ \/ ~live /\ UNCHANGED faults
       \/ live /\ faults < MaxFaults /\ faults' = faults + 1
    /\ Goto(t, "ready")
    /\ UNCHANGED <<live, mutex, owner, depth, held>>

StoreOwner(t) ==
    /\ pc[t] = "store"
    /\ owner' = t
    /\ depth' = 1
    /\ held' = [held EXCEPT ![t] = @ + 1]
    /\ Goto(t, "ready")
    /\ UNCHANGED <<live, mutex, faults>>

-----------------------------------------------------------------------------
(***************************************************************************)
(* uacpi_recursive_lock_release.                                           *)
(***************************************************************************)
CallRelease(t) ==
    /\ pc[t] = "ready" /\ held[t] > 0
    /\ Goto(t, "release")
    /\ UNCHANGED <<live, mutex, owner, depth, held, faults>>

\* depth-- > 1
CountDown(t) ==
    /\ pc[t] = "release"
    /\ depth' = depth - 1
    /\ held' = [held EXCEPT ![t] = @ - 1]
    /\ Goto(t, IF depth > 1 THEN "ready" ELSE "drop")
    /\ UNCHANGED <<live, mutex, owner, faults>>

DropOwner(t) ==
    /\ pc[t] = "drop"
    /\ owner' = NoThread
    /\ Goto(t, "unlock")
    /\ UNCHANGED <<live, mutex, depth, held, faults>>

Unlock(t) ==
    /\ pc[t] = "unlock"
    /\ mutex' = NoThread
    /\ Goto(t, "ready")
    /\ UNCHANGED <<live, owner, depth, held, faults>>

-----------------------------------------------------------------------------
Proceed(t) ==
    \/ LoadOwner(t) \/ TakeMutex(t) \/ StoreOwner(t)
    \/ CallRelease(t) \/ CountDown(t) \/ DropOwner(t) \/ Unlock(t)

Next ==
    \/ uacpi_recursive_lock_init
    \/ uacpi_recursive_lock_deinit
    \/ \E t \in Threads : CallAcquire(t) \/ TakeMutexFails(t) \/ Proceed(t)

Spec == Init /\ [][Next]_vars

TypeOK ==
    /\ live \in BOOLEAN
    /\ mutex \in Threads \cup {NoThread} /\ owner \in Threads \cup {NoThread}
    /\ depth \in Nat
    /\ pc \in [Threads -> Places]
    /\ held \in [Threads -> Nat]
    /\ faults \in 0 .. MaxFaults

\* Safety: only one thread has acquired the lock without releasing it.
Exclusive == \A t, u \in Threads : held[t] > 0 /\ held[u] > 0 => t = u

\* Safety: the depth is the number of acquires the holder has to release, so
\* the mutex is given up with the last of them and not before.
DepthExact == \A t \in Threads : held[t] > 0 => owner = t /\ depth = held[t] /\ mutex = t

\* Safety: a thread never waits for a mutex it holds itself.  What another
\* thread stores as owner cannot hide from the holder that it is the holder.
NoSelfWait == \A t \in Threads : pc[t] = "take" => mutex # t

\* Safety: an idle lock is free.
FreeWhenIdle == live /\ Quiet /\ (\A t \in Threads : held[t] = 0) => mutex = NoThread

(***************************************************************************)
(* What the proofs add to make these inductive: a thread has the mutex     *)
(* exactly from its taking it to its giving it back, and is recorded as    *)
(* owner within that time only.                                            *)
(***************************************************************************)
InMutex(t) == held[t] > 0 \/ pc[t] \in {"store", "drop", "unlock"}

MutexExact == \A t \in Threads : InMutex(t) <=> mutex = t

OwnerKnown == \A t \in Threads : owner = t => held[t] > 0 \/ pc[t] = "drop"

PlacesFit ==
    \A t \in Threads :
        /\ pc[t] = "release" => held[t] > 0
        /\ pc[t] \in {"take", "store", "drop", "unlock"} => held[t] = 0

DeadIsFree == ~live => \A t \in Threads : ~InMutex(t)

IInv == TypeOK /\ DepthExact /\ MutexExact /\ OwnerKnown /\ PlacesFit /\ DeadIsFree
=============================================================================
