------------------------------- MODULE RwLock -------------------------------
(***************************************************************************)
(* The reader-writer lock of src/kern/acpi/mutex.c, which guards the ACPI  *)
(* namespace: a counter of readers under read_mutex, and a write_mutex     *)
(* that is taken by the first reader (or by a writer) and given back by    *)
(* the last reader, which need not be the thread that took it.             *)
(*                                                                         *)
(* The two mutexes are the host's (uacpi_kernel_acquire_mutex with an      *)
(* infinite timeout).  The host may fail an acquire with an internal       *)
(* error; MaxFaults bounds how often.  A thread whose uacpi_rw_unlock_read *)
(* fails has given up its read section without being uncounted: `leaked'   *)
(* remembers how many such readers the counter still contains.             *)
(*                                                                         *)
(* The lock is created and destroyed with the namespace, when no thread is *)
(* inside a call or holds the lock.                                        *)
(***************************************************************************)
EXTENDS Naturals, FiniteSets

CONSTANTS Threads, NoThread, MaxFaults

ASSUME ThreadsAssumption == IsFiniteSet(Threads) /\ NoThread \notin Threads
ASSUME FaultsAssumption == MaxFaults \in Nat

VARIABLES
    live,         \* the mutex pointers are not UACPI_NULL
    read_mutex,   \* the thread that holds it, or NoThread
    write_mutex,  \* is it held
    num_readers,
    pc,           \* where each thread is
    leaked,       \* readers counted for ever: their unlock failed
    faults        \* host failures so far

vars == <<live, read_mutex, write_mutex, num_readers, pc, leaked, faults>>

(***************************************************************************)
(* Where a thread is: outside, in one of the four functions, or inside the *)
(* section the lock protects.                                              *)
(***************************************************************************)
Places == {"idle", "lock_read", "count_in", "first_in", "exit_in", "reading",
           "unlock_read", "count_out", "exit_out", "lock_write", "writing"}

Quiet == \A t \in Threads : pc[t] = "idle"

Goto(t, place) == pc' = [pc EXCEPT ![t] = place]

Init ==
    /\ live = FALSE
    /\ read_mutex = NoThread
    /\ write_mutex = FALSE
    /\ num_readers = 0
    /\ pc = [t \in Threads |-> "idle"]
    /\ leaked = 0
    /\ faults = 0

\* Creation.  A failed creation of the second mutex frees the first one, so
\* both outcomes that do not create the lock leave no lock behind.
uacpi_rw_lock_init ==
    /\ ~live /\ Quiet
    /\ live' = TRUE
    /\ read_mutex' = NoThread
    /\ write_mutex' = FALSE
    /\ num_readers' = 0
    /\ UNCHANGED <<pc, leaked, faults>>

\* Destruction, with a warning when the counter is not zero.
uacpi_rw_lock_deinit ==
    /\ live /\ Quiet
    /\ live' = FALSE
    /\ num_readers' = 0
    /\ read_mutex' = NoThread
    /\ write_mutex' = FALSE
    /\ leaked' = 0
    /\ UNCHANGED <<pc, faults>>

-----------------------------------------------------------------------------
(***************************************************************************)
(* uacpi_acquire_native_mutex: fails at once on a null mutex, otherwise    *)
(* blocks until it has the mutex or the host reports an error.             *)
(***************************************************************************)
AcquireReadMutex(t) == live /\ read_mutex = NoThread /\ read_mutex' = t

AcquireWriteMutex == live /\ ~write_mutex /\ write_mutex' = TRUE

HostError ==
    \/ ~live /\ UNCHANGED faults
    \/ live /\ faults < MaxFaults /\ faults' = faults + 1

ReleaseReadMutex == read_mutex' = NoThread

\* What the last reader out and the leaving writer do.
ReleaseWriteMutex == write_mutex' = FALSE

-----------------------------------------------------------------------------
(***************************************************************************)
(* uacpi_rw_lock_read.                                                     *)
(***************************************************************************)
CallLockRead(t) ==
    /\ pc[t] = "idle"
    /\ Goto(t, "lock_read")
    /\ UNCHANGED <<live, read_mutex, write_mutex, num_readers, leaked, faults>>

LockReadEnter(t) ==
    /\ pc[t] = "lock_read"
    /\ AcquireReadMutex(t)
    /\ Goto(t, "count_in")
    /\ UNCHANGED <<live, write_mutex, num_readers, leaked, faults>>

LockReadFails(t) ==
    /\ pc[t] = "lock_read"
    /\ HostError
    /\ Goto(t, "idle")
    /\ UNCHANGED <<live, read_mutex, write_mutex, num_readers, leaked>>

\* num_readers++ == 0
LockReadCount(t) ==
    /\ pc[t] = "count_in"
    /\ num_readers' = num_readers + 1
    /\ Goto(t, IF num_readers = 0 THEN "first_in" ELSE "exit_in")
    /\ UNCHANGED <<live, read_mutex, write_mutex, leaked, faults>>

\* The first reader takes the write mutex while it holds the read mutex.
LockReadFirst(t) ==
    /\ pc[t] = "first_in"
    /\ AcquireWriteMutex
    /\ Goto(t, "exit_in")
    /\ UNCHANGED <<live, read_mutex, num_readers, leaked, faults>>

LockReadFirstFails(t) ==
    /\ pc[t] = "first_in"
    /\ HostError
    /\ num_readers' = 0
    /\ ReleaseReadMutex
    /\ Goto(t, "idle")
    /\ UNCHANGED <<live, write_mutex, leaked>>

LockReadExit(t) ==
    /\ pc[t] = "exit_in"
    /\ ReleaseReadMutex
    /\ Goto(t, "reading")
    /\ UNCHANGED <<live, write_mutex, num_readers, leaked, faults>>

-----------------------------------------------------------------------------
(***************************************************************************)
(* uacpi_rw_unlock_read.                                                   *)
(***************************************************************************)
CallUnlockRead(t) ==
    /\ pc[t] = "reading"
    /\ Goto(t, "unlock_read")
    /\ UNCHANGED <<live, read_mutex, write_mutex, num_readers, leaked, faults>>

UnlockReadEnter(t) ==
    /\ pc[t] = "unlock_read"
    /\ AcquireReadMutex(t)
    /\ Goto(t, "count_out")
    /\ UNCHANGED <<live, write_mutex, num_readers, leaked, faults>>

\* The error is returned before the counter is touched.
UnlockReadFails(t) ==
    /\ pc[t] = "unlock_read"
    /\ HostError
    /\ leaked' = leaked + 1
    /\ Goto(t, "idle")
    /\ UNCHANGED <<live, read_mutex, write_mutex, num_readers>>

\* Mutants: the write mutex is released by every reader that leaves; or is
\* compared with the counter after the decrement.
UnlockReadCountAny(t) ==
    /\ pc[t] = "count_out"
    /\ num_readers' = num_readers - 1
    /\ ReleaseWriteMutex
    /\ Goto(t, "exit_out")
    /\ UNCHANGED <<live, read_mutex, leaked, faults>>

UnlockReadCountPre(t) ==
    /\ pc[t] = "count_out"
    /\ num_readers' = num_readers - 1
    /\ IF num_readers - 1 = 1 THEN ReleaseWriteMutex ELSE UNCHANGED write_mutex
    /\ Goto(t, "exit_out")
    /\ UNCHANGED <<live, read_mutex, leaked, faults>>

\* num_readers-- == 1
UnlockReadCount(t) ==
    /\ pc[t] = "count_out"
    /\ num_readers' = num_readers - 1
    /\ IF num_readers = 1 THEN ReleaseWriteMutex ELSE UNCHANGED write_mutex
    /\ Goto(t, "exit_out")
    /\ UNCHANGED <<live, read_mutex, leaked, faults>>

UnlockReadExit(t) ==
    /\ pc[t] = "exit_out"
    /\ ReleaseReadMutex
    /\ Goto(t, "idle")
    /\ UNCHANGED <<live, write_mutex, num_readers, leaked, faults>>

-----------------------------------------------------------------------------
(***************************************************************************)
(* uacpi_rw_lock_write and uacpi_rw_unlock_write.                          *)
(***************************************************************************)
CallLockWrite(t) ==
    /\ pc[t] = "idle"
    /\ Goto(t, "lock_write")
    /\ UNCHANGED <<live, read_mutex, write_mutex, num_readers, leaked, faults>>

LockWriteEnter(t) ==
    /\ pc[t] = "lock_write"
    /\ AcquireWriteMutex
    /\ Goto(t, "writing")
    /\ UNCHANGED <<live, read_mutex, num_readers, leaked, faults>>

LockWriteFails(t) ==
    /\ pc[t] = "lock_write"
    /\ HostError
    /\ Goto(t, "idle")
    /\ UNCHANGED <<live, read_mutex, write_mutex, num_readers, leaked>>

UnlockWrite(t) ==
    /\ pc[t] = "writing"
    /\ ReleaseWriteMutex
    /\ Goto(t, "idle")
    /\ UNCHANGED <<live, read_mutex, num_readers, leaked, faults>>

-----------------------------------------------------------------------------
\* The steps a thread takes once it has called, and its leaving the section.
Proceed(t) ==
    \/ LockReadEnter(t) \/ LockReadCount(t) \/ LockReadFirst(t)
    \/ LockReadExit(t)
    \/ CallUnlockRead(t) \/ UnlockReadEnter(t) \/ UnlockReadCount(t)
    \/ UnlockReadExit(t)
    \/ LockWriteEnter(t) \/ UnlockWrite(t)

Fail(t) ==
    \/ LockReadFails(t) \/ LockReadFirstFails(t) \/ UnlockReadFails(t)
    \/ LockWriteFails(t)

Next ==
    \/ uacpi_rw_lock_init
    \/ uacpi_rw_lock_deinit
    \/ \E t \in Threads : CallLockRead(t) \/ CallLockWrite(t)
    \/ \E t \in Threads : Proceed(t)
    \/ \E t \in Threads : Fail(t)

Spec == Init /\ [][Next]_vars

-----------------------------------------------------------------------------
TypeOK ==
    /\ live \in BOOLEAN
    /\ read_mutex \in Threads \cup {NoThread}
    /\ write_mutex \in BOOLEAN
    /\ num_readers \in Nat
    /\ pc \in [Threads -> Places]
    /\ leaked \in Nat
    /\ faults \in 0 .. MaxFaults

Readers == {t \in Threads : pc[t] \in {"reading", "unlock_read"}}
Writers == {t \in Threads : pc[t] = "writing"}

\* The threads the counter contains, and those of them that have the write
\* mutex behind them.
CountedPlaces == {"first_in", "exit_in", "reading", "unlock_read", "count_out"}
Counted == {t \in Threads : pc[t] \in CountedPlaces}
Sharing == {t \in Threads : pc[t] \in CountedPlaces \ {"first_in"}}

\* Safety: a writer of the namespace is alone in it, whatever acquire fails
\* and whichever reader leaves last.
MutualExclusion ==
    \A t, u \in Threads :
        pc[t] = "writing" /\ t # u => u \notin Readers \cup Writers

\* Safety: the counter is exact between any two steps: the readers in, those
\* on their way in or out, and those whose unlock failed.  Resetting it to 0
\* on a failed first acquire loses nobody.
CountExact == num_readers = Cardinality(Counted) + leaked

\* Safety: a thread that waits for the write mutex while it holds the read
\* mutex is never waited for by a reader on its way out (both would wait
\* for ever): the only counted reader is itself.
NoCircularWait ==
    \A t \in Threads : pc[t] = "first_in" =>
        /\ Counted = {t}
        /\ leaked = 0

\* Safety: the lock is free when nobody is in it, unless an unlock failed.
NotLeftHeld == live /\ Quiet /\ leaked = 0 => read_mutex = NoThread /\ ~write_mutex

(***************************************************************************)
(* What the proofs add to these to make them inductive: who is inside a    *)
(* function holds the read mutex, and the write mutex is held exactly for  *)
(* a writer or for the readers past the first one's acquire.               *)
(***************************************************************************)
HoldingPlaces == {"count_in", "first_in", "exit_in", "count_out", "exit_out"}

HolderInside == \A t \in Threads : pc[t] \in HoldingPlaces <=> read_mutex = t

WriterHolds ==
    \A t \in Threads : pc[t] = "writing" =>
        /\ write_mutex
        /\ Writers = {t}
        /\ Sharing = {} /\ leaked = 0

ReadersHold == Sharing # {} \/ leaked > 0 => write_mutex

HeldForSomebody == write_mutex => Writers # {} \/ Sharing # {} \/ leaked > 0

DeadIsFree ==
    ~live => /\ \A t \in Threads : pc[t] \in {"idle", "lock_read", "lock_write"}
             /\ leaked = 0

IInv ==
    /\ TypeOK /\ CountExact /\ NoCircularWait /\ HolderInside
    /\ WriterHolds /\ ReadersHold /\ HeldForSomebody /\ DeadIsFree

\* Liveness: when a thread waits for the lock, some thread gets into its
\* section or the wait ends with the host's error, unless an unlock failed.
Waiting(t) == pc[t] \in {"lock_read", "lock_write"}
SomebodyGetsIn ==
    (live /\ \E t \in Threads : Waiting(t)) ~>
        (\/ \E t \in Threads : pc[t] \in {"reading", "writing"}
         \/ leaked > 0
         \/ \A t \in Threads : ~Waiting(t))
=============================================================================
