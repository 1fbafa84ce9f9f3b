----------------------------- MODULE GlobalLock -----------------------------
(***************************************************************************)
(* The ACPI global lock of src/kern/acpi/mutex.c: a word in the FACS that  *)
(* the firmware and the operating system compare-and-swap, the interrupt   *)
(* that tells the system that the firmware let go (handle_global_lock of   *)
(* event.c), the public API (uacpi_acquire_global_lock and its release)    *)
(* and AML code that takes \_GL through uacpi_acquire_aml_mutex, dropping  *)
(* the namespace write lock while it waits.                                *)
(*                                                                         *)
(* The load of the word and its compare-and-swap are separate steps: the   *)
(* firmware may act between them.  The firmware follows the same protocol  *)
(* on the word and is external.  The other bits of the word are kept by    *)
(* both sides and are left out.  The locals of a call (call, value, spins) *)
(* are reset when they are no longer read.                                 *)
(***************************************************************************)
EXTENDS Naturals

CONSTANTS Threads, NoThread,
          HasLock,    \* has_global_lock
          MaxSpins,   \* 0xFFFF, the attempts before a hardware timeout
          MaxSeq,     \* 0xFFFFFFFF, where the sequence number restarts
          MaxDepth    \* 0xFFFF, the deepest recursion of an AML mutex

ASSUME ThreadsAssumption == NoThread \notin Threads
ASSUME BoundsAssumption ==
    /\ HasLock \in BOOLEAN
    /\ MaxSpins \in Nat \ {0} /\ MaxSeq \in Nat \ {0} /\ MaxDepth \in Nat \ {0}

VARIABLES
    word,      \* facs->global_lock: is it owned, is the other side waiting
    fw,        \* the firmware: "out", "in", "wait" for GBL_RLS, "told"
    irq,       \* GBL_STS: the release interrupt is raised
    spinlock,  \* holder of global_lock_spinlock, or NoThread
    pending,   \* global_lock_pending
    event,     \* counter of global_lock_event
    mutex,     \* holder of the native mutex of \_GL, or NoThread
    owner, depth,            \* of the AML mutex
    seq_num, acquired,       \* of the public API
    ns,        \* holder of the namespace write lock, or NoThread
    pc,        \* where each thread is
    call,      \* on whose behalf: the API or AML, and is the wait bounded
    value,     \* the word each thread has loaded
    spins, seq \* its attempts, and the number the API returned to it

hardware == <<word, fw, irq>>
wait == <<spinlock, pending, event>>
aml == <<owner, depth, ns>>
api == <<seq_num, acquired, seq>>
locals == <<pc, call, value, spins>>
vars == <<hardware, wait, mutex, aml, api, locals>>

Words == [owned : BOOLEAN, pending : BOOLEAN]
FreeWord == [owned |-> FALSE, pending |-> FALSE]
Places == {"idle", "mutex", "spin", "load", "cas", "wait", "got", "failed",
           "held", "ns", "aml", "rel_load", "rel_cas", "rel_tell",
           "rel_owner", "rel_mutex"}
Calls == {"api", "aml"} \X BOOLEAN

Goto(t, place) == pc' = [pc EXCEPT ![t] = place]
ByAml(t) == call[t][1] = "aml"
MayTimeOut(t) == call[t][2]

Init ==
    /\ word = FreeWord /\ fw = "out" /\ irq = FALSE
    /\ spinlock = NoThread /\ pending = FALSE /\ event = 0
    /\ mutex = NoThread /\ owner = NoThread /\ depth = 0
    /\ seq_num = 0 /\ acquired = FALSE /\ ns = NoThread
    /\ pc = [t \in Threads |-> "idle"]
    /\ call = [t \in Threads |-> <<"api", FALSE>>]
    /\ value = [t \in Threads |-> FreeWord]
    /\ spins = [t \in Threads |-> 0]
    /\ seq = [t \in Threads |-> 0]

-----------------------------------------------------------------------------
(***************************************************************************)
(* The firmware and its interrupt.                                         *)
(***************************************************************************)
FirmwareAcquire ==
    /\ HasLock /\ fw \in {"out", "told"}
    /\ word' = [owned |-> TRUE, pending |-> word.owned]
    /\ fw' = IF word.owned THEN "wait" ELSE "in"
    /\ UNCHANGED <<irq, wait, mutex, aml, api, locals>>

FirmwareRelease ==
    /\ fw = "in"
    /\ word' = FreeWord
    /\ irq' = (irq \/ word.pending)
    /\ fw' = "out"
    /\ UNCHANGED <<wait, mutex, aml, api, locals>>

\* The interrupt handler, under the spinlock: one signal for one wait.
handle_global_lock ==
    /\ irq /\ spinlock = NoThread
    /\ irq' = FALSE
    /\ event' = IF pending THEN event + 1 ELSE event
    /\ pending' = FALSE
    /\ UNCHANGED <<word, fw, spinlock, mutex, aml, api, locals>>

-----------------------------------------------------------------------------
(***************************************************************************)
(* Calls.  A thread calls the public API from outside, or runs AML, which  *)
(* it does with the namespace write lock in hand.                          *)
(***************************************************************************)
CallAcquire(t, timed) ==
    /\ pc[t] = "idle"
    /\ call' = [call EXCEPT ![t] = <<"api", timed>>]
    /\ Goto(t, "mutex")
    /\ UNCHANGED <<hardware, wait, mutex, aml, api, value, spins>>

EnterAml(t) ==
    /\ pc[t] = "idle" /\ ns = NoThread
    /\ ns' = t
    /\ Goto(t, "aml")
    /\ UNCHANGED <<hardware, wait, mutex, owner, depth, api, call, value, spins>>

LeaveAml(t) ==
    /\ pc[t] = "aml" /\ owner # t
    /\ ns' = NoThread
    /\ Goto(t, "idle")
    /\ UNCHANGED <<hardware, wait, mutex, owner, depth, api, call, value, spins>>

\* uacpi_acquire_aml_mutex by the owner: deeper, or denied at the limit.
AmlReenter(t) ==
    /\ pc[t] = "aml" /\ owner = t /\ depth < MaxDepth
    /\ depth' = depth + 1
    /\ UNCHANGED <<hardware, wait, mutex, owner, ns, api, locals>>

\* By another thread: the namespace is unlocked for the wait.
AmlAcquire(t, timed) ==
    /\ pc[t] = "aml" /\ owner # t
    /\ ns' = NoThread
    /\ call' = [call EXCEPT ![t] = <<"aml", timed>>]
    /\ Goto(t, "mutex")
    /\ UNCHANGED <<hardware, wait, mutex, owner, depth, api, value, spins>>

\* Where a call that did not get the lock goes.
GiveUp(t) ==
    /\ Goto(t, IF ByAml(t) THEN "ns" ELSE "idle")
    /\ call' = [call EXCEPT ![t] = <<"api", FALSE>>]

\* uacpi_acquire_native_mutex_with_timeout.
TakeMutex(t) ==
    /\ pc[t] = "mutex" /\ mutex = NoThread
    /\ mutex' = t
    /\ call' = [call EXCEPT ![t] = <<@[1], FALSE>>]
    /\ Goto(t, IF HasLock THEN "spin" ELSE "got")
    /\ UNCHANGED <<hardware, wait, aml, api, value, spins>>

MutexTimeout(t) ==
    /\ pc[t] = "mutex" /\ MayTimeOut(t)
    /\ GiveUp(t)
    /\ UNCHANGED <<hardware, wait, mutex, aml, api, value, spins>>

-----------------------------------------------------------------------------
(***************************************************************************)
(* uacpi_acquire_global_lock_from_firmware.                                *)
(***************************************************************************)
TakeSpinlock(t) ==
    /\ pc[t] = "spin" /\ spinlock = NoThread
    /\ spinlock' = t
    /\ spins' = [spins EXCEPT ![t] = @ + 1]
    /\ Goto(t, "load")
    /\ UNCHANGED <<hardware, pending, event, mutex, aml, api, call, value>>

\* The volatile read, of either compare-and-swap loop.
LoadWord(t) ==
    /\ pc[t] \in {"load", "rel_load"}
    /\ value' = [value EXCEPT ![t] = word]
    /\ Goto(t, IF pc[t] = "load" THEN "cas" ELSE "rel_cas")
    /\ UNCHANGED <<hardware, wait, mutex, aml, api, call, spins>>

\* The compare-and-swap fails and hands back the word it found.
CasRetry(t) ==
    /\ pc[t] \in {"cas", "rel_cas"} /\ value[t] # word
    /\ value' = [value EXCEPT ![t] = word]
    /\ UNCHANGED <<hardware, wait, mutex, aml, api, pc, call, spins>>

\* Mutant: the pending bit is not set for a lock that is owned.
AcquiredWordQuiet(v) == [owned |-> TRUE, pending |-> FALSE]

\* try_acquire_global_lock_from_firmware: owned, and pending iff it was owned.
AcquiredWord(v) == [owned |-> TRUE, pending |-> v.owned]

\* do_release_global_lock_to_firmware: both bits cleared.
ReleasedWord(v) == FreeWord

\* Mutant: the first attempt is the last.
CasNoWait(t) ==
    /\ pc[t] = "cas" /\ value[t] = word
    /\ word' = AcquiredWord(value[t])
    /\ value' = [value EXCEPT ![t] = FreeWord]
    /\ spins' = [spins EXCEPT ![t] = IF value[t].owned /\ @ # MaxSpins THEN @ ELSE 0]
    /\ spinlock' = NoThread
    /\ pending' = FALSE
    /\ Goto(t, "got")
    /\ UNCHANGED <<fw, irq, event, mutex, aml, api, call>>

\* Mutant: the wait is announced only after the spinlock is let go of, and
\* the announcement is lost.
CasUnannounced(t) ==
    /\ pc[t] = "cas" /\ value[t] = word
    /\ word' = AcquiredWord(value[t])
    /\ value' = [value EXCEPT ![t] = FreeWord]
    /\ spins' = [spins EXCEPT ![t] = IF value[t].owned /\ @ # MaxSpins THEN @ ELSE 0]
    /\ spinlock' = NoThread
    /\ pending' = FALSE
    /\ Goto(t, IF ~value[t].owned THEN "got"
               ELSE IF spins[t] = MaxSpins THEN "failed" ELSE "wait")
    /\ UNCHANGED <<fw, irq, event, mutex, aml, api, call>>

\* The compare-and-swap succeeds: the lock is ours, or the attempts are used
\* up, or the wait for the interrupt is announced before the spinlock is
\* released.
Cas(t) ==
    /\ pc[t] = "cas" /\ value[t] = word
    /\ word' = AcquiredWord(value[t])
    /\ value' = [value EXCEPT ![t] = FreeWord]
    /\ spins' = [spins EXCEPT ![t] = IF value[t].owned /\ @ # MaxSpins THEN @ ELSE 0]
    /\ spinlock' = NoThread
    /\ pending' = (value[t].owned /\ spins[t] # MaxSpins)
    /\ Goto(t, IF ~value[t].owned THEN "got"
               ELSE IF spins[t] = MaxSpins THEN "failed" ELSE "wait")
    /\ UNCHANGED <<fw, irq, event, mutex, aml, api, call>>

\* uacpi_kernel_wait_for_event with an infinite timeout.
WaitForEvent(t) ==
    /\ pc[t] = "wait" /\ event > 0
    /\ event' = event - 1
    /\ Goto(t, "spin")
    /\ UNCHANGED <<hardware, spinlock, pending, mutex, aml, api, call, value, spins>>

\* UACPI_STATUS_HARDWARE_TIMEOUT: the native mutex is given back.
Failed(t) ==
    /\ pc[t] = "failed"
    /\ mutex' = NoThread
    /\ GiveUp(t)
    /\ UNCHANGED <<hardware, wait, aml, api, value, spins>>

\* The rest of uacpi_acquire_global_lock: the number that was current is
\* returned, the counter has moved on.
GotByApi(t) ==
    /\ pc[t] = "got" /\ ~ByAml(t)
    /\ LET s == IF seq_num = MaxSeq THEN 0 ELSE seq_num
       IN  seq' = [seq EXCEPT ![t] = s] /\ seq_num' = s + 1
    /\ acquired' = TRUE
    /\ Goto(t, "held")
    /\ UNCHANGED <<hardware, wait, mutex, aml, call, value, spins>>

\* The rest of uacpi_acquire_aml_mutex.
GotByAml(t) ==
    /\ pc[t] = "got" /\ ByAml(t)
    /\ owner' = t
    /\ depth' = 1
    /\ call' = [call EXCEPT ![t] = <<"api", FALSE>>]
    /\ Goto(t, "ns")
    /\ UNCHANGED <<hardware, wait, mutex, ns, api, value, spins>>

RelockNamespace(t) ==
    /\ pc[t] = "ns" /\ ns = NoThread
    /\ ns' = t
    /\ Goto(t, "aml")
    /\ UNCHANGED <<hardware, wait, mutex, owner, depth, api, call, value, spins>>

-----------------------------------------------------------------------------
(***************************************************************************)
(* Release.                                                                *)
(***************************************************************************)
StartRelease(t) == Goto(t, IF HasLock THEN "rel_load" ELSE "rel_owner")

\* uacpi_release_global_lock with any number; all but the counter's current
\* value are refused and change nothing.
uacpi_release_global_lock(t, s) ==
    /\ pc[t] = "held"
    /\ acquired /\ s = seq_num
    /\ acquired' = FALSE
    /\ seq' = [seq EXCEPT ![t] = 0]
    /\ StartRelease(t)
    /\ UNCHANGED <<hardware, wait, mutex, aml, seq_num, call, value, spins>>

\* uacpi_release_aml_mutex by the owner.
AmlRelease(t) ==
    /\ pc[t] = "aml" /\ owner = t
    /\ depth' = depth - 1
    /\ IF depth > 1 THEN UNCHANGED pc ELSE StartRelease(t)
    /\ UNCHANGED <<hardware, wait, mutex, owner, ns, api, call, value, spins>>

ReleaseCas(t) ==
    /\ pc[t] = "rel_cas" /\ value[t] = word
    /\ value' = [value EXCEPT ![t] = FreeWord]
    /\ word' = ReleasedWord(value[t])
    /\ Goto(t, IF value[t].pending THEN "rel_tell" ELSE "rel_owner")
    /\ UNCHANGED <<fw, irq, wait, mutex, aml, api, call, spins>>

\* uacpi_write_register_field(GBL_RLS): the firmware is told.
TellFirmware(t) ==
    /\ pc[t] = "rel_tell"
    /\ fw' = IF fw = "wait" THEN "told" ELSE fw
    /\ Goto(t, "rel_owner")
    /\ UNCHANGED <<word, irq, wait, mutex, aml, api, call, value, spins>>

\* The owner is cleared before the native mutex is released.
ClearOwner(t) ==
    /\ pc[t] = "rel_owner"
    /\ owner' = IF ns = t THEN NoThread ELSE owner
    /\ Goto(t, "rel_mutex")
    /\ UNCHANGED <<hardware, wait, mutex, depth, ns, api, call, value, spins>>

ReleaseMutex(t) ==
    /\ pc[t] = "rel_mutex"
    /\ mutex' = NoThread
    /\ Goto(t, IF ns = t THEN "aml" ELSE "idle")
    /\ UNCHANGED <<hardware, wait, aml, api, call, value, spins>>

-----------------------------------------------------------------------------
\* The steps of a thread inside a function.
Proceed(t) ==
    \/ TakeMutex(t) \/ TakeSpinlock(t) \/ LoadWord(t) \/ CasRetry(t)
    \/ Cas(t) \/ WaitForEvent(t) \/ Failed(t) \/ GotByApi(t) \/ GotByAml(t)
    \/ RelockNamespace(t) \/ ReleaseCas(t) \/ TellFirmware(t)
    \/ ClearOwner(t) \/ ReleaseMutex(t)

Next ==
    \/ FirmwareAcquire \/ FirmwareRelease \/ handle_global_lock
    \/ \E t \in Threads :
        \/ \E timed \in BOOLEAN : CallAcquire(t, timed) \/ AmlAcquire(t, timed)
        \/ EnterAml(t) \/ LeaveAml(t) \/ AmlReenter(t) \/ AmlRelease(t)
        \/ MutexTimeout(t)
        \/ \E s \in 0 .. MaxSeq : uacpi_release_global_lock(t, s)
        \/ Proceed(t)

Spec == Init /\ [][Next]_vars

(***************************************************************************)
(* The scheduler runs every thread, a raised interrupt is delivered once   *)
(* the spinlock is free, and the firmware releases what it holds.          *)
(***************************************************************************)
FairSpec ==
    /\ Spec
    /\ \A t \in Threads : WF_vars(Proceed(t))
    /\ WF_vars(handle_global_lock)
    /\ WF_vars(FirmwareRelease)

-----------------------------------------------------------------------------
TypeOK ==
    /\ word \in Words /\ fw \in {"out", "in", "wait", "told"} /\ irq \in BOOLEAN
    /\ spinlock \in Threads \cup {NoThread} /\ pending \in BOOLEAN /\ event \in Nat
    /\ mutex \in Threads \cup {NoThread}
    /\ owner \in Threads \cup {NoThread} /\ depth \in 0 .. MaxDepth
    /\ seq_num \in 0 .. MaxSeq /\ acquired \in BOOLEAN
    /\ ns \in Threads \cup {NoThread}
    /\ pc \in [Threads -> Places] /\ call \in [Threads -> Calls]
    /\ value \in [Threads -> Words]
    /\ spins \in [Threads -> 0 .. MaxSpins] /\ seq \in [Threads -> 0 .. MaxSeq]

\* A thread owns the hardware word from its successful swap to the swap of
\* its release.
Holds(t) ==
    \/ pc[t] \in {"got", "held", "rel_load", "rel_cas"}
    \/ owner = t /\ pc[t] \in {"ns", "aml"}

\* Safety: the firmware and one thread at most, or neither, are in.
Exclusion ==
    /\ \A t, u \in Threads : Holds(t) /\ Holds(u) => t = u
    /\ fw = "in" => \A t \in Threads : ~Holds(t)

\* Safety: a thread that waits for the firmware will be woken: either the
\* event is signalled, or its wait is still announced and the release that
\* signals it is raised or yet to come.
NoLostWakeup ==
    \A t \in Threads : pc[t] = "wait" =>
        \/ event > 0
        \/ pending /\ (irq \/ (fw = "in" /\ word.pending))

\* Safety: a signal is never left over for a later wait.
NoStaleSignal == event > 0 => event = 1 /\ \E t \in Threads : pc[t] = "wait"

\* A firmware that waits will be told: the lock is held by a thread that will
\* find the pending bit, or a thread is about to tell.
NoLostRelease ==
    fw = "wait" =>
        \/ word.pending /\ \E t \in Threads : Holds(t)
        \/ \E t \in Threads : pc[t] = "rel_tell"

\* Safety: wait and signal match on both sides of the word: no wait for the
\* release interrupt is forgotten, no signal of it is stale, and the firmware's
\* own wait (the pending bit of do_release_global_lock_to_firmware) is answered.
SignalExact == NoLostWakeup /\ NoStaleSignal /\ NoLostRelease

\* Safety: who is recorded as owner of the AML mutex has the native mutex.
OwnerHasMutex == owner # NoThread => mutex = owner

\* Safety: the software's two locks and the word tell one story of who is in.
LockSound == TypeOK /\ Exclusion /\ OwnerHasMutex

\* Liveness: the wait for the firmware ends, if the firmware releases what it
\* holds, however often it takes the lock again meanwhile.  (A wait may be
\* followed by another; the swap loop itself may be raced for ever.)
FirmwareAnswers == \A t \in Threads : pc[t] = "wait" ~> pc[t] # "wait"

\* What uacpi.h says of the number an acquire returns: it validates the
\* release of that acquire.
ReturnedSeqValid == \A t \in Threads : pc[t] = "held" => seq[t] = seq_num
(***************************************************************************)
(* What the proofs add to make these inductive.  The native mutex runs     *)
(* through every call: what the word, the announced wait, the event and    *)
(* the firmware's own wait say is always about the thread that has it.     *)
(***************************************************************************)
InMutex(t) ==
    \/ pc[t] \in {"spin", "load", "cas", "wait", "got", "failed", "held",
                  "rel_load", "rel_cas", "rel_tell", "rel_owner", "rel_mutex"}
    \/ owner = t

MutexExact == \A t \in Threads : InMutex(t) <=> mutex = t

SpinlockExact == \A t \in Threads : spinlock = t <=> pc[t] \in {"load", "cas"}

\* AML has the namespace, but for its wait; the release of the API has not.
NamespaceExact ==
    \A t \in Threads :
        /\ pc[t] = "aml" => ns = t
        /\ ns = t => pc[t] \in {"aml", "rel_load", "rel_cas", "rel_tell",
                               "rel_owner", "rel_mutex"}
        /\ pc[t] \in {"rel_load", "rel_cas", "rel_tell", "rel_owner"} =>
             (ns = t <=> owner = t)

OwnerPlaces ==
    \A t \in Threads : owner = t =>
        /\ pc[t] \in {"ns", "aml", "rel_load", "rel_cas", "rel_tell", "rel_owner"}
        /\ pc[t] \in {"ns", "aml"} => depth > 0

\* The attempts of a wait are counted until they are used up.
SpinsFit ==
    \A t \in Threads :
        /\ pc[t] \in {"spin", "wait"} => spins[t] < MaxSpins
        /\ pc[t] \notin {"spin", "load", "cas", "wait"} => spins[t] = 0

Owner(m) == m \in Threads /\ Holds(m)

WordExact == HasLock => (word.owned <=> fw = "in" \/ Owner(mutex))

WithoutLock ==
    ~HasLock =>
        /\ fw = "out"
        /\ \A t \in Threads : pc[t] \notin {"spin", "load", "cas", "wait", "failed",
                                           "rel_load", "rel_cas", "rel_tell"}

FirmwareExact == fw = "in" => ~Owner(mutex)

Waiting(m) == m \in Threads /\ pc[m] = "wait"

WaitExact ==
    /\ pending => Waiting(mutex) /\ event = 0
    /\ event > 0 => Waiting(mutex) /\ event = 1
    /\ Waiting(mutex) => \/ event > 0
                         \/ pending /\ (irq \/ (fw = "in" /\ word.pending))

TellExact ==
    fw = "wait" => \/ Owner(mutex) /\ word.pending
                   \/ mutex \in Threads /\ pc[mutex] = "rel_tell"

IInv ==
    /\ TypeOK /\ MutexExact /\ SpinlockExact /\ NamespaceExact /\ OwnerPlaces
    /\ SpinsFit /\ WordExact /\ WithoutLock /\ FirmwareExact /\ WaitExact /\ TellExact
=============================================================================
