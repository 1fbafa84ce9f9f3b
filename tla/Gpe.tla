-------------------------------- MODULE Gpe --------------------------------
(***************************************************************************)
(* General purpose events, src/kern/acpi/event.c: one register of a GPE    *)
(* block, with its status and enable bits in hardware and its masks and    *)
(* events in memory.  Three kinds of actors meet there:                    *)
(*                                                                         *)
(*   - the SCI handler, which reads the bits and dispatches events;        *)
(*   - deferred work, which runs an AML method or notifies devices and     *)
(*     then re-enables the event;                                          *)
(*   - the API, one call at a time under g_event_lock, which in some calls *)
(*     dispatches or restores an event itself.                             *)
(*                                                                         *)
(* Each of them is a `runner' at some place of dispatch_gpe or             *)
(* restore_gpe.  The test of masked_mask and current_mask in set_gpe_state *)
(* is made without the spinlock, a step before the bit is written.  An API *)
(* call is one step but where it waits for work in flight.  A work item    *)
(* stands for the handler and for the restore that it schedules: the       *)
(* host's wait covers both.  Callbacks belong to the host: a raw handler   *)
(* clears the status of its event, a native one asks for the event to be   *)
(* re-enabled or does not.  Of the register accesses whose failure is not  *)
(* looked at, only the one that masks an event may fail here.              *)
(***************************************************************************)
EXTENDS Naturals, FiniteSetsExt

CONSTANTS
    Gpes,         \* the events of the register, numbers
    Boots,        \* per boot, each event's [type, trig] found by matching
    LoadedAml,    \* triggering of the methods that a later table brings
    HandlerKinds, \* the types and triggerings of handlers that are installed
    Slots,        \* work items the host has room for
    Devices,      \* wake devices
    NoDevice, None,
    MaxUsers,     \* 0xFF
    MaxCalls, MaxFires, MaxFaults  \* bounds on calls, events and failures

Types == {"none", "aml", "native", "raw", "implicit"}
Triggerings == {"level", "edge"}
Native == {"native", "raw"}
Deferred == {"aml", "implicit"}
Runners == {"sci", "api"} \cup Slots

ASSUME NamesAssumption ==
    /\ Gpes \subseteq Nat /\ IsFiniteSet(Gpes) /\ None \notin Gpes
    /\ HandlerKinds \subseteq [type : Native, trig : Triggerings]
    /\ Boots \subseteq [Gpes -> [type : Types \ Native, trig : Triggerings]]
    /\ DOMAIN LoadedAml \subseteq Gpes /\ \A e \in DOMAIN LoadedAml : LoadedAml[e] \in Triggerings
    /\ {"sci", "api"} \cap Slots = {} /\ NoDevice \notin Devices
    /\ \A type \in Types, trig \in Triggerings, enabled \in BOOLEAN :
          None # [type |-> type, trig |-> trig, enabled |-> enabled]
ASSUME BoundsAssumption ==
    MaxUsers \in Nat \ {0} /\ MaxCalls \in Nat /\ MaxFires \in Nat /\ MaxFaults \in Nat

VARIABLES
    block,   \* register bits and masks, and the events
    run,     \* per runner, its place, its event, the events still to do
    api,     \* the API call in progress
    flush,   \* the work items the API call waits for
    awake,   \* history: the runtime events are the enabled ones
    kept,    \* history: events that a caller or a handler keeps disabled
    calls, fires, faults

vars == <<block, run, api, flush, awake, kept, calls, fires, faults>>

Resting == [pc |-> "idle", e |-> None, todo |-> {}, unblock |-> FALSE]
NoCall == [pc |-> "idle", op |-> "none", e |-> None, arg |-> None,
           masked |-> FALSE, flushed |-> FALSE]

\* A fresh block after create_gpe_block has matched the AML methods.
NewEvent(found) ==
    [num_users |-> 0, type |-> found.type, trig |-> found.trig, wake |-> FALSE,
     block_interrupts |-> FALSE, devices |-> {}, prev |-> None]

Init ==
    /\ \E boot \in Boots :
          block = [status |-> {}, enable |-> {}, runtime |-> {}, wake |-> {},
                   masked |-> {}, current |-> {}, live |-> TRUE, finalized |-> FALSE,
                   event |-> [e \in Gpes |-> NewEvent(boot[e])]]
    /\ run = [r \in Runners |-> Resting]
    /\ api = NoCall /\ flush = {} /\ awake = TRUE /\ kept = {}
    /\ calls = 0 /\ fires = 0 /\ faults = 0

-----------------------------------------------------------------------------
(***************************************************************************)
(* The functions of the file, on a block s.  `ok' says whether the         *)
(* hardware can be accessed.                                               *)
(***************************************************************************)
Users(s, e) == s.event[e].num_users
WithUsers(s, e, n) == [s EXCEPT !.event[e].num_users = n]

\* The test that set_gpe_state makes first, without the spinlock.
MayEnable(s, e) == e \notin s.masked
MayReenable(s, e) == MayEnable(s, e) /\ e \in s.current

\* The write of set_gpe_state, under the spinlock.
WriteEnable(s, e, on, ok) ==
    IF ~ok THEN s
    ELSE [s EXCEPT !.enable = IF on THEN @ \cup {e} ELSE @ \ {e}]

clear_gpe(s, e) == [s EXCEPT !.status = @ \ {e}]

gp_event_toggle_masks(s, e, on) ==
    LET mask == IF on THEN s.runtime \cup {e} ELSE s.runtime \ {e}
    IN [s EXCEPT !.runtime = mask, !.current = mask]

\* Mutant: a disable that fails gives back the user but not the masks.
gpe_remove_user_half(s, e, ok) ==
    LET gone == gp_event_toggle_masks(WithUsers(s, e, 0), e, FALSE)
    IN CASE Users(s, e) = 0 -> s
         [] Users(s, e) > 1 -> WithUsers(s, e, Users(s, e) - 1)
         [] Users(s, e) = 1 /\ ok -> WriteEnable(gone, e, FALSE, TRUE)
         [] Users(s, e) = 1 /\ ~ok -> WithUsers(gone, e, 1)

gpe_remove_user(s, e, ok) ==
    LET gone == gp_event_toggle_masks(WithUsers(s, e, 0), e, FALSE)
    IN CASE Users(s, e) = 0 -> s
         [] Users(s, e) > 1 -> WithUsers(s, e, Users(s, e) - 1)
         [] Users(s, e) = 1 /\ ok -> WriteEnable(gone, e, FALSE, TRUE)
         \* the masks and the user are put back
         [] Users(s, e) = 1 /\ ~ok -> gp_event_toggle_masks(WithUsers(gone, e, 1), e, TRUE)

gpe_add_user(s, e, clear, ok) ==
    LET cleared == IF clear THEN clear_gpe(s, e) ELSE s
        first == gp_event_toggle_masks(WithUsers(cleared, e, 1), e, TRUE)
    IN CASE Users(s, e) = MaxUsers -> s
         [] Users(s, e) \in 1 .. MaxUsers - 1 -> WithUsers(s, e, Users(s, e) + 1)
         [] Users(s, e) = 0 /\ ~MayEnable(first, e) -> first
         [] Users(s, e) = 0 /\ MayEnable(first, e) /\ ok -> WriteEnable(first, e, TRUE, TRUE)
         [] Users(s, e) = 0 /\ MayEnable(first, e) /\ ~ok ->
              gp_event_toggle_masks(WithUsers(first, e, 0), e, FALSE)

\* The same for every event of a set that has room for a user, one after the
\* other, without clearing any; the enabling of those in `lost' fails.
AddUsers(s, set, lost) ==
    LET first == {e \in set : Users(s, e) = 0}
        mask == (s.runtime \cup first) \ lost
    IN [s EXCEPT !.event = [e \in Gpes |->
                     IF e \in set \ lost THEN WithUsers(s, e, Users(s, e) + 1).event[e]
                     ELSE s.event[e]],
                 !.runtime = mask,
                 !.current = IF first = {} THEN @ ELSE mask,
                 !.enable = @ \cup ((first \ lost) \ s.masked)]

gpe_needs_polling(s, e) == Users(s, e) > 0 /\ s.event[e].trig = "edge"

\* gpe_mask_unmask, the way back.
Unmask(s, e) ==
    LET open == [s EXCEPT !.masked = @ \ {e}]
    IN IF ~s.event[e].block_interrupts /\ Users(s, e) > 0 /\ MayReenable(open, e)
       THEN WriteEnable(open, e, TRUE, TRUE)
       ELSE open

\* A hardware access works, or one of MaxFaults does not.
Access(ok) ==
    \/ ok /\ UNCHANGED faults
    \/ ~ok /\ faults < MaxFaults /\ faults' = faults + 1

-----------------------------------------------------------------------------
(***************************************************************************)
(* dispatch_gpe and restore_gpe, by runner r on event run[r].e.            *)
(***************************************************************************)
At(r, pc) == run[r].pc = pc
Ev(r) == block.event[run[r].e]
Goto(r, pc) == run' = [run EXCEPT ![r].pc = pc]

\* restore_gpe begins by clearing a level event, now that it was handled.
Restoring(e) == IF block.event[e].trig = "level" THEN "restore" ELSE "check"

\* The loop of detect_gpes turns to the lowest event left, or ends.
Turn(todo) ==
    IF todo = {} THEN Resting
    ELSE [Resting EXCEPT !.pc = "disable", !.e = Min(todo), !.todo = todo \ {Min(todo)}]
Finish(r) == run' = [run EXCEPT ![r] = Turn(@.todo)]

\* Re-enabling is conditional: an event that dropped out of current_mask stays off.
Freed(set, e) == IF e \in block.current THEN set \ {e} ELSE set

rest == <<api, flush, awake, kept, calls, fires>>

\* detect_gpes: the SCI is raised, or finalization polls.
ReadStatus(r) ==
    /\ At(r, "status")
    /\ UNCHANGED faults
    /\ IF block.runtime = {} /\ block.wake = {}
       THEN run' = [run EXCEPT ![r] = Resting]
       ELSE run' = [run EXCEPT ![r].pc = "enable", ![r].todo = block.status]
    /\ UNCHANGED <<block, rest>>

ReadEnable(r) ==
    /\ At(r, "enable")
    /\ run' = [run EXCEPT ![r] = Turn(@.todo \cap block.enable)]
    /\ UNCHANGED <<block, rest, faults>>

\* A read that fails ends the detection.
ReadFails(r) ==
    /\ run[r].pc \in {"status", "enable", "poll"}
    /\ Access(FALSE)
    /\ run' = [run EXCEPT ![r] = Resting]
    /\ UNCHANGED <<block, rest>>

\* maybe_dispatch_gpe: an edge event may have been raised while disabled.
Poll(r) ==
    /\ At(r, "poll")
    /\ IF run[r].e \in block.status THEN Goto(r, "disable") ELSE Finish(r)
    /\ UNCHANGED <<block, rest, faults>>

\* A raw handler manages its event itself.
CallRaw(r) ==
    /\ At(r, "disable") /\ Ev(r).type = "raw"
    /\ block' = clear_gpe(block, run[r].e)
    /\ Finish(r)
    /\ UNCHANGED <<rest, faults>>

Disable(r, ok) ==
    /\ At(r, "disable") /\ Ev(r).type # "raw"
    /\ Access(ok)
    /\ block' = WriteEnable(block, run[r].e, FALSE, ok)
    /\ IF ok THEN Goto(r, "block") ELSE Finish(r)
    /\ UNCHANGED rest

\* Interrupts are marked as blocked; an edge event is cleared first of all.
Block(r) ==
    /\ At(r, "block")
    /\ block' = [block EXCEPT !.event[run[r].e].block_interrupts = TRUE]
    /\ Goto(r, IF Ev(r).trig = "edge" THEN "clear" ELSE "handle")
    /\ UNCHANGED <<rest, faults>>

ClearEdge(r, ok) ==
    /\ At(r, "clear")
    /\ Access(ok)
    /\ block' = IF ok THEN clear_gpe(block, run[r].e) ELSE block
    /\ Goto(r, IF ok THEN "handle" ELSE "check")
    /\ UNCHANGED rest

\* The native handler asks for the event to be re-enabled, or does not.
CallNative(r) ==
    /\ At(r, "handle") /\ Ev(r).type = "native"
    /\ \/ /\ run' = [run EXCEPT ![r].pc = Restoring(run[r].e), ![r].unblock = TRUE]
          /\ kept' = Freed(kept, run[r].e)
       \/ /\ Finish(r)
          /\ kept' = kept \cup {run[r].e}
    /\ UNCHANGED <<block, api, flush, awake, calls, fires, faults>>

\* The work goes to a free slot; while there is none the host makes room.
Schedule(r) ==
    /\ At(r, "handle") /\ Ev(r).type \in Deferred
    /\ \E w \in Slots :
          /\ At(w, "idle")
          /\ run' = [run EXCEPT
                ![r] = Turn(@.todo),
                ![w] = [Resting EXCEPT !.pc = "run", !.e = run[r].e]]
    /\ UNCHANGED <<block, rest, faults>>

\* The event stays disabled.
ScheduleFails(r) ==
    /\ At(r, "handle") /\ Ev(r).type \in Deferred
    /\ Access(FALSE)
    /\ Finish(r)
    /\ UNCHANGED <<block, rest>>

NoHandler(r) ==
    /\ At(r, "handle") /\ Ev(r).type \notin Deferred \cup {"native"}
    /\ Finish(r)
    /\ kept' = kept \cup {run[r].e}
    /\ UNCHANGED <<block, api, flush, awake, calls, fires, faults>>

\* async_run_gpe_handler: whatever the handler does, the event is restored.
RunHandler(w) ==
    /\ At(w, "run")
    /\ run' = [run EXCEPT ![w].pc = Restoring(run[w].e), ![w].unblock = TRUE]
    /\ UNCHANGED <<block, rest, faults>>

\* Mutant: the level event is enabled again without having been cleared.
RestoreUncleared(r, ok) ==
    /\ At(r, "restore")
    /\ Access(ok)
    /\ IF ok THEN Goto(r, "check") ELSE Finish(r)
    /\ UNCHANGED <<block, rest>>

Restore(r, ok) ==
    /\ At(r, "restore")
    /\ Access(ok)
    /\ block' = IF ok THEN clear_gpe(block, run[r].e) ELSE block
    /\ IF ok THEN Goto(r, "check") ELSE Finish(r)
    /\ UNCHANGED rest

\* set_gpe_state(GPE_STATE_ENABLED_CONDITIONALLY): test, then write.
Check(r) ==
    /\ At(r, "check")
    /\ IF MayReenable(block, run[r].e) THEN Goto(r, "write")
       ELSE IF run[r].unblock THEN Goto(r, "unblock") ELSE Finish(r)
    /\ UNCHANGED <<block, rest, faults>>

Write(r, ok) ==
    /\ At(r, "write")
    /\ Access(ok)
    /\ block' = WriteEnable(block, run[r].e, TRUE, ok)
    /\ IF run[r].unblock THEN Goto(r, "unblock") ELSE Finish(r)
    /\ UNCHANGED rest

Unblock(r) ==
    /\ At(r, "unblock")
    /\ block' = [block EXCEPT !.event[run[r].e].block_interrupts = FALSE]
    /\ Finish(r)
    /\ UNCHANGED <<rest, faults>>

Step(r) ==
    \/ ReadStatus(r) \/ ReadEnable(r) \/ Poll(r)
    \/ CallRaw(r) \/ Disable(r, TRUE) \/ Block(r) \/ ClearEdge(r, TRUE)
    \/ CallNative(r) \/ Schedule(r) \/ NoHandler(r) \/ RunHandler(r)
    \/ Restore(r, TRUE) \/ Check(r) \/ Write(r, TRUE) \/ Unblock(r)

Fail(r) ==
    \/ ReadFails(r) \/ Disable(r, FALSE) \/ ClearEdge(r, FALSE)
    \/ ScheduleFails(r) \/ Restore(r, FALSE) \/ Write(r, FALSE)

\* Runner r is between two steps of dispatching or restoring event e.
Busy(r, e) == run[r].e = e \/ (~At(r, "enable") /\ e \in run[r].todo)

\* An event that is restored while it is being unmasked may stay disabled:
\* the runner has seen the mask, and the unmasking still sees it blocked.
Unmasked(set, e) ==
    IF ~block.event[e].block_interrupts THEN Freed(set, e)
    ELSE IF \E r \in Runners : Busy(r, e) THEN set \cup {e} ELSE set

-----------------------------------------------------------------------------
(***************************************************************************)
(* The API.  Calls that return an error at once change nothing and are     *)
(* left out.                                                               *)
(***************************************************************************)
Begin ==
    /\ api = NoCall /\ At("api", "idle")
    /\ block.live /\ calls < MaxCalls
    /\ calls' = calls + 1

\* A call that is one step, and leaves the API's runner to poll or restore.
OneStep(s, runner) ==
    /\ Begin
    /\ block' = s
    /\ run' = [run EXCEPT !["api"] = runner]
    /\ UNCHANGED <<api, flush, fires>>

Polling(s, e) ==
    IF gpe_needs_polling(s, e) THEN [Resting EXCEPT !.pc = "poll", !.e = e] ELSE Resting

\* An access that fails is one that is made.
uacpi_enable_gpe(e, ok) ==
    /\ block.event[e].type # "none" /\ Users(block, e) < MaxUsers
    /\ ok \/ (Users(block, e) = 0 /\ MayEnable(block, e))
    /\ Access(ok)
    /\ LET s == gpe_add_user(block, e, TRUE, ok)
       IN OneStep(s, IF ok THEN Polling(s, e) ELSE Resting)
    /\ UNCHANGED <<awake, kept>>

uacpi_disable_gpe(e, ok) ==
    /\ Users(block, e) > 0 /\ (ok \/ Users(block, e) = 1)
    /\ Access(ok)
    /\ OneStep(gpe_remove_user(block, e, ok), Resting)
    /\ UNCHANGED <<awake, kept>>

uacpi_clear_gpe(e) ==
    /\ OneStep(clear_gpe(block, e), Resting)
    /\ UNCHANGED <<awake, kept, faults>>

uacpi_suspend_gpe(e, ok) ==
    /\ Access(ok)
    /\ OneStep(WriteEnable([block EXCEPT !.event[e].block_interrupts = TRUE],
                           e, FALSE, ok), Resting)
    /\ kept' = kept \cup {e}
    /\ UNCHANGED awake

uacpi_resume_gpe(e, ok) ==
    /\ ok \/ MayEnable(block, e)
    /\ Access(ok)
    /\ OneStep(WriteEnable([block EXCEPT !.event[e].block_interrupts = FALSE],
                           e, TRUE, ok /\ MayEnable(block, e)), Resting)
    /\ kept' = Freed(kept, e)
    /\ UNCHANGED awake

uacpi_finish_handling_gpe(e) ==
    /\ OneStep(block, [Resting EXCEPT !.pc = Restoring(e), !.e = e, !.unblock = TRUE])
    /\ kept' = Freed(kept, e)
    /\ UNCHANGED <<awake, faults>>

uacpi_unmask_gpe(e) ==
    /\ e \in block.masked
    /\ OneStep(Unmask(block, e), Resting)
    /\ kept' = Unmasked(kept, e)
    /\ UNCHANGED <<awake, faults>>

\* gpe_enable_disable_for_wake: the disabling keeps the bit and drops the
\* others.
uacpi_enable_gpe_for_wake(e, enabled) ==
    /\ block.event[e].wake
    /\ OneStep([block EXCEPT !.wake = IF enabled THEN @ \cup {e} ELSE @ \cap {e}], Resting)
    /\ UNCHANGED <<awake, kept, faults>>

\* gpe_block_apply_action, on the way into and out of sleep.
ApplyAction(value, ok) ==
    /\ Access(ok)
    /\ OneStep([block EXCEPT !.current = value,
                             !.enable = IF ok THEN value ELSE @], Resting)

uacpi_disable_all_gpes(ok) == ApplyAction({}, ok) /\ awake' = FALSE /\ UNCHANGED kept
uacpi_enable_all_wake_gpes(ok) == ApplyAction(block.wake, ok) /\ awake' = FALSE /\ UNCHANGED kept
\* An event that is blocked stays so, and one that is masked drops out of
\* current_mask: nothing but its next first user enables it again.
uacpi_enable_all_runtime_gpes(ok) ==
    /\ ApplyAction(block.runtime \ block.masked, ok) /\ awake' = ok
    /\ kept' = {e \in kept : block.event[e].block_interrupts}
                 \cup (block.runtime \cap block.masked)

uacpi_clear_all_events ==
    /\ OneStep([block EXCEPT !.status = {}], Resting)
    /\ UNCHANGED <<awake, kept, faults>>

\* Events with an AML method that are not for waking are enabled, and then
\* looked for once if one of them is an edge event.
uacpi_finalize_gpe_initialization(lost) ==
    /\ ~block.finalized
    /\ LET chosen == {e \in Gpes : /\ block.event[e].type = "aml" /\ ~block.event[e].wake
                                   /\ Users(block, e) < MaxUsers}
           s == AddUsers([block EXCEPT !.finalized = TRUE], chosen, lost)
       IN /\ lost \subseteq {e \in chosen : Users(block, e) = 0 /\ MayEnable(block, e)}
          /\ OneStep(s, IF \E e \in chosen \ lost : gpe_needs_polling(s, e)
                        THEN [Resting EXCEPT !.pc = "status"] ELSE Resting)
    /\ faults + Cardinality(lost) <= MaxFaults
    /\ faults' = faults + Cardinality(lost)
    /\ UNCHANGED <<awake, kept>>

\* do_match_gpe_methods for the methods of a table loaded later.
uacpi_events_match_post_dynamic_table_load ==
    /\ LET found == {e \in DOMAIN LoadedAml : block.event[e].type \in {"none", "implicit"}}
       IN /\ found # {}
          /\ OneStep([block EXCEPT !.event = [e \in Gpes |->
                IF e \in found
                THEN [@[e] EXCEPT !.type = "aml", !.trig = LoadedAml[e], !.devices = {}]
                ELSE @[e]]], Resting)
    /\ UNCHANGED <<awake, kept, faults>>

-----------------------------------------------------------------------------
(***************************************************************************)
(* Calls that mask: uacpi_mask_gpe, and those that change a handler.       *)
(***************************************************************************)
TargetOf(op, e) == IF op = "remove" THEN Gpes ELSE {e}
Target == TargetOf(api.op, api.e)

\* gpe_mask_safe and gpe_block_mask_safe do nothing if nothing is enabled;
\* gpe_mask_unmask refuses an event that is masked, which nobody looks at.
MaskSafe(op, e) == op = "mask" \/ block.current \cap TargetOf(op, e) # {}
Refused(op, e) == op # "remove" /\ e \in block.masked

\* 1. Mask the GPE.
BeginMask(op, e, arg) ==
    LET waits == MaskSafe(op, e) /\ ~Refused(op, e)
    IN /\ Begin
       /\ api' = [NoCall EXCEPT !.pc = IF waits THEN "wait_irq" ELSE "swap",
                                !.op = op, !.e = e, !.arg = arg,
                                !.masked = MaskSafe(op, e)]
       /\ block' = IF waits THEN [block EXCEPT !.masked = @ \cup TargetOf(op, e)] ELSE block
       /\ UNCHANGED <<run, flush, awake, kept, fires, faults>>

uacpi_mask_gpe(e) == e \notin block.masked /\ BeginMask("mask", e, None)

do_install_gpe_handler(e, kind) ==
    block.event[e].type \notin Native /\ BeginMask("install", e, kind)

uacpi_uninstall_gpe_handler(e) ==
    block.event[e].type \in Native /\ BeginMask("uninstall", e, None)

uacpi_setup_gpe_for_wake(e, dev) == BeginMask("wake", e, dev)

uacpi_uninstall_gpe_block == BeginMask("remove", None, None)

api_rest == <<run, awake, kept, calls, fires>>

\* Mutant: only interrupts are waited for, not the work they have scheduled.
WaitIrqOnly ==
    /\ api.pc = "wait_irq" /\ At("sci", "idle")
    /\ flush' = {}
    /\ api' = [api EXCEPT !.pc = "wait_work"]
    /\ UNCHANGED <<block, api_rest, faults>>

\* 2. and 4. uacpi_kernel_wait_for_work_completion: interrupts in flight,
\* then the work that is scheduled by then.
WaitIrq ==
    /\ api.pc = "wait_irq" /\ At("sci", "idle")
    /\ flush' = {w \in Slots : ~At(w, "idle")}
    /\ api' = [api EXCEPT !.pc = "wait_work"]
    /\ UNCHANGED <<block, api_rest, faults>>

WorkDone(w) ==
    /\ w \in flush /\ At(w, "idle")
    /\ flush' = flush \ {w}
    /\ UNCHANGED <<block, api, api_rest, faults>>

Waited ==
    /\ api.pc = "wait_work" /\ flush = {}
    /\ api' = IF ~api.flushed THEN [api EXCEPT !.pc = "off", !.flushed = TRUE]
              ELSE IF api.op = "mask" THEN NoCall ELSE [api EXCEPT !.pc = "swap"]
    /\ UNCHANGED <<block, flush, api_rest, faults>>

\* 3. Disable the event; a failure is not looked at.
MaskOff(ok) ==
    /\ api.pc = "off"
    /\ Access(ok)
    /\ block' = [block EXCEPT !.enable = IF ok THEN @ \ Target ELSE @]
    /\ api' = [api EXCEPT !.pc = "wait_irq"]
    /\ UNCHANGED <<flush, api_rest>>

-----------------------------------------------------------------------------
(***************************************************************************)
(* The change that the mask was for, and the unmasking.                    *)
(***************************************************************************)
Swap(op) == api.pc = "swap" /\ api.op = op
EndSwap(s, runner) ==
    /\ block' = IF api.masked THEN Unmask(s, api.e) ELSE s
    /\ kept' = IF api.masked THEN Unmasked(kept, api.e) ELSE kept
    /\ run' = [run EXCEPT !["api"] = runner]
    /\ api' = NoCall
    /\ UNCHANGED <<flush, awake, calls, fires>>

InstallHandler(ok) ==
    /\ Swap("install")
    /\ LET e == api.e
           old == block.event[e]
           enabled == old.type \in Deferred /\ old.num_users # 0
           s == IF enabled THEN gpe_remove_user(block, e, ok) ELSE block
           saved == [type |-> old.type, trig |-> old.trig, enabled |-> enabled]
       IN /\ ok \/ (enabled /\ old.num_users = 1)
          /\ Access(ok)
          /\ EndSwap([s EXCEPT !.event[e].prev = saved, !.event[e].type = api.arg.type,
                               !.event[e].trig = api.arg.trig], Resting)

UninstallHandler(ok) ==
    /\ Swap("uninstall")
    /\ LET e == api.e
           prev == block.event[e].prev
           old == [block EXCEPT !.event[e].prev = None, !.event[e].type = prev.type,
                                !.event[e].trig = prev.trig]
           enabled == prev.type \in Deferred /\ prev.enabled
           s == IF enabled THEN gpe_add_user(old, e, FALSE, ok) ELSE old
       IN /\ ok \/ (enabled /\ Users(old, e) = 0 /\ MayEnable(old, e))
          /\ Access(ok)
          /\ EndSwap(s, Polling(s, e))

\* An event nobody handles notifies its wake devices; one with an AML method
\* loses the user it got at initialization.
SetupForWake(ok) ==
    /\ Swap("wake")
    /\ LET e == api.e
           type == block.event[e].type
           asked == api.arg # NoDevice
           known == api.arg \in block.event[e].devices
           s1 == CASE asked /\ type = "none" ->
                        [block EXCEPT !.event[e].type = "implicit", !.event[e].trig = "level"]
                   [] asked /\ type = "aml" -> gpe_remove_user(block, e, ok)
                   [] OTHER -> block
           s2 == IF asked /\ s1.event[e].type = "implicit" /\ ok
                 THEN [s1 EXCEPT !.event[e].devices = @ \cup {api.arg}] ELSE s1
       IN /\ \/ ok
             \/ asked /\ type = "aml" /\ Users(block, e) = 1
             \/ asked /\ type \in {"none", "implicit"} /\ ~known
          /\ Access(ok)
          /\ EndSwap(IF type = "implicit" /\ known THEN block
                     ELSE [s2 EXCEPT !.event[e].wake = TRUE], Resting)

\* uninstall_gpe_block frees the events; nothing more is said of them.
RemoveBlock ==
    /\ Swap("remove")
    /\ block' = [block EXCEPT !.live = FALSE]
    /\ api' = NoCall
    /\ UNCHANGED <<flush, api_rest, faults>>

ApiStep ==
    \/ WaitIrq \/ Waited \/ MaskOff(TRUE)
    \/ InstallHandler(TRUE) \/ UninstallHandler(TRUE) \/ SetupForWake(TRUE)
    \/ RemoveBlock \/ \E w \in Slots : WorkDone(w)

-----------------------------------------------------------------------------
\* The hardware raises an event, and the SCI while an enabled one is raised.
Fire(e) ==
    /\ block.live /\ fires < MaxFires /\ e \notin block.status
    /\ fires' = fires + 1
    /\ block' = [block EXCEPT !.status = @ \cup {e}]
    /\ UNCHANGED <<run, api, flush, awake, kept, calls, faults>>

Raised == block.status \cap block.enable # {}

handle_gpes ==
    /\ block.live /\ Raised /\ At("sci", "idle")
    /\ Goto("sci", "status")
    /\ UNCHANGED <<block, rest, faults>>

Next ==
    \/ \E e \in Gpes : Fire(e)
    \/ handle_gpes
    \/ \E r \in Runners : Step(r) \/ Fail(r)
    \/ ApiStep
    \/ MaskOff(FALSE) \/ InstallHandler(FALSE) \/ UninstallHandler(FALSE)
    \/ SetupForWake(FALSE)
    \/ \E e \in Gpes :
          \/ \E ok \in BOOLEAN :
                \/ uacpi_enable_gpe(e, ok) \/ uacpi_disable_gpe(e, ok)
                \/ uacpi_suspend_gpe(e, ok) \/ uacpi_resume_gpe(e, ok)
          \/ uacpi_clear_gpe(e) \/ uacpi_finish_handling_gpe(e) \/ uacpi_mask_gpe(e) \/ uacpi_unmask_gpe(e)
          \/ \E enabled \in BOOLEAN : uacpi_enable_gpe_for_wake(e, enabled)
          \/ \E kind \in HandlerKinds : do_install_gpe_handler(e, kind)
          \/ uacpi_uninstall_gpe_handler(e)
          \/ \E dev \in Devices \cup {NoDevice} : uacpi_setup_gpe_for_wake(e, dev)
    \/ \E ok \in BOOLEAN :
          \/ uacpi_disable_all_gpes(ok) \/ uacpi_enable_all_wake_gpes(ok)
          \/ uacpi_enable_all_runtime_gpes(ok)
    \/ uacpi_clear_all_events
    \/ \E lost \in SUBSET Gpes : uacpi_finalize_gpe_initialization(lost)
    \/ uacpi_events_match_post_dynamic_table_load
    \/ uacpi_uninstall_gpe_block

Spec == Init /\ [][Next]_vars

\* The interrupt line is served while it is raised; what runs goes on, and
\* the host runs what it has scheduled.
FairSpec ==
    /\ Spec
    /\ \A r \in Runners : WF_vars(Step(r))
    /\ WF_vars(handle_gpes)
    /\ WF_vars(ApiStep)

-----------------------------------------------------------------------------
TypeOK ==
    /\ \A m \in {block.status, block.enable, block.runtime, block.wake,
                block.masked, block.current} : m \subseteq Gpes
    /\ \A e \in Gpes : /\ Users(block, e) \in 0 .. MaxUsers
                       /\ block.event[e].type \in Types
                       /\ (block.event[e].type \in Native) = (block.event[e].prev # None)
    /\ flush \subseteq Slots

\* Safety: through enables, disables, handler changes and failed register
\* writes that are rolled back, runtime_mask is exactly the events that have
\* users, and a native handler always remembers what it replaced.
BlockSound ==
    TypeOK /\ block.runtime = {e \in Gpes : Users(block, e) > 0}

\* Once gpe_mask_unmask has returned, nothing re-enables the event: no
\* interrupt or work that had passed the test of masked_mask before.
\* (Enabling for wake, and a register that cannot be written, aside.)
MaskHolds ==
    faults = 0 /\ awake =>
      \A e \in block.masked \cap block.enable :
        api.pc # "idle" /\ e \in Target /\ (~api.flushed \/ api.pc = "off")

\* When gpe_mask_safe has masked and waited, no interrupt and no work is in
\* the middle of the event whose handler is about to change, or of the block
\* that is about to be freed.
SwapAlone ==
    faults = 0 /\ api.pc = "swap" /\ api.flushed =>
      \A r \in Runners \ {"api"}, e \in Target : ~Busy(r, e)

\* The masking of gpe_mask_unmask and gpe_block_mask_safe keeps
\* interrupts and deferred work away from the event.
MaskingSafe == MaskHolds /\ SwapAlone

Quiescent == api = NoCall /\ \A r \in Runners : At(r, "idle")

\* Whatever the order of interrupts, work and calls, when all is
\* quiet an event with users that is not masked is enabled, unless its
\* handler or a caller keeps it disabled: dispatch_gpe's disable is undone.
NotSilenced ==
    Quiescent /\ awake /\ faults = 0 =>
      block.runtime \ (block.masked \cup kept) \subseteq block.enable

\* Safety: the enable register says what callers asked for: a masked event
\* stays off whoever was past the test of its mask (dispatch_gpe, restore_gpe),
\* and an event that is used does not stay off once all is quiet.
EnabledAsAsked == MaskingSafe /\ NotSilenced

Raising == IF block.live THEN block.status \cap block.enable \cap block.current ELSE {}

\* Liveness: events that fire finitely often interrupt finitely often: each
\* is cleared by its dispatch or its restore, or stays disabled.  (Of events
\* in use.)
StormEnds == <>[](Raising = {})
-----------------------------------------------------------------------------
(***************************************************************************)
(* The inductive invariant behind BlockSound and EnabledAsAsked.           *)
(***************************************************************************)
Saved == [type : Types \ Native, trig : Triggerings, enabled : BOOLEAN]

EventTyped(event) ==
    /\ DOMAIN event = {"num_users", "type", "trig", "wake", "block_interrupts", "devices", "prev"}
    /\ event.num_users \in 0 .. MaxUsers
    /\ event.type \in Types /\ event.trig \in Triggerings
    /\ event.prev \in IF event.type \in Native THEN Saved ELSE {None}

BlockTyped(s) ==
    /\ DOMAIN s = {"status", "enable", "runtime", "wake", "masked", "current",
                   "live", "finalized", "event"}
    /\ DOMAIN s.event = Gpes
    /\ \A m \in {s.status, s.enable, s.runtime, s.wake, s.masked, s.current} : m \subseteq Gpes
    /\ \A e \in Gpes : EventTyped(s.event[e])
    /\ s.runtime = {e \in Gpes : Users(s, e) > 0}

\* A runner is on an event where it needs one, and rests with nothing to do.
\* A work item starts with its handler; a restore unblocks unless it follows
\* the failure of a clear.
RunnerTyped(r) ==
    /\ DOMAIN run[r] = {"pc", "e", "todo", "unblock"}
    /\ run[r].todo \subseteq Gpes
    /\ run[r].pc \in {"idle", "status", "enable"} => run[r].e = None
    /\ run[r].pc \notin {"idle", "status", "enable"} => run[r].e \in Gpes
    /\ run[r].pc = "idle" => run[r].todo = {}
    /\ faults = 0 /\ run[r].pc \in {"restore", "check", "write", "unblock"} => run[r].unblock
    /\ r \in Slots =>
          /\ run[r].pc \in {"idle", "run", "restore", "check", "write", "unblock"}
          /\ run[r].todo = {}
    /\ run[r].pc = "run" => r \in Slots

\* Between the steps of a call that masks, the API dispatches nothing, and
\* the handler it is about to change is of the kind it was when it began.
ApiTyped ==
    /\ DOMAIN api = {"pc", "op", "e", "arg", "masked", "flushed"}
    /\ api.pc = "idle" => api = NoCall
    /\ api.pc # "idle" =>
          /\ api.pc \in {"wait_irq", "wait_work", "off", "swap"}
          /\ api.op = "remove" \/ api.e \in Gpes
          /\ At("api", "idle")
          /\ api.op = "install" => /\ block.event[api.e].type \notin Native
                                   /\ api.arg \in HandlerKinds
          /\ api.op = "uninstall" => block.event[api.e].type \in Native

Typed ==
    /\ BlockTyped(block)
    /\ DOMAIN run = Runners /\ \A r \in Runners : RunnerTyped(r)
    /\ ApiTyped
    /\ flush \subseteq Slots /\ kept \subseteq Gpes /\ faults \in Nat

\* From the masking of its target on, a call finds it masked.
TargetMasked ==
    /\ api.pc \in {"wait_irq", "wait_work", "off"} \/ api.flushed => Target \subseteq block.masked
    /\ api.pc = "off" => api.flushed

\* Who is past the test of masked_mask of a masked event is waited for.
WriteWaited ==
    \A r \in Runners : At(r, "write") /\ run[r].e \in block.masked =>
        /\ api.pc \in {"wait_irq", "wait_work"} /\ ~api.flushed
        /\ run[r].e \in Target
        /\ api.pc = "wait_work" => r \in flush

\* A masked event is enabled only while its masking is under way.
MaskedOff ==
    awake /\ faults = 0 => \A e \in block.masked \cap block.enable :
        /\ api.pc \in {"wait_irq", "wait_work", "off"} /\ e \in Target
        /\ ~api.flushed \/ api.pc = "off"

\* From step 3 of gpe_mask_unmask on the target is off, and after the second
\* wait for interrupts only the work that is waited for is still on it.
TargetOff ==
    faults = 0 /\ api.flushed /\ api.pc # "off" => block.enable \cap Target = {}
TargetLeft ==
    faults = 0 /\ api.flushed => \A e \in Target, r \in Runners \ {"api"} :
        /\ api.pc = "wait_work" /\ Busy(r, e) => r \in flush
        /\ api.pc = "swap" => ~Busy(r, e)

\* Interrupts of an event are blocked by who works on it, or for long.
Holds(r, e) ==
    /\ run[r].e = e
    /\ run[r].pc \in {"clear", "handle", "run", "restore", "check", "write", "unblock"}
BlockedBy ==
    faults = 0 => \A e \in Gpes :
        block.event[e].block_interrupts => e \in kept \/ \E r \in Runners : Holds(r, e)

\* An event in use that dropped out of current_mask is a kept one.
CurrentUsed == awake /\ faults = 0 => block.runtime \ block.current \subseteq kept

\* An event in use is enabled, or a runner is on its way to enable it.
Owes(r, e) ==
    /\ run[r].e = e
    /\ run[r].pc \in {"block", "clear", "handle", "run", "restore", "check", "write"}
EnabledOrOwed ==
    awake /\ faults = 0 => \A e \in block.runtime \ (block.masked \cup kept) :
        e \in block.enable \/ \E r \in Runners : Owes(r, e)

IInv == /\ Typed /\ TargetMasked /\ WriteWaited /\ MaskedOff /\ TargetOff /\ TargetLeft
        /\ BlockedBy /\ CurrentUsed /\ EnabledOrOwed
=============================================================================
