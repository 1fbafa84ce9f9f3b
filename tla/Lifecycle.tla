----------------------------- MODULE Lifecycle -----------------------------
(***************************************************************************)
(* The life of uACPI between its start and its reset: the levels of        *)
(* uacpi_initialize, uacpi_namespace_load and uacpi_namespace_initialize,  *)
(* each step of which may fail and take everything down again              *)
(* (uacpi_state_reset), the switch between legacy and ACPI mode, the PM1   *)
(* registers, the fixed events and the SCI that serves them, and the sleep *)
(* states.  One thread of the host calls; the hardware raises events, the  *)
(* SCI interrupts the thread, and the firmware answers when it likes.  The *)
(* interfaces of _OSI are those of Osi, started and stopped by the same    *)
(* calls.                                                                  *)
(***************************************************************************)
EXTENDS Osi, Sequences

CONSTANTS
    FixedMax,     \* UACPI_FIXED_EVENT_MAX; event 0 is the global lock
    SleepStates,  \* the states that are used, 0 among them
    Situations,   \* a firmware [reduced, legacy, switch, facs, lock, slp], what the host
                  \* uses of it, and bounds on failures and hardware events:
                  \* [sit, faults, raises]
    MaxStarts     \* bound: starts

ASSUME LifecycleAssumption ==
    FixedMax \in Nat \ {0} /\ 0 \in SleepStates /\ SleepStates \subseteq 0..5

VARIABLES
    sit,       \* the situation: constant
    ctx,       \* the part of g_uacpi_rt_ctx that is modelled here
    held,      \* locks and other objects of the host that exist
    lost,      \* those a second creation overwrote
    mapped,    \* the registers whose mapping exists
    handlers,  \* fixed_event_handlers
    pm1,       \* the hardware: [sts, en, mode, typ, asleep, gpes]
    asked,     \* the mode SMI_CMD was asked for, or "none"
    call,      \* what the host's thread is in: [op, at, arg]
    sci,       \* handle_sci: [on, todo], and whether interrupts are disabled
    told,      \* the sleep state a prepare last accepted, or NoState
    past,      \* what excuses the state a reset leaves: see Reset
    faults, raises, starts

level == ctx.level
fw == sit.fw
usage == sit.usage
osi == <<live, registered, kind, disabled, dynamic, interface_handler,
         latest_queried_interface, query>>
hardware == <<pm1, asked, raises>>
host == <<ctx, held, lost, handlers, told, past, starts>>
lvars == <<osi, sit, ctx, held, lost, mapped, handlers, pm1, asked, call,
           sci, told, past, faults, raises, starts>>

Events == 0..FixedMax
LOCK == 0                    \* UACPI_FIXED_EVENT_GLOBAL_LOCK
WAK == FixedMax + 1          \* the wake status, a bit of the same register
Invalid == 255               \* UACPI_SLEEP_TYP_INVALID
Big == 8                     \* a type above ACPI_SLP_TYP_MAX
NoState == 9
Idle == [op |-> "none", at |-> "none", arg |-> 0]
Quiet == [on |-> FALSE, todo |-> {}, masked |-> FALSE]

Zero == [level |-> 0, reduced |-> FALSE, facs |-> FALSE, wasLegacy |-> FALSE,
         sciValid |-> FALSE, hasLock |-> FALSE, last |-> 0, s0 |-> 0]

\* The machine as the firmware hands it over.  A firmware without a lock bit
\* ignores what is written to it; one whose FADT names an SMI command port
\* may start in legacy mode.
LInit ==
    /\ Init
    /\ sit \in Situations
    /\ ctx = Zero /\ held = {} /\ lost = {} /\ mapped = {}
    /\ handlers = [e \in Events |-> "none"]
    /\ pm1 = [sts |-> {}, en |-> {}, mode |-> IF fw.legacy THEN "legacy" ELSE "acpi",
              typ |-> 0, asleep |-> FALSE, gpes |-> "runtime"]
    /\ asked = "none" /\ call = Idle /\ sci = Quiet /\ told = NoState
    /\ past = [home |-> pm1.mode, mode |-> FALSE, stuck |-> {}, crash |-> FALSE]
    /\ faults = 0 /\ raises = 0 /\ starts = 0

Fault == faults < sit.faults /\ faults' = faults + 1

-----------------------------------------------------------------------------
(***************************************************************************)
(* registers.c.  A register is mapped at its first use, which may fail.    *)
(***************************************************************************)
ensure_register_mapped(r, ok) ==
    \/ ok /\ mapped' = mapped \cup {r} /\ UNCHANGED faults
    \/ ~ok /\ r \notin mapped /\ Fault /\ UNCHANGED mapped

\* uacpi_write_register_field of a status bit.  The register is declared
\* WRITE_TO_CLEAR, yet what is compared with that constant is the kind of the
\* register, so that the field is read, modified and written: every pending
\* bit is written back as one, and is cleared too.
ClearStatus(sts, bit) ==
    LET data == (sts \ {bit}) \cup {bit}
    IN  sts \ data

\* Of an enable bit: the other bits are kept.  What the hardware does not
\* implement stays zero.
WriteEnable(en, e, value) ==
    IF ~value THEN en \ {e}
    ELSE IF e = LOCK /\ ~fw.lock THEN en ELSE en \cup {e}

\* A field is written under g_reg_lock.
NeedsLocks(locks) == past' = [past EXCEPT !.crash = @ \/ ~(locks \subseteq held)]

-----------------------------------------------------------------------------
(***************************************************************************)
(* The objects the initialisation creates, step by step.                   *)
(***************************************************************************)
InitSteps == <<"tables", "registers", "events_early", "opregion", "interfaces",
               "namespace", "notify">>
Creates(step) ==
    CASE step = "tables" -> <<"tables">>
      [] step = "registers" -> <<"g_reg_lock">>
      [] step = "events_early" ->
           IF ctx.reduced THEN <<>> ELSE <<"g_gpe_state_slock", "g_event_lock">>
      [] step = "opregion" -> <<"g_opregion_lock">>
      [] step = "interfaces" -> <<"interface_mutex">>
      [] step = "namespace" -> <<"namespace">>
      [] step = "notify" -> <<"notify_mutex">>
Objects(seq) == {seq[i] : i \in DOMAIN seq}
StepAfter(step) ==
    LET i == CHOOSE j \in DOMAIN InitSteps : InitSteps[j] = step
    IN  IF step = "events_early" /\ ~ctx.reduced THEN "fixed"
        ELSE IF i = Len(InitSteps) THEN "mode" ELSE InitSteps[i + 1]

Create(objects) ==
    /\ held' = held \cup objects
    /\ lost' = lost \cup (held \cap objects)

At(op, at) == call.op = op /\ call.at = at /\ ~sci.on
Go(at) == call' = [call EXCEPT !.at = at]
Return == call' = Idle
Reset(at) == call' = [op |-> "reset", at |-> at, arg |-> 0]
Calls == call.op = "none" /\ ~sci.on /\ ~pm1.asleep
Enter(op, at, arg) == Calls /\ call' = [op |-> op, at |-> at, arg |-> arg]

\* uacpi_initialize: nothing of the previous run may be used from here on.
uacpi_initialize ==
    /\ Enter("initialize", "tables", 0) /\ level = 0 /\ starts < MaxStarts
    /\ ctx' = [Zero EXCEPT !.level = 1, !.last = Invalid, !.s0 = Invalid]
    /\ Create({"kernel"})
    /\ past' = [past EXCEPT !.home = pm1.mode, !.mode = asked # "none"]
    /\ starts' = starts + 1
    /\ UNCHANGED <<osi, sit, mapped, handlers, hardware, sci, told, faults>>

\* uacpi_kernel_initialize refused: nothing was done, nothing is undone.
InitializeRefused ==
    /\ Calls /\ level = 0 /\ Fault
    /\ UNCHANGED <<osi, sit, host, mapped, hardware, call, sci>>

InitStep(step) ==
    /\ At("initialize", step)
    /\ Create(Objects(Creates(step)))
    /\ ctx' = IF step = "tables"
              THEN [ctx EXCEPT !.reduced = fw.reduced, !.facs = fw.facs] ELSE ctx
    /\ IF step = "interfaces" THEN uacpi_initialize_interfaces ELSE UNCHANGED osi
    /\ Go(StepAfter(step))
    /\ UNCHANGED <<sit, mapped, handlers, hardware, sci, told, past, faults,
                   starts>>

\* Any of the objects may be refused; those before it exist.
InitStepFails(step) ==
    /\ At("initialize", step) /\ Fault
    /\ \E n \in 0..(Len(Creates(step)) - 1) :
           Create(Objects(SubSeq(Creates(step), 1, n)))
    /\ Reset("namespace")
    /\ UNCHANGED <<osi, sit, ctx, mapped, handlers, hardware, sci, told, past,
                   starts>>

\* initialize_fixed_events: the last event is left out, errors are ignored.
initialize_fixed_events ==
    /\ At("initialize", "fixed")
    /\ \E ok \in BOOLEAN :
        /\ ensure_register_mapped("PM1_EN", ok)
        /\ pm1' = IF ok THEN [pm1 EXCEPT !.en = @ \ 0..(FixedMax - 1)] ELSE pm1
    /\ NeedsLocks({"g_reg_lock"})
    /\ Go("opregion")
    /\ UNCHANGED <<osi, sit, ctx, held, lost, handlers, asked, raises, sci,
                   told, starts>>

\* uacpi_install_default_address_space_handlers changes nothing modelled here.
\* UACPI_FLAG_NO_ACPI_MODE skips the mode switch.
enter_acpi_mode_initial(skip) ==
    /\ At("initialize", "mode")
    /\ IF skip \/ ctx.reduced THEN Return
       ELSE call' = [op |-> "initialize", at |-> "read_mode", arg |-> "acpi"]
    /\ UNCHANGED <<osi, sit, host, mapped, hardware, sci, faults>>

-----------------------------------------------------------------------------
(***************************************************************************)
(* enter_mode, called by the initialisation, by the reset, and by the host *)
(* (uacpi_enter_acpi_mode, uacpi_leave_acpi_mode).                         *)
(***************************************************************************)
ModeEnds == IF call.op = "reset" THEN Go("mappings") ELSE Return
ModeCalls == {"initialize", "reset", "enter_mode"}
DidChange(ok) ==
    ctx' = IF ok /\ call.op = "initialize" THEN [ctx EXCEPT !.wasLegacy = TRUE] ELSE ctx

\* read_mode: an SCI_EN that cannot be read counts as legacy mode.
read_mode(ok) == IF ok THEN pm1.mode ELSE "legacy"

StartMode(mode) ==
    /\ Enter("enter_mode", "read_mode", mode) /\ usage = "modes" /\ level >= 1
    /\ ~ctx.reduced
    /\ past' = [past EXCEPT !.mode = TRUE]
    /\ UNCHANGED <<osi, sit, ctx, held, lost, mapped, handlers, hardware, sci,
                   told, faults, starts>>

\* Without an SMI command port the mode is ACPI, and cannot be changed.
enter_mode ==
    /\ call.op \in ModeCalls /\ At(call.op, "read_mode")
    /\ IF ~fw.legacy
       THEN ModeEnds /\ UNCHANGED <<mapped, faults, past>>
       ELSE \E ok \in BOOLEAN :
                /\ ensure_register_mapped("PM1_CNT", ok)
                /\ past' = [past EXCEPT !.mode = @ \/ ~ok]
                /\ IF read_mode(ok) = call.arg THEN ModeEnds ELSE Go("set_mode")
    /\ UNCHANGED <<osi, sit, ctx, held, lost, handlers, hardware, sci, told, starts>>

\* A FADT that gives no value for either mode ends it before the command is
\* written.
set_mode ==
    /\ call.op \in ModeCalls /\ At(call.op, "set_mode")
    /\ IF ~fw.switch
       THEN ModeEnds /\ UNCHANGED <<mapped, faults, asked, past>>
       ELSE \E ok \in BOOLEAN :
              /\ ensure_register_mapped("SMI_CMD", ok)
              /\ asked' = IF ok THEN call.arg ELSE asked
              /\ past' = IF ok THEN past ELSE [past EXCEPT !.mode = TRUE]
              /\ IF ok THEN Go("poll") ELSE ModeEnds
    /\ UNCHANGED <<osi, sit, ctx, held, lost, handlers, pm1, raises, sci, told,
                   starts>>

\* The poll sees the mode, or five seconds pass without an answer, which may
\* still come.
PollMode ==
    /\ call.op \in ModeCalls /\ At(call.op, "poll")
    /\ \/ /\ pm1.mode = call.arg /\ DidChange(TRUE)
          /\ UNCHANGED <<past, faults>>
       \/ /\ pm1.mode # call.arg /\ Fault /\ DidChange(FALSE)
          /\ past' = [past EXCEPT !.mode = TRUE]
    /\ ModeEnds
    /\ UNCHANGED <<osi, sit, held, lost, mapped, handlers, hardware, sci, told,
                   starts>>

FirmwareSwitches ==
    /\ asked # "none" /\ asked' = "none"
    /\ pm1' = [pm1 EXCEPT !.mode = asked]
    /\ UNCHANGED <<osi, sit, host, mapped, call, sci, faults, raises>>

-----------------------------------------------------------------------------
(***************************************************************************)
(* uacpi_namespace_load: the tables are loaded, whose failures are only    *)
(* counted, except that of finding them; then uacpi_initialize_events.     *)
(***************************************************************************)
uacpi_namespace_load ==
    /\ Enter("load", "tables", 0) /\ level = 1
    /\ UNCHANGED <<osi, sit, host, mapped, hardware, sci, faults>>

LoadSteps == <<"tables", "gpes", "sci", "event", "spinlock">>
LoadCreates(step) ==
    CASE step = "tables" -> {} [] step = "gpes" -> {"gpes"} [] step = "sci" -> {"sci"}
      [] step = "event" -> {"global_lock_event"}
      [] step = "spinlock" -> {"global_lock_spinlock"}

LoadStep(i) ==
    /\ At("load", LoadSteps[i])
    /\ Create(LoadCreates(LoadSteps[i]))
    /\ IF LoadSteps[i] = "tables" /\ ctx.reduced
       THEN Return /\ ctx' = [ctx EXCEPT !.level = 2]
       ELSE /\ Go(IF i = Len(LoadSteps) THEN "install" ELSE LoadSteps[i + 1])
            /\ ctx' = [ctx EXCEPT !.sciValid = @ \/ LoadSteps[i] = "sci"]
    /\ UNCHANGED <<osi, sit, mapped, handlers, hardware, sci, told, past, faults,
                   starts>>

\* An event block may be half made: its registers stay for the reset.
LoadStepFails(i) ==
    /\ At("load", LoadSteps[i]) /\ Fault
    /\ \/ UNCHANGED <<held, lost>>
       \/ LoadSteps[i] = "gpes" /\ Create({"gpes"})
    /\ Reset("namespace")
    /\ UNCHANGED <<osi, sit, ctx, mapped, handlers, hardware, sci, told, past,
                   starts>>

\* What uacpi_initialize_events makes of the installation of the handler of the
\* global lock: a platform that has no lock shows it by an enable bit that
\* stays zero, and one without a FACS cannot use it.
LockInstalled(ret) ==
    CASE ret = "HARDWARE_TIMEOUT" -> Return /\ ctx' = [ctx EXCEPT !.level = 2]
      [] ret = "OK" /\ ctx.facs ->
             Return /\ ctx' = [ctx EXCEPT !.level = 2, !.hasLock = TRUE]
      [] ret = "OK" /\ ~ctx.facs -> Go("uninstall") /\ UNCHANGED ctx
      [] OTHER -> Reset("namespace") /\ UNCHANGED ctx

\* uacpi_namespace_initialize: _INI, _REG and _STA methods run, whose failures
\* are only counted; the hook of the kernel before and after may refuse.
uacpi_namespace_initialize ==
    /\ Enter("ns_init", "methods", 0) /\ level = 2
    /\ UNCHANGED <<osi, sit, host, mapped, hardware, sci, faults>>

NamespaceInitialized ==
    /\ At("ns_init", "methods") /\ Return
    /\ ctx' = [ctx EXCEPT !.level = 3]
    /\ UNCHANGED <<osi, sit, held, lost, mapped, handlers, hardware, sci, told,
                   past, faults, starts>>

NamespaceRefused ==
    /\ At("ns_init", "methods") /\ Fault /\ Reset("namespace")
    /\ ctx' \in {ctx, [ctx EXCEPT !.level = 3]}
    /\ UNCHANGED <<osi, sit, held, lost, mapped, handlers, hardware, sci, told,
                   past, starts>>

-----------------------------------------------------------------------------
(***************************************************************************)
(* The fixed events (event.c).  g_event_lock is held throughout a call.    *)
(***************************************************************************)
StartEvent(op, e) ==
    /\ Enter(op, op, e) /\ usage = "events" /\ level >= 1 /\ ~ctx.reduced
    /\ UNCHANGED <<osi, sit, host, mapped, hardware, sci, faults>>

Installed(ret) ==
    IF call.op = "load" THEN LockInstalled(ret) ELSE Return /\ UNCHANGED ctx
Owner == IF call.op = "load" THEN "lock" ELSE "host"

\* uacpi_install_fixed_event_handler: the handler is set, then the event is
\* enabled, and what the hardware made of it read back.
InstallHandler ==
    /\ call.op \in {"load", "install"} /\ At(call.op, "install")
    /\ IF handlers[call.arg] # "none"
       THEN Installed("ALREADY_EXISTS") /\ UNCHANGED <<mapped, faults, handlers, pm1, past>>
       ELSE \E ok \in BOOLEAN :
              /\ ensure_register_mapped("PM1_EN", ok)
              /\ NeedsLocks({"g_reg_lock", "g_event_lock"})
              /\ IF ok
                 THEN /\ Go("check") /\ UNCHANGED ctx
                      /\ handlers' = [handlers EXCEPT ![call.arg] = Owner]
                      /\ pm1' = [pm1 EXCEPT !.en = WriteEnable(@, call.arg, TRUE)]
                 ELSE Installed("MAPPING_FAILED") /\ UNCHANGED <<handlers, pm1>>
    /\ UNCHANGED <<osi, sit, held, lost, asked, raises, sci, told, starts>>

InstallChecked ==
    /\ call.op \in {"load", "install"} /\ At(call.op, "check")
    /\ IF call.arg \in pm1.en
       THEN Installed("OK") /\ UNCHANGED handlers
       ELSE /\ Installed("HARDWARE_TIMEOUT")
            /\ handlers' = [handlers EXCEPT ![call.arg] = "none"]
    /\ UNCHANGED <<osi, sit, held, lost, mapped, hardware, sci, told, past, faults,
                   starts>>

\* uacpi_uninstall_fixed_event_handler: a handler whose event cannot be
\* disabled stays where it is.
Uninstall(e) ==
    \/ /\ ensure_register_mapped("PM1_EN", TRUE)
       /\ pm1' = [pm1 EXCEPT !.en = WriteEnable(@, e, FALSE)]
       /\ handlers' = [handlers EXCEPT ![e] = "none"]
       /\ NeedsLocks({"g_reg_lock", "g_event_lock"})
    \/ /\ "PM1_EN" \in mapped => e \in pm1.en   \* unmapped, or the hardware refuses
       /\ Fault
       /\ past' = [past EXCEPT !.stuck = @ \cup {e},
                               !.crash = @ \/ ~({"g_reg_lock", "g_event_lock"} \subseteq held)]
       /\ UNCHANGED <<pm1, handlers, mapped>>

UninstallHandler ==
    /\ call.op \in {"load", "uninstall"} /\ At(call.op, "uninstall")
    /\ Uninstall(call.arg) /\ Return
    /\ ctx' = IF call.op = "load" THEN [ctx EXCEPT !.level = 2] ELSE ctx
    /\ UNCHANGED <<osi, sit, held, lost, asked, raises, sci, told, starts>>

\* uacpi_enable_fixed_event, refused without a handler, and its opposite.
SetEvent(value) ==
    /\ LET op == IF value THEN "enable" ELSE "disable" IN At(op, op)
    /\ \E ok \in BOOLEAN :
        /\ ensure_register_mapped("PM1_EN", ok)
        /\ pm1' = IF ok /\ (value => handlers[call.arg] # "none")
                  THEN [pm1 EXCEPT !.en = WriteEnable(@, call.arg, value)] ELSE pm1
    /\ NeedsLocks({"g_reg_lock", "g_event_lock"})
    /\ Return
    /\ UNCHANGED <<osi, sit, ctx, held, lost, handlers, asked, raises, sci, told,
                   starts>>

uacpi_clear_fixed_event ==
    /\ At("clear", "clear")
    /\ \E ok \in BOOLEAN :
        /\ ensure_register_mapped("PM1_STS", ok)
        /\ pm1' = IF ok THEN [pm1 EXCEPT !.sts = ClearStatus(@, call.arg)] ELSE pm1
    /\ NeedsLocks({"g_reg_lock"})
    /\ Return
    /\ UNCHANGED <<osi, sit, ctx, held, lost, handlers, asked, raises, sci, told,
                   starts>>

-----------------------------------------------------------------------------
(***************************************************************************)
(* The hardware and handle_sci.  The SCI is level triggered; it interrupts *)
(* the thread and runs to its end.                                         *)
(***************************************************************************)
HwRaise(e) ==
    /\ raises < sit.raises /\ raises' = raises + 1
    /\ pm1.asleep => pm1.typ < 4 /\ e \in pm1.en
    /\ pm1' = [pm1 EXCEPT !.sts = @ \cup {e} \cup (IF pm1.asleep THEN {WAK} ELSE {}),
                          !.asleep = FALSE]
    /\ UNCHANGED <<osi, sit, host, mapped, asked, call, sci, faults>>

\* Any other wake source.
HwWake ==
    /\ pm1.asleep /\ pm1.typ < 4
    /\ pm1' = [pm1 EXCEPT !.sts = @ \cup {WAK}, !.asleep = FALSE]
    /\ UNCHANGED <<osi, sit, host, mapped, asked, raises, call, sci, faults>>

\* By a fixed event, or by a GPE, where there are hardware events at all.
Asserted ==
    /\ pm1.mode = "acpi"
    /\ pm1.sts \cap pm1.en # {} \/ ("gpes" \in held /\ sit.raises > 0)

\* handle_fixed_events works on the status and enable registers it read once;
\* the last event is left out.  If they cannot be read the GPEs are still
\* looked at.
handle_fixed_events ==
    /\ "sci" \in held /\ Asserted /\ ~sci.on /\ ~sci.masked /\ ~pm1.asleep
    /\ \E ok \in BOOLEAN :
        /\ ensure_register_mapped("PM1_STS", ok)
        /\ sci' = [sci EXCEPT !.on = TRUE,
                             !.todo = IF ok THEN pm1.sts \cap pm1.en \cap 0..(FixedMax - 1)
                                      ELSE {}]
    /\ UNCHANGED <<osi, sit, host, hardware, call>>

\* dispatch_fixed_event.  handle_global_lock takes its spinlock and signals
\* its event; an event without a handler is disabled.
dispatch_fixed_event(e) ==
    /\ sci.on /\ e \in sci.todo /\ \A f \in sci.todo : e <= f
    /\ sci' = [sci EXCEPT !.todo = @ \ {e}]
    /\ pm1' = [pm1 EXCEPT !.sts = ClearStatus(@, e),
                          !.en = IF handlers[e] = "none" THEN WriteEnable(@, e, FALSE) ELSE @]
    /\ NeedsLocks({"g_reg_lock"} \cup
                  IF handlers[e] = "lock" THEN {"global_lock_event", "global_lock_spinlock"}
                  ELSE {})
    /\ UNCHANGED <<osi, sit, ctx, held, lost, mapped, handlers, asked, raises, call,
                   told, faults, starts>>

\* The end of handle_sci, handle_gpes, which switches a GPE that fired off
\* under its spinlock; what becomes of the GPE is the subject of Gpe.
handle_sci ==
    /\ sci.on /\ sci.todo = {}
    /\ sci' = [sci EXCEPT !.on = FALSE]
    /\ NeedsLocks({"g_gpe_state_slock"})
    /\ UNCHANGED <<osi, sit, ctx, held, lost, mapped, handlers, hardware, call, told,
                   faults, starts>>

-----------------------------------------------------------------------------
(***************************************************************************)
(* uacpi_state_reset: called by the host, or by a step that failed.        *)
(***************************************************************************)
uacpi_state_reset ==
    /\ Enter("reset", "namespace", 0) /\ level >= 1
    /\ UNCHANGED <<osi, sit, host, mapped, hardware, sci, faults>>

\* Mutant: the interrupt handler outlives the locks it takes.
FreesLocksFirst(at) ==
    CASE at = "namespace" -> {"namespace"} [] at = "interfaces" -> {"interface_mutex"}
      [] at = "sci" -> {"g_gpe_state_slock", "g_reg_lock", "gpes"}
      [] at = "rest" -> {"sci", "g_event_lock", "notify_mutex", "g_opregion_lock", "tables"}
      [] at = "mappings" -> {"global_lock_event", "global_lock_spinlock", "kernel"}
      [] OTHER -> {}

\* What each part of the reset frees, if it is there.
Frees(at) ==
    CASE at = "namespace" -> {"namespace"} [] at = "interfaces" -> {"interface_mutex"}
      [] at = "sci" -> (IF ctx.sciValid THEN {"sci"} ELSE {}) \cup {"gpes"}
      [] at = "rest" -> {"g_gpe_state_slock", "g_event_lock", "notify_mutex",
                         "g_opregion_lock", "tables"}
      [] at = "mappings" -> {"g_reg_lock", "global_lock_event", "global_lock_spinlock",
                             "kernel"}
      [] OTHER -> {}

\* Mutant: the context is zeroed before it is asked for the mode.
ResetOrderZeroed == [namespace |-> "interfaces", interfaces |-> "sci", sci |-> "fixed",
                     rest |-> "mappings"]

ResetOrder == [namespace |-> "interfaces", interfaces |-> "sci", sci |-> "fixed",
               rest |-> IF ctx.wasLegacy THEN "read_mode" ELSE "mappings"]

ResetPart(at) ==
    /\ At("reset", at) /\ at \in DOMAIN ResetOrder
    /\ held' = held \ Frees(at)
    /\ IF at = "interfaces" /\ live THEN uacpi_deinitialize_interfaces ELSE UNCHANGED osi
    /\ call' = [op |-> "reset", at |-> ResetOrder[at],
                arg |-> IF at = "rest" THEN "legacy" ELSE 0]
    /\ ctx' = IF at = "sci" THEN [ctx EXCEPT !.sciValid = FALSE] ELSE ctx
    /\ UNCHANGED <<sit, lost, mapped, handlers, hardware, sci, told, past, faults,
                   starts>>

\* The handlers of the fixed events but the last; an uninstallation that
\* fails is ignored.
ResetFixed ==
    /\ At("reset", "fixed")
    /\ LET next == call.arg + 1
       IN  call' = IF next < FixedMax THEN [call EXCEPT !.arg = next]
                   ELSE [call EXCEPT !.at = "rest", !.arg = 0]
    /\ IF handlers[call.arg] # "none" /\ ~ctx.reduced
       THEN Uninstall(call.arg)
       ELSE UNCHANGED <<mapped, faults, pm1, handlers, past>>
    /\ UNCHANGED <<osi, sit, ctx, held, lost, asked, raises, sci, told, starts>>

\* The registers are unmapped, what is left is freed, and the context zeroed.
ResetEnds ==
    /\ At("reset", "mappings") /\ Return
    /\ held' = held \ Frees("mappings")
    /\ mapped' = {} /\ ctx' = Zero /\ told' = NoState
    /\ UNCHANGED <<osi, sit, lost, handlers, hardware, sci, past, faults, starts>>

-----------------------------------------------------------------------------
(***************************************************************************)
(* sleep.c.  The host calls as sleep.h has it: enter after a prepare that  *)
(* was accepted, with interrupts disabled until it wakes.                  *)
(***************************************************************************)
\* get_slp_type_for_state: of the package of one element that is no integer
\* the caller learns nothing: the old type stays, and the call succeeds.
get_slp_type_for_state(state, old) ==
    CASE fw.slp[state] = "good" -> state
      [] fw.slp[state] = "big" -> Big
      [] fw.slp[state] = "short" -> old
      [] OTHER -> Invalid
SleepSupported(state) == fw.slp[state] \in {"good", "big", "short"}

\* Mutant: the types of S0 are stored over those of the state.
SleepTypesOver(state) ==
    [ctx EXCEPT !.last = get_slp_type_for_state(
                             0, get_slp_type_for_state(state, ctx.last))]

SleepTypes(state) ==
    [ctx EXCEPT !.last = get_slp_type_for_state(state, @),
                !.s0 = IF SleepSupported(state) THEN get_slp_type_for_state(0, @) ELSE @]

StartSleep(op, state) ==
    /\ Enter(op, op, state) /\ usage = "sleep" /\ level = 3
    /\ op = "enter" => told = state
    /\ op \in {"prepare", "enter"} => ~sci.masked
    /\ op = "wake_prepare" => sci.masked
    /\ sci' = [sci EXCEPT !.masked = op \in {"enter", "wake_prepare"}]
    /\ UNCHANGED <<osi, sit, host, mapped, hardware, faults>>

\* uacpi_prepare_for_sleep_state; _PTS may fail when the types are stored.
uacpi_prepare_for_sleep_state ==
    /\ At("prepare", "prepare") /\ Return
    /\ ctx' = SleepTypes(call.arg)
    /\ \/ /\ told' = (IF SleepSupported(call.arg) THEN call.arg ELSE NoState)
          /\ UNCHANGED faults
       \/ SleepSupported(call.arg) /\ told' = NoState /\ Fault
    /\ UNCHANGED <<osi, sit, held, lost, mapped, handlers, hardware, sci, past,
                   starts>>

\* uacpi_enter_sleep_state refuses types that do not fit.
uacpi_enter_sleep_state ==
    /\ At("enter", "enter")
    /\ IF ctx.last > 7 THEN Return
       ELSE Go(IF ctx.reduced THEN "sleep" ELSE "clear_wake")
    /\ UNCHANGED <<osi, sit, host, mapped, hardware, sci, faults>>

\* enter_sleep_state_hw_full up to the write of the type.
EnterSteps == <<"clear_wake", "gpes_off", "clear_events", "gpes_wake", "type">>
EnterEffect(at) ==
    CASE at = "clear_wake" -> [pm1 EXCEPT !.sts = ClearStatus(@, WAK)]
      [] at = "gpes_off" -> [pm1 EXCEPT !.gpes = "off"]
      [] at = "clear_events" -> [pm1 EXCEPT !.sts = {}]
      [] at = "gpes_wake" -> [pm1 EXCEPT !.gpes = "wake"]
      [] at = "type" -> [pm1 EXCEPT !.typ = ctx.last]
RegisterOf(at) ==
    CASE at \in {"clear_wake", "clear_events"} -> "PM1_STS" [] at = "type" -> "PM1_CNT"
      [] OTHER -> "GPE"

EnterStep(i) ==
    /\ At("enter", EnterSteps[i])
    /\ \/ /\ IF RegisterOf(EnterSteps[i]) = "GPE" THEN UNCHANGED <<mapped, faults>>
             ELSE ensure_register_mapped(RegisterOf(EnterSteps[i]), TRUE)
          /\ pm1' = EnterEffect(EnterSteps[i])
          /\ Go(IF i = Len(EnterSteps) THEN "sleep" ELSE EnterSteps[i + 1])
       \/ /\ Fault /\ Return /\ UNCHANGED <<pm1, mapped>>
    /\ UNCHANGED <<osi, sit, host, asked, raises, sci>>

\* SLP_EN is written; the machine sleeps, or ignores it.  With reduced
\* hardware the wake status, the type and SLP_EN are one step here.
GoToSleep ==
    /\ At("enter", "sleep") /\ Go("asleep")
    /\ LET ready == IF ctx.reduced
                    THEN [pm1 EXCEPT !.sts = @ \ {WAK}, !.typ = ctx.last] ELSE pm1
       IN  \/ (pm1' = [ready EXCEPT !.asleep = TRUE] /\ UNCHANGED faults)
          \/ (pm1' = ready /\ Fault)
    /\ UNCHANGED <<osi, sit, host, mapped, asked, raises, sci>>

\* The wake status is polled for; S4 and S5 give up after ten seconds.
Awake ==
    /\ At("enter", "asleep") /\ ~pm1.asleep
    /\ WAK \in pm1.sts \/ (call.arg > 3 /\ ~ctx.reduced)
    /\ Return
    /\ UNCHANGED <<osi, sit, host, mapped, hardware, sci, faults>>

\* What the write of the type of S0 leaves in the field, and whether the
\* machine sleeps upon it.  A type that fits keeps it awake, even if SLP_EN is
\* written with it (reduced hardware).  One that does not is not refused here:
\* the field takes its low bits, any of 0..7, and SLP_EN, the bit next to the
\* field, may be set too (full hardware), or is (reduced).
S0Field == IF ctx.s0 = Big THEN 0..7 ELSE {ctx.s0}
S0Sleeps == IF ctx.s0 = Big THEN BOOLEAN ELSE {FALSE}

\* Errors are ignored here.
uacpi_prepare_for_wake_from_sleep_state ==
    /\ At("wake_prepare", "wake_prepare") /\ Return
    /\ \E ok \in BOOLEAN, field \in S0Field, sleeps \in S0Sleeps :
        /\ ensure_register_mapped(IF ctx.reduced THEN "SLP_CNT" ELSE "PM1_CNT", ok)
        /\ pm1' = IF ok /\ ctx.s0 # Invalid
                  THEN [pm1 EXCEPT !.typ = field, !.asleep = sleeps] ELSE pm1
    /\ UNCHANGED <<osi, sit, host, asked, raises, sci>>

\* uacpi_wake_from_sleep_state.  The wake status is cleared last.
uacpi_wake_from_sleep_state ==
    /\ At("wake", "wake") /\ Return
    /\ ctx' = [ctx EXCEPT !.last = Invalid] /\ told' = NoState
    /\ \/ /\ pm1' = [pm1 EXCEPT !.gpes = IF ctx.reduced THEN @ ELSE "runtime",
                              !.sts = IF ctx.reduced THEN @ \ {WAK} ELSE ClearStatus(@, WAK)]
          /\ UNCHANGED faults
       \/ /\ ~ctx.reduced /\ Fault
          /\ pm1' \in {pm1, [pm1 EXCEPT !.gpes = "off"]}
    /\ UNCHANGED <<osi, sit, held, lost, mapped, handlers, asked, raises, sci, past,
                   starts>>

-----------------------------------------------------------------------------
\* The operations of Osi that run between a start and a reset.
OsiCall ==
    /\ Calls /\ level >= 1 /\ usage = "osi" /\ Operation
    /\ UNCHANGED <<sit, host, mapped, hardware, call, sci, faults>>

Starting ==
    \/ uacpi_initialize \/ InitializeRefused \/ initialize_fixed_events
    \/ (\E i \in DOMAIN InitSteps : InitStep(InitSteps[i]) \/ InitStepFails(InitSteps[i]))
    \/ \E skip \in BOOLEAN : enter_acpi_mode_initial(skip)
    \/ enter_mode \/ set_mode \/ PollMode
    \/ uacpi_namespace_load \/ uacpi_namespace_initialize \/ NamespaceInitialized
    \/ NamespaceRefused
    \/ \E i \in DOMAIN LoadSteps : LoadStep(i) \/ LoadStepFails(i)
Stopping ==
    \/ uacpi_state_reset \/ ResetFixed \/ ResetEnds
    \/ \E at \in DOMAIN ResetOrder : ResetPart(at)
Using ==
    \/ OsiCall
    \/ \E mode \in {"acpi", "legacy"} : StartMode(mode)
    \/ \E op \in {"install", "uninstall", "enable", "disable", "clear"}, e \in Events \ {LOCK} :
           StartEvent(op, e)
    \/ InstallHandler \/ InstallChecked \/ UninstallHandler \/ uacpi_clear_fixed_event
    \/ \E value \in BOOLEAN : SetEvent(value)
    \/ \E op \in {"prepare", "enter", "wake_prepare", "wake"}, state \in SleepStates :
           StartSleep(op, state)
    \/ uacpi_prepare_for_sleep_state \/ uacpi_enter_sleep_state \/ GoToSleep \/ Awake
    \/ \E i \in DOMAIN EnterSteps : EnterStep(i)
    \/ uacpi_prepare_for_wake_from_sleep_state \/ uacpi_wake_from_sleep_state
Hardware ==
    \/ FirmwareSwitches \/ HwWake \/ (\E e \in Events : HwRaise(e))
    \/ handle_fixed_events \/ (\E e \in Events : dispatch_fixed_event(e)) \/ handle_sci

LNext == Starting \/ Stopping \/ Using \/ Hardware
LSpec == LInit /\ [][LNext]_lvars

-----------------------------------------------------------------------------
\* Safety: once a reset is through, whichever step of whichever level failed,
\* nothing of the host is held or was lost, no register is mapped, no handler
\* is left but that of the last fixed event (which no loop reaches) or one the
\* hardware would not let go, and the machine is back in the mode it was found
\* in, unless the firmware has not answered or the host chose the mode itself.
ResetRestores ==
    call.op = "none" /\ level = 0 =>
        /\ held = {} /\ lost = {} /\ mapped = {} /\ registered = {}
        /\ \A e \in Events \ ({FixedMax} \cup past.stuck) : handlers[e] = "none"
        /\ past.mode \/ asked # "none" \/ pm1.mode = past.home

\* Safety: nobody takes a lock that is not there, the interrupt handler at any
\* moment of a start or a reset included, unless an earlier reset could not
\* uninstall a handler.
LocksExist == past.crash => past.stuck # {}

\* Safety: the machine sleeps when it is to enter a state, not when it prepares
\* to leave it, as the last accepted prepare said and with only the GPEs enabled
\* that may wake it.
SleepsAsTold ==
    pm1.asleep => /\ call.op = "enter" /\ pm1.typ = told
                  /\ ctx.reduced \/ pm1.gpes = "wake"

\* sleep.h: uacpi_enter_sleep_state enters "the given sleep state after
\* preparation".  It does not if the package of the state holds one element
\* that is no integer: the preparation succeeds, and leaves the type of the
\* state that was prepared before it.
EntersGivenState == pm1.asleep => pm1.typ = told

-----------------------------------------------------------------------------
(***************************************************************************)
(* What the proofs add to these to make them inductive: which object       *)
(* exists at which step of the start and of the reset, what is left of the *)
(* handlers and of the mode there, and what the sleep types are while a    *)
(* prepared state is entered.                                              *)
(***************************************************************************)
Machines == [reduced : BOOLEAN, legacy : BOOLEAN, switch : BOOLEAN, facs : BOOLEAN,
             lock : BOOLEAN, slp : [SleepStates -> {"good", "big", "bad", "short"}]]
ASSUME SituationsAssumption == \A s \in Situations : s.fw \in Machines

Modes == {"legacy", "acpi"}
\* Of a record, its fields and the ranges that matter.
LTypeOK ==
    /\ sit \in Situations
    /\ DOMAIN ctx = DOMAIN Zero /\ level \in 0..3 /\ ctx.last \in Nat
    /\ handlers \in [Events -> {"none", "lock", "host"}]
    /\ DOMAIN pm1 = {"sts", "en", "mode", "typ", "asleep", "gpes"} /\ pm1.mode \in Modes
    /\ asked \in Modes \cup {"none"}
    /\ DOMAIN call = {"op", "at", "arg"} /\ DOMAIN sci = {"on", "todo", "masked"}
    /\ DOMAIN past = {"home", "mode", "stuck", "crash"}

ModePlaces == {"read_mode", "set_mode", "poll"}
InitPlaces == {"tables", "registers", "events_early", "fixed", "opregion", "interfaces",
               "namespace", "notify", "mode"} \cup ModePlaces
LoadPlaces == {"tables", "gpes", "sci", "event", "spinlock", "install", "check",
               "uninstall"}
EnterPlaces == {"enter", "clear_wake", "gpes_off", "clear_events", "gpes_wake", "type",
                "sleep", "asleep"}
ResetPlaces == {"namespace", "interfaces", "sci", "fixed", "rest", "mappings"}
               \cup ModePlaces
EventOps == {"install", "uninstall", "enable", "disable", "clear"}
SleepOps == {"prepare", "enter", "wake_prepare", "wake"}

\* Where a call can be, with which argument and at which level.
CallFits ==
    \/ call.op = "none" /\ call = Idle
    \/ /\ call.op = "initialize" /\ call.at \in InitPlaces /\ level = 1
       /\ call.at \in ModePlaces => call.arg = "acpi" /\ ~ctx.reduced
       /\ call.at = "fixed" => ~ctx.reduced
    \/ /\ call.op = "load" /\ call.at \in LoadPlaces /\ call.arg = LOCK /\ level = 1
       /\ call.at # "tables" => ~ctx.reduced
    \/ call.op = "ns_init" /\ call.at = "methods" /\ level = 2
    \/ /\ call.op = "enter_mode" /\ call.at \in ModePlaces /\ call.arg \in Modes
       /\ level >= 1 /\ past.mode
    \/ /\ call.op \in EventOps /\ call.arg \in Events \ {LOCK} /\ level >= 1 /\ ~ctx.reduced
       /\ call.at # call.op => call.op = "install" /\ call.at = "check"
    \/ /\ call.op \in SleepOps /\ call.arg \in SleepStates /\ level = 3
       /\ call.at # call.op => call.op = "enter" /\ call.at \in EnterPlaces
    \/ /\ call.op = "reset" /\ call.at \in ResetPlaces /\ level >= 1
       /\ call.at = "fixed" => call.arg \in 0..(FixedMax - 1)
       /\ call.at \in ModePlaces => call.arg = "legacy" /\ ctx.wasLegacy

\* The tables tell whether the hardware is reduced.
ReducedFits ==
    /\ ctx.reduced => fw.reduced
    /\ level >= 1 /\ call.op # "reset" /\ ~(call.op = "initialize" /\ call.at = "tables") =>
         ctx.reduced = fw.reduced

Basic == {"kernel", "tables", "g_reg_lock", "g_opregion_lock", "interface_mutex",
          "namespace", "notify_mutex"}
EventLocks == IF ctx.reduced THEN {} ELSE {"g_gpe_state_slock", "g_event_lock"}
Signalling == {"global_lock_event", "global_lock_spinlock"}
Loaded == {"gpes", "sci"} \cup Signalling

\* What exists when the initialisation or the load is about to do a step, and
\* at most, when the reset is.
Made(at) ==
    CASE at = "tables" -> {"kernel"}
      [] at = "registers" -> {"kernel", "tables"}
      [] at = "events_early" -> {"kernel", "tables", "g_reg_lock"}
      [] at \in {"fixed", "opregion"} -> {"kernel", "tables", "g_reg_lock"} \cup EventLocks
      [] at = "interfaces" ->
           {"kernel", "tables", "g_reg_lock", "g_opregion_lock"} \cup EventLocks
      [] at = "namespace" ->
           {"kernel", "tables", "g_reg_lock", "g_opregion_lock", "interface_mutex"}
           \cup EventLocks
      [] at = "notify" -> (Basic \ {"notify_mutex"}) \cup EventLocks
      [] OTHER -> Basic \cup EventLocks
LoadMade(at) ==
    CASE at \in {"tables", "gpes"} -> {}
      [] at = "sci" -> {"gpes"} [] at = "event" -> {"gpes", "sci"}
      [] at = "spinlock" -> {"gpes", "sci", "global_lock_event"}
      [] OTHER -> Loaded
Running == Basic \cup EventLocks \cup (IF level = 1 \/ ctx.reduced THEN {} ELSE Loaded)
Left(at) ==
    LET all == Basic \cup {"g_gpe_state_slock", "g_event_lock"} \cup Loaded
    IN CASE at = "namespace" -> all
         [] at = "interfaces" -> all \ {"namespace"}
         [] at = "sci" -> all \ {"namespace", "interface_mutex"}
         [] at \in {"fixed", "rest"} -> all \ {"namespace", "interface_mutex", "sci", "gpes"}
         [] OTHER -> {"g_reg_lock", "kernel"} \cup Signalling
HeldExact ==
    /\ lost = {}
    /\ call.op = "initialize" => held = Made(call.at)
    /\ call.op = "load" => held = Basic \cup EventLocks \cup LoadMade(call.at)
    /\ call.op = "reset" => held \subseteq Left(call.at)
    /\ call.op \notin {"initialize", "load", "reset"} =>
         held = IF level = 0 THEN {} ELSE Running

\* The interrupt handler is there with what it takes whatever happens.
SciFits ==
    /\ "sci" \in held <=> ctx.sciValid
    /\ sci.on => "sci" \in held
    /\ "sci" \in held => {"g_reg_lock", "g_gpe_state_slock"} \subseteq held

\* At level 0 there is nothing; beyond its stop there is no list either.
Down ==
    /\ level = 0 => /\ call.op = "none" /\ mapped = {} /\ ~live /\ told = NoState
                    /\ ~ctx.wasLegacy
    /\ call.op = "reset" /\ call.at \notin {"namespace", "interfaces"} => ~live

\* Which handlers the reset has got to.
Removed ==
    IF \/ level = 0 \/ call.op = "initialize"
       \/ call.op = "reset" /\ call.at \in ModePlaces \cup {"rest", "mappings"}
    THEN 0..(FixedMax - 1)
    ELSE IF call.op = "reset" /\ call.at = "fixed" THEN {e \in Events : e < call.arg}
    ELSE {}
HandlersFit ==
    /\ \A e \in Events : handlers[e] = "lock" => e = LOCK
    /\ fw.reduced => \A e \in Events : handlers[e] = "none"
    /\ \A e \in Removed : handlers[e] = "none" \/ e \in past.stuck
    /\ past.stuck = {} =>
         /\ (\E e \in Events \ {FixedMax} : handlers[e] # "none") =>
              {"g_reg_lock", "g_event_lock"} \subseteq held
         /\ handlers[LOCK] = "lock" => Signalling \subseteq held

\* The mode, when the host has left it alone and the firmware answers.
ModeFits ==
    /\ ~fw.legacy => call.at # "set_mode"
    /\ ~(fw.legacy /\ fw.switch) =>
         asked = "none" /\ pm1.mode = past.home /\ ~ctx.wasLegacy /\ call.at # "poll"
    /\ ~past.mode =>
         /\ asked # "none" => call.at = "poll" /\ asked = call.arg /\ pm1.mode # asked
         /\ ctx.wasLegacy => past.home = "legacy"
         /\ call.at # "poll" => pm1.mode =
              IF ctx.wasLegacy /\ call.at # "mappings" THEN "acpi" ELSE past.home
         /\ call.at \in {"set_mode", "poll"} => past.home = "legacy"
         /\ call.at = "poll" /\ asked = "none" => pm1.mode = call.arg
    /\ call.op = "initialize" => ~ctx.wasLegacy

\* The types of the state that was prepared last, and where they go.
SleepFits ==
    /\ told # NoState =>
         /\ told \in SleepStates /\ fw.slp[told] \in {"good", "big"}
         /\ ctx.last = IF fw.slp[told] = "good" THEN told ELSE Big
    /\ call.op = "enter" => told = call.arg
    /\ call.op = "enter" /\ call.at # "enter" => ctx.last = told
    /\ call.op = "enter" /\ ~ctx.reduced =>
         /\ call.at \in {"type", "sleep", "asleep"} => pm1.gpes = "wake"
         /\ call.at \in {"sleep", "asleep"} => pm1.typ = told
    /\ call.op = "enter" /\ ctx.reduced =>
         /\ call.at \in {"enter", "sleep", "asleep"}
         /\ call.at = "asleep" => pm1.typ = told
    /\ pm1.asleep => call.op = "enter" /\ call.at = "asleep"
    /\ ctx.s0 \in {0, Invalid}

\* Without malformed packages, that is (see EntersGivenState), and with a type
\* of S0 that fits the field it is written to (see S0Sleeps).  The type of any
\* other state may be too big: the code refuses to enter it.
WellFormed ==
    \A s \in Situations :
        s.fw.slp[0] # "big" /\ \A x \in SleepStates : s.fw.slp[x] # "short"

LInv ==
    /\ LTypeOK /\ CallFits /\ ReducedFits /\ HeldExact /\ SciFits /\ Down
    /\ HandlersFit /\ ModeFits /\ LocksExist
=============================================================================
