---------------------------- MODULE LifecycleProofs ----------------------------
(***************************************************************************)
(* Theorems about the life of uACPI, for every number of fixed events,     *)
(* every firmware, every bound on failures, hardware events and starts,    *)
(* and every set of _OSI names: a reset restores what it found, no lock is *)
(* used that does not exist, the machine sleeps as it was told, and the    *)
(* list of the _OSI interfaces implements what osi.h promises, alone and   *)
(* when starts, failures and resets use it.                                *)
(***************************************************************************)
EXTENDS Lifecycle, TLAPS

(***************************************************************************)
(* The list of the _OSI interfaces, whatever the names and their kinds.    *)
(***************************************************************************)
\* The invariant of the list holds at first, and every operation keeps it.
LEMMA ListInit == ASSUME Init PROVE OsiInv
<1>1. kind \in [Names -> Kinds]
  BY DEF Init, Kinds
<1> QED
  BY <1>1, NamesAssumption DEF Init, OsiInv

\* Every operation of the list keeps the invariant.
LEMMA ListStep ==
    ASSUME OsiInv, Next
    PROVE  OsiInv'
<1> USE NamesAssumption DEF OsiInv
<1>1. CASE uacpi_initialize_interfaces
  BY <1>1 DEF uacpi_initialize_interfaces, PredefinedKind, Kinds
<1>2. CASE uacpi_deinitialize_interfaces
  <2>1. disabled' = Features
    BY <1>2 DEF uacpi_deinitialize_interfaces, PredefinedKind, Vendor, Feature
  <2> QED
    BY <1>2, <2>1 DEF uacpi_deinitialize_interfaces, Kinds
<1>3. ASSUME NEW name \in Names, InstallKnown(name) PROVE OsiInv'
  BY <1>3 DEF InstallKnown
<1>4. ASSUME NEW name \in Names, NEW k \in {{Vendor}, {Feature}}, InstallNew(name, k)
      PROVE  OsiInv'
  BY <1>4 DEF InstallNew, Kinds
<1>5. ASSUME NEW name \in Names, UninstallDynamic(name) PROVE OsiInv'
  BY <1>5 DEF UninstallDynamic, Kinds
<1>6. ASSUME NEW name \in Names, UninstallPredefined(name) PROVE OsiInv'
  BY <1>6 DEF UninstallPredefined
<1>7. ASSUME NEW name \in Names, NEW enabled \in BOOLEAN,
             configure_host_interface(name, enabled)
      PROVE  OsiInv'
  BY <1>7 DEF configure_host_interface
<1>8. ASSUME NEW name \in Names, NEW value \in BOOLEAN, HandleKnown(name, value)
      PROVE  OsiInv'
  BY <1>8 DEF HandleKnown
<1>9. ASSUME NEW name \in Names, HandleUnknown(name) PROVE OsiInv'
  BY <1>9 DEF HandleUnknown
<1>10. ASSUME NEW enable \in BOOLEAN, NEW k \in Kinds \ {{}},
              uacpi_bulk_configure_interfaces(enable, k)
       PROVE  OsiInv'
  BY <1>10 DEF uacpi_bulk_configure_interfaces
<1>11. ASSUME NEW handler \in Handlers \cup {NoHandler},
              uacpi_set_interface_query_handler(handler)
       PROVE  OsiInv'
  BY <1>11 DEF uacpi_set_interface_query_handler
<1> QED
  BY <1>1, <1>2, <1>3, <1>4, <1>5, <1>6, <1>7, <1>8, <1>9, <1>10, <1>11 DEF Next, Operation

\* Every operation is one that osi.h promises, or changes nothing of what it
\* promises: an installation supports a name, whether it was disabled or new;
\* a bulk configuration supports or withdraws the names of the kinds it names.
LEMMA ListStepIsPromised ==
    ASSUME OsiInv, Next
    PROVE  Promise!Next
<1> USE NamesAssumption DEF OsiInv
<1> DEFINE Supports(names) == names \in SUBSET Names /\ Promise!Support(names)
           Withdraws(names) == names \in SUBSET Names /\ Promise!Withdraw(names)
<1> HIDE DEF Supports, Withdraws
<1>0. (\E names : Supports(names) \/ Withdraws(names)) => Promise!Next
  BY DEF Promise!Next, Supports, Withdraws
<1> USE DEF Promise!Support, Promise!Withdraw, Promise!NoAnswer, NoQuery, Supported
<1>1. CASE uacpi_initialize_interfaces
  <2>1. Promise!Start
    BY <1>1 DEF uacpi_initialize_interfaces, Promise!Start
  <2> QED
    BY <2>1 DEF Promise!Next
<1>2. CASE uacpi_deinitialize_interfaces
  <2>1. Promise!Stop
    BY <1>2 DEF uacpi_deinitialize_interfaces, Promise!Stop
  <2> QED
    BY <2>1 DEF Promise!Next
<1>3. ASSUME NEW name \in Names, InstallKnown(name) PROVE Promise!Next
  <2>1. Supports({name})
    BY <1>3 DEF InstallKnown, Supports
  <2> QED
    BY <1>0, <2>1
<1>4. ASSUME NEW name \in Names, NEW k \in {{Vendor}, {Feature}}, InstallNew(name, k)
      PROVE  Promise!Next
  <2>1. Supports({name})
    BY <1>4 DEF InstallNew, Supports
  <2> QED
    BY <1>0, <2>1
<1>5. ASSUME NEW name \in Names, UninstallDynamic(name) PROVE Promise!Next
  <2>1. Withdraws({name})
    BY <1>5 DEF UninstallDynamic, Withdraws
  <2> QED
    BY <1>0, <2>1
<1>6. ASSUME NEW name \in Names, UninstallPredefined(name) PROVE Promise!Next
  <2>1. Withdraws({name})
    BY <1>6 DEF UninstallPredefined, Withdraws
  <2> QED
    BY <1>0, <2>1
<1>7. ASSUME NEW name \in Names, NEW enabled \in BOOLEAN,
             configure_host_interface(name, enabled)
      PROVE  Promise!Next
  <2>1. IF enabled THEN Supports({name}) ELSE Withdraws({name})
    BY <1>7 DEF configure_host_interface, Supports, Withdraws
  <2> QED
    BY <1>0, <2>1
<1>8. ASSUME NEW name \in Names, NEW value \in BOOLEAN, HandleKnown(name, value)
      PROVE  Promise!Next
  <2>1. Promise!Query(name, value, interface_handler # NoHandler)
    BY <1>8 DEF HandleKnown, Answered, Promise!Query, Promise!Later
  <2> QED
    BY <2>1 DEF Promise!Next
<1>9. ASSUME NEW name \in Names, HandleUnknown(name) PROVE Promise!Next
  <2>1. Weight[name] = 0
    BY <1>9 DEF HandleUnknown
  <2>2. Promise!Query(name, FALSE, FALSE)
    BY <1>9, <2>1 DEF HandleUnknown, Answered, Promise!Query, Promise!Later
  <2> QED
    BY <2>2 DEF Promise!Next
<1>10. ASSUME NEW enable \in BOOLEAN, NEW k \in Kinds \ {{}},
              uacpi_bulk_configure_interfaces(enable, k)
       PROVE  Promise!Next
  <2> DEFINE matching == {n \in registered : kind[n] \cap k # {}}
  <2>1. IF enable THEN Supports(matching) ELSE Withdraws(matching)
    BY <1>10 DEF uacpi_bulk_configure_interfaces, Supports, Withdraws
  <2> QED
    BY <1>0, <2>1
<1>11. ASSUME NEW handler \in Handlers \cup {NoHandler},
              uacpi_set_interface_query_handler(handler)
       PROVE  Promise!Next
  <2>1. Supports({})
    BY <1>11 DEF uacpi_set_interface_query_handler, Supports
  <2> QED
    BY <1>0, <2>1
<1> QED
  BY <1>1, <1>2, <1>3, <1>4, <1>5, <1>6, <1>7, <1>8, <1>9, <1>10, <1>11 DEF Next, Operation

\* The list alone keeps its invariant in every behaviour: in particular the
\* static records are the defaults again whenever the subsystem is stopped.
THEOREM ListInvariance == Spec => []OsiInv
<1>1. OsiInv /\ UNCHANGED vars => OsiInv'
  BY DEF OsiInv, vars
<1> QED
  BY ListInit, ListStep, <1>1, PTL DEF Spec

\* The list implements what osi.h promises.
THEOREM ListImplements == Spec => ImplementsPromise
<1>1. Init => Promise!Init
  BY DEF Init, Promise!Init, Supported, NoQuery, Promise!NoAnswer
<1>2. OsiInv /\ [Next]_vars => [Promise!Next]_(Promise!vars)
  <2>1. UNCHANGED vars => UNCHANGED Promise!vars
    BY DEF vars, Promise!vars, Supported
  <2> QED
    BY <2>1, ListStepIsPromised
<1> QED
  BY <1>1, <1>2, ListInvariance, PTL DEF Spec, ImplementsPromise, Promise!Spec

-----------------------------------------------------------------------------
(***************************************************************************)
(* A step of the life of uACPI is, for the list, one of its operations or  *)
(* nothing: the start fills it, the second part of the reset empties it,   *)
(* and the host calls it between the two.                                  *)
(***************************************************************************)
LEMMA UsesList ==
    ASSUME LNext
    PROVE  UNCHANGED osi \/ Next
<1> USE DEF osi, lvars, hardware, host
<1>1. CASE uacpi_initialize
  BY <1>1 DEF uacpi_initialize
<1>2. CASE InitializeRefused
  BY <1>2 DEF InitializeRefused
<1>3. CASE initialize_fixed_events
  BY <1>3 DEF initialize_fixed_events
<1>4. ASSUME NEW i \in DOMAIN InitSteps,
             InitStep(InitSteps[i])
      PROVE  UNCHANGED osi \/ Next
  BY <1>4 DEF InitStep, Next
<1>5. ASSUME NEW i \in DOMAIN InitSteps,
             InitStepFails(InitSteps[i])
      PROVE  UNCHANGED osi \/ Next
  BY <1>5 DEF InitStepFails
<1>6. ASSUME NEW skip \in BOOLEAN,
             enter_acpi_mode_initial(skip)
      PROVE  UNCHANGED osi \/ Next
  BY <1>6 DEF enter_acpi_mode_initial
<1>7. CASE enter_mode
  BY <1>7 DEF enter_mode
<1>8. CASE set_mode
  BY <1>8 DEF set_mode
<1>9. CASE PollMode
  BY <1>9 DEF PollMode
<1>10. CASE uacpi_namespace_load
  BY <1>10 DEF uacpi_namespace_load
<1>11. CASE uacpi_namespace_initialize
  BY <1>11 DEF uacpi_namespace_initialize
<1>12. CASE NamespaceInitialized
  BY <1>12 DEF NamespaceInitialized
<1>13. CASE NamespaceRefused
  BY <1>13 DEF NamespaceRefused
<1>14. ASSUME NEW i \in DOMAIN LoadSteps, LoadStep(i) PROVE UNCHANGED osi \/ Next
  BY <1>14 DEF LoadStep
<1>15. ASSUME NEW i \in DOMAIN LoadSteps, LoadStepFails(i) PROVE UNCHANGED osi \/ Next
  BY <1>15 DEF LoadStepFails
<1>16. CASE uacpi_state_reset
  BY <1>16 DEF uacpi_state_reset
<1>17. CASE ResetFixed
  BY <1>17 DEF ResetFixed
<1>18. CASE ResetEnds
  BY <1>18 DEF ResetEnds
<1>19. ASSUME NEW at \in DOMAIN ResetOrder, ResetPart(at) PROVE UNCHANGED osi \/ Next
  BY <1>19 DEF ResetPart, Next
<1>20. CASE OsiCall
  BY <1>20 DEF OsiCall, Next
<1>21. ASSUME NEW mode \in {"acpi", "legacy"},
             StartMode(mode)
      PROVE  UNCHANGED osi \/ Next
  BY <1>21 DEF StartMode
<1>22. ASSUME NEW op \in EventOps, NEW e \in Events \ {LOCK},
             StartEvent(op, e)
      PROVE  UNCHANGED osi \/ Next
  BY <1>22 DEF StartEvent
<1>23. CASE InstallHandler
  BY <1>23 DEF InstallHandler
<1>24. CASE InstallChecked
  BY <1>24 DEF InstallChecked
<1>25. CASE UninstallHandler
  BY <1>25 DEF UninstallHandler
<1>26. CASE uacpi_clear_fixed_event
  BY <1>26 DEF uacpi_clear_fixed_event
<1>27. ASSUME NEW value \in BOOLEAN, SetEvent(value) PROVE UNCHANGED osi \/ Next
  BY <1>27 DEF SetEvent
<1>28. ASSUME NEW op \in SleepOps, NEW state \in SleepStates,
             StartSleep(op, state)
      PROVE  UNCHANGED osi \/ Next
  BY <1>28 DEF StartSleep
<1>29. CASE uacpi_prepare_for_sleep_state
  BY <1>29 DEF uacpi_prepare_for_sleep_state
<1>30. CASE uacpi_enter_sleep_state
  BY <1>30 DEF uacpi_enter_sleep_state
<1>31. CASE GoToSleep
  BY <1>31 DEF GoToSleep
<1>32. CASE Awake
  BY <1>32 DEF Awake
<1>33. ASSUME NEW i \in DOMAIN EnterSteps, EnterStep(i) PROVE UNCHANGED osi \/ Next
  BY <1>33 DEF EnterStep
<1>34. CASE uacpi_prepare_for_wake_from_sleep_state
  BY <1>34 DEF uacpi_prepare_for_wake_from_sleep_state
<1>35. CASE uacpi_wake_from_sleep_state
  BY <1>35 DEF uacpi_wake_from_sleep_state
<1>36. CASE FirmwareSwitches
  BY <1>36 DEF FirmwareSwitches
<1>37. CASE HwWake
  BY <1>37 DEF HwWake
<1>38. ASSUME NEW e \in Events, HwRaise(e) PROVE UNCHANGED osi \/ Next
  BY <1>38 DEF HwRaise
<1>39. CASE handle_fixed_events
  BY <1>39 DEF handle_fixed_events
<1>40. ASSUME NEW e \in Events, dispatch_fixed_event(e) PROVE UNCHANGED osi \/ Next
  BY <1>40 DEF dispatch_fixed_event
<1>41. CASE handle_sci
  BY <1>41 DEF handle_sci
<1> QED
  BY <1>1, <1>2, <1>3, <1>4, <1>5, <1>6, <1>7, <1>8, <1>9, <1>10, <1>11, <1>12,
     <1>13, <1>14, <1>15, <1>16, <1>17, <1>18, <1>19, <1>20, <1>21, <1>22, <1>23,
     <1>24, <1>25, <1>26, <1>27, <1>28, <1>29, <1>30, <1>31, <1>32, <1>33, <1>34,
     <1>35, <1>36, <1>37, <1>38, <1>39, <1>40, <1>41 DEF LNext, Starting,
     Stopping, Using, Hardware, EventOps, SleepOps

\* So the life is a behaviour of the list.
LEMMA LifeUsesList == LSpec => Spec
<1>1. LInit => Init
  BY DEF LInit
<1>2. [LNext]_lvars => [Next]_vars
  <2>1. UNCHANGED lvars => UNCHANGED osi
    BY DEF lvars, osi
  <2>2. UNCHANGED osi => UNCHANGED vars
    BY DEF osi, vars
  <2> QED
    BY <2>1, <2>2, UsesList
<1> QED
  BY <1>1, <1>2, PTL DEF LSpec, Spec

\* Starts that fail half way, resets and restarts included, the queries are
\* answered as osi.h promises: property ImplementsPromise.
THEOREM LifeImplements == LSpec => ImplementsPromise
BY LifeUsesList, ListImplements, PTL

-----------------------------------------------------------------------------
(***************************************************************************)
(* The inductive invariant LInv.  The definitions that every step uses:    *)
(***************************************************************************)
USE LifecycleAssumption, SituationsAssumption DEF osi, lvars, hardware,
    host, level, fw, usage, Events, LOCK, Idle, At, Go, Return, Reset,
    Calls, Enter, Fault, ensure_register_mapped, Machines, Modes,
    ModePlaces, InitPlaces, LoadPlaces, EnterPlaces, ResetPlaces, EventOps,
    SleepOps, Basic, EventLocks, Signalling, Loaded, Made, LoadMade,
    Running, Left, Removed, LInv, LTypeOK

\* The names of the steps of the initialisation, and what each of them creates.
StepNames == {"tables", "registers", "events_early", "opregion", "interfaces",
              "namespace", "notify"}

\* The steps of the initialisation by name.
LEMMA StepsAre == \A i \in DOMAIN InitSteps : InitSteps[i] \in StepNames
BY DEF InitSteps, StepNames

\* The order of the steps.
LEMMA StepsAfter ==
    /\ StepAfter("tables") = "registers" /\ StepAfter("registers") = "events_early"
    /\ StepAfter("events_early") = IF ctx.reduced THEN "opregion" ELSE "fixed"
    /\ StepAfter("opregion") = "interfaces" /\ StepAfter("interfaces") = "namespace"
    /\ StepAfter("namespace") = "notify" /\ StepAfter("notify") = "mode"
<1> DEFINE at(s) == CHOOSE j \in DOMAIN InitSteps : InitSteps[j] = s
<1>1. DOMAIN InitSteps = 1..7 /\ Len(InitSteps) = 7
  BY DEF InitSteps
<1>2. /\ at("tables") = 1 /\ at("registers") = 2 /\ at("events_early") = 3
      /\ at("opregion") = 4 /\ at("interfaces") = 5 /\ at("namespace") = 6
      /\ at("notify") = 7
  BY <1>1 DEF InitSteps
<1> QED
  BY <1>1, <1>2 DEF StepAfter, InitSteps

\* The objects each step creates, as a set.
LEMMA ObjectsAre ==
    /\ Objects(Creates("tables")) = {"tables"}
    /\ Objects(Creates("registers")) = {"g_reg_lock"}
    /\ Objects(Creates("events_early")) = EventLocks
    /\ Objects(Creates("opregion")) = {"g_opregion_lock"}
    /\ Objects(Creates("interfaces")) = {"interface_mutex"}
    /\ Objects(Creates("namespace")) = {"namespace"}
    /\ Objects(Creates("notify")) = {"notify_mutex"}
<1>1. \A x : Objects(<<x>>) = {x}
  BY DEF Objects
<1>2. \A x, y : Objects(<<x, y>>) = {x, y}
  BY DEF Objects
<1>3. Objects(<<>>) = {}
  BY DEF Objects
<1> QED
  BY <1>1, <1>2, <1>3 DEF Creates

\* A step that fails half way has created some of its objects.
LEMMA SomeObjects ==
    ASSUME NEW step \in StepNames, NEW n \in 0 .. (Len(Creates(step)) - 1)
    PROVE  Objects(SubSeq(Creates(step), 1, n)) \subseteq Objects(Creates(step))
<1> DEFINE all == Basic \cup {"g_gpe_state_slock", "g_event_lock"}
<1>1. Creates(step) \in Seq(all)
  <2>1. /\ <<>> \in Seq(all) /\ \A x \in all : <<x>> \in Seq(all)
        /\ \A x, y \in all : <<x, y>> \in Seq(all)
    <3> HIDE DEF all
    <3> QED
      OBVIOUS
  <2>2. \/ Creates(step) = <<>> \/ Creates(step) = <<"g_gpe_state_slock", "g_event_lock">>
        \/ \E x \in all : Creates(step) = <<x>>
    BY DEF Creates, StepNames
  <2>3. "g_gpe_state_slock" \in all /\ "g_event_lock" \in all
    OBVIOUS
  <2> HIDE DEF all
  <2> QED
    BY <2>1, <2>2, <2>3
<1>2. \A i \in 1 .. n : /\ SubSeq(Creates(step), 1, n)[i] = Creates(step)[i]
                        /\ i \in DOMAIN Creates(step)
  BY <1>1
<1>3. DOMAIN SubSeq(Creates(step), 1, n) = 1 .. n
  BY <1>1
<1> QED
  BY <1>2, <1>3 DEF Objects

-----------------------------------------------------------------------------
(***************************************************************************)
(* The steps that need more than their definition.                         *)
(***************************************************************************)
LEMMA InitStepKeeps ==
    ASSUME LInv, NEW step \in StepNames, InitStep(step)
    PROVE  LInv'
<1>1. /\ held' = held \cup Objects(Creates(step))
      /\ lost' = lost \cup (held \cap Objects(Creates(step)))
      /\ call' = [call EXCEPT !.at = StepAfter(step)]
  BY DEF InitStep, Create
<1>2. call.op = "initialize" /\ call.at = step
  BY DEF InitStep
<1>3. ctx'.level = 1 /\ ctx'.wasLegacy = ctx.wasLegacy /\ ctx'.sciValid = ctx.sciValid
  BY <1>2 DEF InitStep, CallFits, Zero
<1>4. step # "tables" => ctx' = ctx
  BY DEF InitStep
<1>5. step = "tables" => ctx'.reduced = fw.reduced
  BY DEF InitStep, Zero
<1>6. lost' = {}
  BY <1>1, <1>2, ObjectsAre DEF StepNames, HeldExact
<1>7. Made(call.at)' = Made(step) \cup Objects(Creates(step))
  BY <1>1, <1>2, <1>4, ObjectsAre, StepsAfter DEF StepNames
<1>8. LTypeOK' /\ CallFits' /\ ReducedFits' /\ Down'
  BY <1>1, <1>2, <1>3, <1>4, <1>5, StepsAfter
  DEF StepNames, InitStep, CallFits, ReducedFits, Down, Zero
<1>9. HeldExact'
  BY <1>1, <1>2, <1>6, <1>7 DEF HeldExact
<1>10. held \subseteq held' /\ ("sci" \in held' <=> "sci" \in held)
  BY <1>1, <1>2, ObjectsAre DEF StepNames
<1>11. SciFits' /\ HandlersFit' /\ LocksExist'
  BY <1>1, <1>2, <1>3, <1>10
  DEF InitStep, CallFits, SciFits, HandlersFit, LocksExist
<1>12. call'.at \notin {"poll", "mappings", "set_mode"}
  BY <1>1, StepsAfter DEF StepNames
<1>13. ModeFits'
  BY <1>1, <1>2, <1>3, <1>12 DEF StepNames, InitStep, ModeFits
<1> QED
  BY <1>8, <1>9, <1>11, <1>13

\* A step that fails: what it made is left to the reset.
LEMMA InitStepFailsKeeps ==
    ASSUME LInv, NEW step \in StepNames, InitStepFails(step)
    PROVE  LInv'
<1>1. PICK n \in 0 .. (Len(Creates(step)) - 1) :
           Create(Objects(SubSeq(Creates(step), 1, n)))
  BY DEF InitStepFails
<1> DEFINE new == Objects(SubSeq(Creates(step), 1, n))
<1>2. /\ held' = held \cup new /\ lost' = lost \cup (held \cap new)
      /\ new \subseteq Objects(Creates(step))
  BY <1>1, SomeObjects DEF Create
<1>3. /\ call.op = "initialize" /\ call.at = step
      /\ call' = [op |-> "reset", at |-> "namespace", arg |-> 0]
  BY DEF InitStepFails
<1> HIDE DEF new
<1>4. /\ lost' = {} /\ held \subseteq held' /\ held' \subseteq Left("namespace")
      /\ "sci" \in held' <=> "sci" \in held
  BY <1>2, <1>3, ObjectsAre DEF StepNames, HeldExact
<1>5. LTypeOK' /\ CallFits' /\ ReducedFits' /\ Down' /\ HeldExact'
  BY <1>3, <1>4 DEF InitStepFails, CallFits, ReducedFits, Down, HeldExact
<1>6. SciFits' /\ HandlersFit' /\ ModeFits' /\ LocksExist'
  BY <1>3, <1>4
  DEF StepNames, InitStepFails, CallFits, ReducedFits, SciFits, HandlersFit, ModeFits,
      LocksExist
<1> QED
  BY <1>5, <1>6

\* A step of the load: objects, the interrupt handler, or the end of it.
LEMMA LoadStepKeeps ==
    ASSUME LInv, NEW i \in DOMAIN LoadSteps, LoadStep(i)
    PROVE  LInv'
<1>1. i \in 1 .. 5 /\ Len(LoadSteps) = 5
  BY DEF LoadSteps
<1>2. call.op = "load" /\ call.at = LoadSteps[i] /\ call.arg = LOCK
  BY DEF LoadStep, CallFits
<1>3. CASE i = 1 /\ ctx.reduced
  <2>1. /\ call' = Idle /\ ctx' = [ctx EXCEPT !.level = 2] /\ call.at = "tables"
        /\ held' = held /\ lost' = lost
    BY <1>2, <1>3 DEF LoadStep, LoadSteps, LoadCreates, Create
  <2>2. LTypeOK' /\ CallFits' /\ ReducedFits' /\ SciFits' /\ Down'
    <3>1. LTypeOK' /\ CallFits'
      BY <1>2, <2>1 DEF LoadStep, CallFits, Zero
    <3>2. ReducedFits'
      BY <1>2, <2>1 DEF LoadStep, CallFits, ReducedFits, Zero
    <3>3. SciFits' /\ Down'
      BY <1>2, <2>1 DEF LoadStep, SciFits, Down, Zero
    <3> QED
      BY <3>1, <3>2, <3>3
  <2>3. held = Basic /\ lost = {}
    BY <1>2, <1>3, <2>1 DEF HeldExact
  <2>4. HeldExact'
    BY <1>3, <2>1, <2>3 DEF HeldExact, Zero
  <2>5. HandlersFit' /\ ModeFits' /\ LocksExist'
    BY <1>2, <2>1 DEF LoadStep, CallFits, HandlersFit, ModeFits, LocksExist
  <2> QED
    BY <2>2, <2>4, <2>5
<1>4. CASE ~(i = 1 /\ ctx.reduced)
  <2>1. /\ call' = [call EXCEPT !.at = IF i = 5 THEN "install" ELSE LoadSteps[i + 1]]
        /\ ctx' = [ctx EXCEPT !.sciValid = @ \/ i = 3]
    BY <1>1, <1>4 DEF LoadStep, LoadSteps
  <2>2. /\ LoadMade(call'.at) = LoadMade(call.at) \cup LoadCreates(LoadSteps[i])
        /\ LoadMade(call.at) \cap LoadCreates(LoadSteps[i]) = {}
        /\ "sci" \in LoadCreates(LoadSteps[i]) <=> i = 3
        /\ LoadCreates(LoadSteps[i]) \subseteq Loaded
    BY <1>1, <1>2, <2>1 DEF LoadSteps, LoadCreates
  <2>3. held' = held \cup LoadCreates(LoadSteps[i]) /\ lost' = {}
    BY <1>2, <2>2 DEF LoadStep, Create, HeldExact
  <2>4. HeldExact'
    BY <1>2, <2>1, <2>2, <2>3 DEF HeldExact
  <2>5. {"g_reg_lock", "g_gpe_state_slock"} \subseteq held /\ ctx'.sciValid = (ctx.sciValid \/ i = 3)
    <3>1. ~ctx.reduced
      BY <1>1, <1>2, <1>4 DEF LoadSteps, CallFits
    <3> QED
      BY SMTT(60), <1>2, <2>1, <3>1 DEF HeldExact
  <2>6. SciFits'
    BY <2>2, <2>3, <2>5 DEF LoadStep, SciFits
  <2>7. call'.at \in LoadPlaces \ {"tables"} /\ (i = 1 => ~ctx.reduced)
    BY <1>1, <1>4, <2>1 DEF LoadSteps
  <2>8. LTypeOK' /\ CallFits' /\ ReducedFits' /\ Down'
    BY <1>1, <1>2, <2>1, <2>7 DEF LoadStep, LoadSteps, CallFits, ReducedFits, Down, Zero
  <2>9. HandlersFit' /\ ModeFits' /\ LocksExist'
    BY <1>2, <2>1, <2>3, <2>7 DEF LoadStep, CallFits, HandlersFit, ModeFits, LocksExist
  <2> QED
    BY <2>4, <2>6, <2>8, <2>9
<1> QED
  BY <1>3, <1>4

\* A step of the load that fails.
LEMMA LoadStepFailsKeeps ==
    ASSUME LInv, NEW i \in DOMAIN LoadSteps, LoadStepFails(i)
    PROVE  LInv'
<1>1. call.op = "load" /\ call' = [op |-> "reset", at |-> "namespace", arg |-> 0]
  BY DEF LoadStepFails
<1>2. CASE UNCHANGED <<held, lost>>
  BY <1>1, <1>2 DEF LoadStepFails, CallFits, ReducedFits, HeldExact, SciFits, Down, HandlersFit, ModeFits, LocksExist
<1>3. CASE call.at = "gpes" /\ Create({"gpes"})
  <2>1. held' = held \cup {"gpes"} /\ lost' = {}
    BY <1>1, <1>3 DEF Create, HeldExact
  <2>2. HeldExact'
    BY <1>1, <1>3, <2>1 DEF HeldExact
  <2>3. LTypeOK' /\ CallFits' /\ ReducedFits' /\ SciFits' /\ Down'
    BY <1>1, <2>1 DEF LoadStepFails, CallFits, ReducedFits, SciFits, Down
  <2>4. HandlersFit' /\ ModeFits' /\ LocksExist'
    BY <1>1, <2>1 DEF LoadStepFails, CallFits, HandlersFit, ModeFits, LocksExist
  <2> QED
    BY <2>2, <2>3, <2>4
<1> QED
  BY <1>2, <1>3 DEF LoadStepFails

\* What an uninstallation does, and what of it the rest depends on.
LEMMA Uninstalls ==
    ASSUME LInv, NEW e \in Events, Uninstall(e)
    PROVE  /\ DOMAIN past' = DOMAIN past /\ DOMAIN pm1' = DOMAIN pm1
           /\ past'.home = past.home /\ past'.mode = past.mode
           /\ pm1'.mode = pm1.mode /\ pm1'.asleep = pm1.asleep
           /\ past'.crash = (past.crash \/ ~({"g_reg_lock", "g_event_lock"} \subseteq held))
           /\ \/ handlers' = [handlers EXCEPT ![e] = "none"] /\ past'.stuck = past.stuck
              \/ handlers' = handlers /\ past'.stuck = past.stuck \cup {e}
BY ZenonT(40) DEF Uninstall, NeedsLocks

\* The loop of the reset over the fixed events.
LEMMA ResetFixedKeeps ==
    ASSUME LInv, ResetFixed
    PROVE  LInv'
<1> DEFINE e == call.arg
<1>1. /\ call.op = "reset" /\ call.at = "fixed" /\ e \in 0 .. (FixedMax - 1)
      /\ e \in Events \ {FixedMax}
  BY DEF ResetFixed, CallFits
<1>2. \/ call' = [call EXCEPT !.arg = e + 1] /\ e + 1 < FixedMax
      \/ call' = [call EXCEPT !.at = "rest", !.arg = 0] /\ e + 1 = FixedMax
  BY <1>1 DEF ResetFixed
<1>3. /\ DOMAIN past' = DOMAIN past /\ DOMAIN pm1' = DOMAIN pm1
      /\ past'.home = past.home /\ past'.mode = past.mode /\ pm1'.mode = pm1.mode
      /\ \A d \in Events \ {e} : handlers'[d] = handlers[d]
      /\ handlers'[e] = "none" \/ e \in past'.stuck
      /\ handlers'[e] \in {"none", handlers[e]}
      /\ handlers' \in [Events -> {"none", "lock", "host"}]
      /\ past.stuck \subseteq past'.stuck
  BY <1>1, Uninstalls DEF ResetFixed, ReducedFits, HandlersFit
<1>4. past'.crash => \/ past.crash
                     \/ /\ handlers[e] # "none"
                        /\ ~({"g_reg_lock", "g_event_lock"} \subseteq held)
  BY <1>1, Uninstalls DEF ResetFixed
<1>5. LTypeOK' /\ CallFits' /\ ReducedFits' /\ HeldExact' /\ SciFits' /\ Down'
  BY <1>1, <1>2, <1>3
  DEF ResetFixed, CallFits, ReducedFits, HeldExact, SciFits, Down, Zero
<1>6. LocksExist'
  BY <1>1, <1>3, <1>4 DEF HandlersFit, LocksExist
<1>7. \A d \in Removed' : handlers'[d] = "none" \/ d \in past'.stuck
  BY <1>1, <1>2, <1>3 DEF ResetFixed, HandlersFit, CallFits
<1>8. HandlersFit'
  BY <1>1, <1>3, <1>7 DEF ResetFixed, HandlersFit
<1>9. ModeFits'
  BY <1>1, <1>2, <1>3 DEF ResetFixed, ModeFits
<1> QED
  BY <1>5, <1>6, <1>8, <1>9

\* uacpi_uninstall_fixed_event_handler, of the host or of the load.
LEMMA UninstallHandlerKeeps ==
    ASSUME LInv, UninstallHandler
    PROVE  LInv'
<1> DEFINE e == call.arg
<1>1. /\ call.op \in {"load", "uninstall"} /\ call.at = "uninstall" /\ e \in Events
      /\ call' = Idle /\ ~ctx.reduced /\ Uninstall(e)
  BY DEF UninstallHandler, CallFits
<1>2. /\ DOMAIN past' = DOMAIN past /\ DOMAIN pm1' = DOMAIN pm1
      /\ past'.home = past.home /\ past'.mode = past.mode /\ pm1'.mode = pm1.mode
      /\ past'.crash = (past.crash \/ ~({"g_reg_lock", "g_event_lock"} \subseteq held))
      /\ \/ handlers' = [handlers EXCEPT ![e] = "none"] /\ past'.stuck = past.stuck
         \/ handlers' = handlers /\ past'.stuck = past.stuck \cup {e}
  BY <1>1, Uninstalls
<1>3. LTypeOK' /\ CallFits' /\ ReducedFits' /\ HeldExact' /\ SciFits' /\ Down'
  BY <1>1, <1>2
  DEF UninstallHandler, CallFits, ReducedFits, HeldExact, SciFits, Down, Zero
<1>4. {"g_reg_lock", "g_event_lock"} \subseteq held
  BY <1>1 DEF HeldExact, CallFits
<1>5. HandlersFit'
  <2>1. Removed' = {} /\ held' = held
    BY <1>1 DEF UninstallHandler, CallFits
  <2> QED
    BY SMTT(30), <1>1, <1>2, <2>1 DEF UninstallHandler, HandlersFit
<1>6. LocksExist'
  BY <1>2, <1>4 DEF LocksExist
<1>7. ModeFits'
  BY <1>1, <1>2 DEF UninstallHandler, ModeFits
<1> QED
  BY <1>3, <1>5, <1>6, <1>7

\* An installation looks at what became of the enable bit.
LEMMA InstallCheckedKeeps ==
    ASSUME LInv, InstallChecked
    PROVE  LInv'
<1> DEFINE e == call.arg
<1>1. call.op \in {"load", "install"} /\ call.at = "check" /\ e \in Events /\ ~ctx.reduced
  BY DEF InstallChecked, CallFits
<1>2. handlers' = handlers \/ handlers' = [handlers EXCEPT ![e] = "none"]
  BY DEF InstallChecked
<1>3. \/ call.op = "install" /\ call' = Idle /\ ctx' = ctx
      \/ call.op = "load" /\ call' = Idle /\ ctx' = [ctx EXCEPT !.level = 2]
      \/ call.op = "load" /\ call' = Idle /\ ctx' = [ctx EXCEPT !.level = 2, !.hasLock = TRUE]
      \/ call.op = "load" /\ call' = [call EXCEPT !.at = "uninstall"] /\ ctx' = ctx
  BY <1>1 DEF InstallChecked, Installed, LockInstalled
<1>4. /\ ctx'.reduced = ctx.reduced /\ ctx'.sciValid = ctx.sciValid
      /\ ctx'.wasLegacy = ctx.wasLegacy /\ ctx'.last = ctx.last /\ DOMAIN ctx' = DOMAIN ctx
      /\ \/ call' = Idle /\ ctx'.level = IF call.op = "load" THEN 2 ELSE level
         \/ /\ call.op = "load" /\ call' = [call EXCEPT !.at = "uninstall"]
            /\ ctx'.level = level
  BY ZenonT(40), <1>1, <1>3 DEF Zero
<1>5. held = Basic \cup EventLocks \cup (IF call.op # "load" /\ level = 1 THEN {} ELSE Loaded)
  BY <1>1 DEF HeldExact, CallFits
<1>6. LTypeOK' /\ CallFits' /\ ReducedFits'
  BY <1>1, <1>2, <1>4 DEF InstallChecked, CallFits, ReducedFits, Zero
<1>7. HeldExact' /\ SciFits' /\ Down'
  BY <1>1, <1>4, <1>5 DEF InstallChecked, CallFits, HeldExact, SciFits, Down
<1>8. HandlersFit' /\ LocksExist'
  BY <1>1, <1>2, <1>4 DEF InstallChecked, CallFits, HandlersFit, LocksExist
<1>9. ModeFits'
  BY <1>1, <1>4 DEF InstallChecked, ModeFits
<1> QED
  BY <1>6, <1>7, <1>8, <1>9

\* The write of SLP_EN.
LEMMA GoToSleepKeeps ==
    ASSUME LInv, GoToSleep
    PROVE  LInv'
<1>1. pm1'.mode = pm1.mode /\ DOMAIN pm1' = DOMAIN pm1
  BY ZenonT(40) DEF GoToSleep
<1>2. call.op = "enter" /\ call.at = "sleep" /\ call' = [call EXCEPT !.at = "asleep"]
  BY DEF GoToSleep
<1>3. LTypeOK' /\ CallFits' /\ ReducedFits' /\ HeldExact' /\ SciFits' /\ Down'
  BY <1>1, <1>2
  DEF GoToSleep, CallFits, ReducedFits, HeldExact, SciFits, Down
<1>4. HandlersFit' /\ ModeFits' /\ LocksExist'
  BY <1>1, <1>2 DEF GoToSleep, CallFits, HandlersFit, ModeFits, LocksExist
<1> QED
  BY <1>3, <1>4

\* The write of the type of S0 leaves the mode, and leaves the machine awake if
\* that type fits.
LEMMA WritesS0 ==
    ASSUME LTypeOK, uacpi_prepare_for_wake_from_sleep_state
    PROVE  /\ pm1'.mode = pm1.mode /\ DOMAIN pm1' = DOMAIN pm1
           /\ ctx.s0 # Big /\ ~pm1.asleep => ~pm1'.asleep
<1>1. PICK ok \in BOOLEAN, field \in S0Field, sleeps \in S0Sleeps :
          pm1' = IF ok /\ ctx.s0 # Invalid
                 THEN [pm1 EXCEPT !.typ = field, !.asleep = sleeps] ELSE pm1
  BY ZenonT(80) DEF uacpi_prepare_for_wake_from_sleep_state
<1>2. ctx.s0 # Big => sleeps = FALSE
  BY DEF S0Sleeps
<1> QED
  BY <1>1, <1>2

\* The machine is up again.
LEMMA WakeKeeps ==
    ASSUME LInv, uacpi_wake_from_sleep_state
    PROVE  LInv'
<1>1. pm1'.mode = pm1.mode /\ DOMAIN pm1' = DOMAIN pm1
  BY DEF uacpi_wake_from_sleep_state
<1>2. /\ call.op = "wake" /\ call.at = "wake" /\ call' = Idle
      /\ ctx' = [ctx EXCEPT !.last = Invalid]
  BY DEF uacpi_wake_from_sleep_state
<1>3. LTypeOK' /\ CallFits' /\ ReducedFits' /\ HeldExact' /\ SciFits' /\ Down'
  BY <1>1, <1>2
  DEF uacpi_wake_from_sleep_state, CallFits, ReducedFits, HeldExact, SciFits, Down, Zero,
      Invalid
<1>4. HandlersFit' /\ ModeFits' /\ LocksExist'
  BY <1>1, <1>2
  DEF uacpi_wake_from_sleep_state, CallFits, HandlersFit, ModeFits, LocksExist, Zero
<1> QED
  BY <1>3, <1>4

\* The interrupt handler serves one event.
LEMMA DispatchKeeps ==
    ASSUME LInv, NEW e \in Events, dispatch_fixed_event(e)
    PROVE  LInv'
<1>1. /\ pm1'.mode = pm1.mode /\ DOMAIN pm1' = DOMAIN pm1 /\ DOMAIN past' = DOMAIN past
      /\ past'.stuck = past.stuck /\ past'.home = past.home /\ past'.mode = past.mode
      /\ sci'.on = sci.on /\ DOMAIN sci' = DOMAIN sci /\ sci.on
  BY DEF dispatch_fixed_event, NeedsLocks
<1>2. past'.crash => \/ past.crash \/ ~({"g_reg_lock"} \subseteq held)
                     \/ handlers[e] = "lock" /\ ~(Signalling \subseteq held)
  BY DEF dispatch_fixed_event, NeedsLocks
<1>3. LTypeOK' /\ CallFits' /\ ReducedFits' /\ HeldExact' /\ SciFits' /\ Down'
  BY <1>1
  DEF dispatch_fixed_event, CallFits, ReducedFits, HeldExact, SciFits, Down
<1>4. LocksExist'
  BY <1>1, <1>2 DEF SciFits, HandlersFit, LocksExist
<1>5. HandlersFit' /\ ModeFits'
  BY <1>1 DEF dispatch_fixed_event, CallFits, HandlersFit, ModeFits
<1> QED
  BY <1>3, <1>4, <1>5

\* It ends with the GPEs, whose spinlock is there as long as it is.
LEMMA HandleSciKeeps ==
    ASSUME LInv, handle_sci
    PROVE  LInv'
<1>1. /\ DOMAIN past' = DOMAIN past /\ past'.home = past.home
      /\ past'.mode = past.mode /\ past'.stuck = past.stuck
      /\ past'.crash = (past.crash \/ ~({"g_gpe_state_slock"} \subseteq held))
      /\ DOMAIN sci' = DOMAIN sci /\ sci'.on = FALSE /\ sci.on
  BY DEF handle_sci, NeedsLocks
<1>2. {"g_gpe_state_slock"} \subseteq held
  BY <1>1 DEF SciFits
<1>3. LTypeOK' /\ CallFits' /\ ReducedFits' /\ HeldExact' /\ SciFits' /\ Down'
  BY <1>1 DEF handle_sci, CallFits, ReducedFits, HeldExact, SciFits, Down
<1>4. HandlersFit'
  BY <1>1 DEF handle_sci, HandlersFit
<1>5. ModeFits'
  BY <1>1 DEF handle_sci, ModeFits
<1>6. LocksExist'
  BY <1>1, <1>2 DEF LocksExist
<1> QED
  BY <1>3, <1>4, <1>5, <1>6

-----------------------------------------------------------------------------
\* The invariant holds when the firmware hands the machine over.
LEMMA InitLInv == ASSUME LInit PROVE LInv
<1>1. LTypeOK
  BY DEF LInit, Zero, Quiet
<1>2. CallFits /\ ReducedFits /\ HeldExact /\ SciFits /\ Down
  BY DEF LInit, Init, Zero, Quiet, NoState, CallFits, ReducedFits, HeldExact, SciFits, Down
<1>3. HandlersFit /\ ModeFits /\ LocksExist
  BY DEF LInit, Init, Zero, Quiet, NoState, HandlersFit, ModeFits, LocksExist
<1> QED
  BY <1>1, <1>2, <1>3

\* Every step keeps it, one case per operation.
LEMMA NextLInv ==
    ASSUME LInv, LNext
    PROVE  LInv'
<1> USE DEF CallFits, ReducedFits, HeldExact, SciFits, Down, HandlersFit, ModeFits,
        LocksExist, Zero
<1>1. CASE uacpi_initialize
  BY <1>1 DEF uacpi_initialize, Create, Zero, Invalid
<1>2. CASE InitializeRefused
  BY <1>2 DEF InitializeRefused
<1>3. CASE initialize_fixed_events
  BY <1>3 DEF initialize_fixed_events, NeedsLocks
<1>4. ASSUME NEW i \in DOMAIN InitSteps, InitStep(InitSteps[i]) PROVE LInv'
  BY <1>4, StepsAre, InitStepKeeps
<1>5. ASSUME NEW i \in DOMAIN InitSteps, InitStepFails(InitSteps[i]) PROVE LInv'
  BY <1>5, StepsAre, InitStepFailsKeeps
<1>6. ASSUME NEW skip \in BOOLEAN, enter_acpi_mode_initial(skip) PROVE LInv'
  BY <1>6 DEF enter_acpi_mode_initial
<1>7. CASE enter_mode
  BY SMTT(30), <1>7 DEF enter_mode, ModeEnds, ModeCalls, read_mode
<1>8. CASE set_mode
  <2>1. CASE fw.switch
    BY SMTT(30), <1>8, <2>1 DEF set_mode, ModeEnds, ModeCalls
  <2>2. CASE ~fw.switch
    BY <1>8, <2>2 DEF set_mode, ModeEnds, ModeCalls
  <2> QED
    BY <2>1, <2>2
<1>9. CASE PollMode
  BY SMTT(30), <1>9 DEF PollMode, ModeEnds, ModeCalls, DidChange
<1>10. CASE uacpi_namespace_load
  BY <1>10 DEF uacpi_namespace_load
<1>11. CASE uacpi_namespace_initialize
  BY <1>11 DEF uacpi_namespace_initialize
<1>12. CASE NamespaceInitialized
  BY <1>12 DEF NamespaceInitialized
<1>13. CASE NamespaceRefused
  BY <1>13 DEF NamespaceRefused
<1>14. ASSUME NEW i \in DOMAIN LoadSteps, LoadStep(i) PROVE LInv'
  BY <1>14, LoadStepKeeps
<1>15. ASSUME NEW i \in DOMAIN LoadSteps, LoadStepFails(i) PROVE LInv'
  BY <1>15, LoadStepFailsKeeps
<1>16. CASE uacpi_state_reset
  BY <1>16 DEF uacpi_state_reset
<1>17. CASE ResetFixed
  BY <1>17, ResetFixedKeeps
<1>18. CASE ResetEnds
  BY SMTT(30), <1>18 DEF ResetEnds, Frees, Zero
<1>19. ASSUME NEW at \in DOMAIN ResetOrder, ResetPart(at) PROVE LInv'
  BY <1>19 DEF ResetPart, ResetOrder, Frees, uacpi_deinitialize_interfaces
<1>20. CASE OsiCall
  BY <1>20 DEF OsiCall, Operation, vars
<1>21. ASSUME NEW mode \in {"acpi", "legacy"}, StartMode(mode) PROVE LInv'
  BY <1>21 DEF StartMode
<1>22. ASSUME NEW op \in EventOps, NEW e \in Events \ {LOCK},
             StartEvent(op, e)
      PROVE  LInv'
  BY <1>22 DEF StartEvent
<1>23. CASE InstallHandler
  BY SMTT(30), <1>23 DEF InstallHandler, Installed, Owner, NeedsLocks, LockInstalled,
         WriteEnable
<1>24. CASE InstallChecked
  BY <1>24, InstallCheckedKeeps
<1>25. CASE UninstallHandler
  BY <1>25, UninstallHandlerKeeps
<1>26. CASE uacpi_clear_fixed_event
  BY <1>26 DEF uacpi_clear_fixed_event, NeedsLocks, ClearStatus
<1>27. ASSUME NEW value \in BOOLEAN, SetEvent(value) PROVE LInv'
  BY <1>27 DEF SetEvent, NeedsLocks, WriteEnable
<1>28. ASSUME NEW op \in SleepOps, NEW state \in SleepStates,
             StartSleep(op, state)
      PROVE  LInv'
  BY <1>28 DEF StartSleep
<1>29. CASE uacpi_prepare_for_sleep_state
  <2>1. At("prepare", "prepare") /\ Return /\ call.arg \in SleepStates
    BY <1>29 DEF uacpi_prepare_for_sleep_state
  <2>2. get_slp_type_for_state(call.arg, ctx.last) \in Nat
    BY <2>1 DEF get_slp_type_for_state, Big, Invalid
  <2>3. /\ DOMAIN ctx' = DOMAIN Zero /\ ctx'.last \in Nat
        /\ \A f \in DOMAIN Zero \ {"last", "s0"} : ctx'[f] = ctx[f]
    BY <1>29, <2>2 DEF uacpi_prepare_for_sleep_state, SleepTypes
  <2> QED
    BY SMTT(30), <1>29, <2>1, <2>3 DEF uacpi_prepare_for_sleep_state
<1>30. CASE uacpi_enter_sleep_state
  BY <1>30 DEF uacpi_enter_sleep_state
<1>31. CASE GoToSleep
  BY <1>31, GoToSleepKeeps
<1>32. CASE Awake
  BY <1>32 DEF Awake, WAK
<1>33. ASSUME NEW i \in DOMAIN EnterSteps, EnterStep(i) PROVE LInv'
  BY <1>33 DEF EnterStep, EnterSteps, EnterEffect, RegisterOf, ClearStatus, WAK
<1>34. CASE uacpi_prepare_for_wake_from_sleep_state
  <2>1. pm1'.mode = pm1.mode /\ DOMAIN pm1' = DOMAIN pm1
    BY <1>34, WritesS0 DEF uacpi_prepare_for_wake_from_sleep_state
  <2> QED
    BY <1>34, <2>1 DEF uacpi_prepare_for_wake_from_sleep_state
<1>35. CASE uacpi_wake_from_sleep_state
  BY <1>35, WakeKeeps
<1>36. CASE FirmwareSwitches
  BY SMTT(30), <1>36 DEF FirmwareSwitches
<1>37. CASE HwWake
  BY SMTT(30), <1>37 DEF HwWake, WAK
<1>38. ASSUME NEW e \in Events, HwRaise(e) PROVE LInv'
  BY SMTT(30), <1>38 DEF HwRaise, WAK
<1>39. CASE handle_fixed_events
  BY SMTT(30), <1>39 DEF handle_fixed_events, Asserted
<1>40. ASSUME NEW e \in Events, dispatch_fixed_event(e) PROVE LInv'
  BY <1>40, DispatchKeeps
<1>41. CASE handle_sci
  BY <1>41, HandleSciKeeps
<1> HIDE DEF LInv, CallFits, ReducedFits, HeldExact, SciFits, Down, HandlersFit,
        ModeFits, LocksExist, Zero
<1> QED
  BY <1>1, <1>2, <1>3, <1>4, <1>5, <1>6, <1>7, <1>8, <1>9, <1>10, <1>11, <1>12,
     <1>13, <1>14, <1>15, <1>16, <1>17, <1>18, <1>19, <1>20, <1>21, <1>22, <1>23,
     <1>24, <1>25, <1>26, <1>27, <1>28, <1>29, <1>30, <1>31, <1>32, <1>33, <1>34,
     <1>35, <1>36, <1>37, <1>38, <1>39, <1>40, <1>41 DEF LNext, Starting,
     Stopping, Using, Hardware

\* The objects, handlers, mode and level fit each other in every state.
THEOREM LInvariance == LSpec => []LInv
<1>1. LInv /\ UNCHANGED lvars => LInv'
  BY DEF CallFits, ReducedFits, HeldExact, SciFits, Down, HandlersFit, ModeFits, LocksExist
<1> QED
  BY InitLInv, NextLInv, <1>1, PTL DEF LSpec

\* Property LocksExist: nobody takes a lock that does not exist, the interrupt
\* handler in the middle of a start or a reset included.
THEOREM Locks == LSpec => []LocksExist
<1>1. LInv => LocksExist
  OBVIOUS
<1> QED
  BY LInvariance, <1>1, PTL

\* Property ResetRestores: whatever failed and wherever, a reset leaves nothing
\* behind and the machine in the mode it was found in.
THEOREM Restores == LSpec => []ResetRestores
<1>1. ASSUME LInv, OsiInv PROVE ResetRestores
  <2> SUFFICES ASSUME call.op = "none", level = 0
               PROVE  /\ held = {} /\ lost = {} /\ mapped = {} /\ registered = {}
                      /\ \A e \in Events \ ({FixedMax} \cup past.stuck) : handlers[e] = "none"
                      /\ past.mode \/ asked # "none" \/ pm1.mode = past.home
    BY DEF ResetRestores
  <2>1. held = {} /\ lost = {} /\ mapped = {} /\ ~live /\ ~ctx.wasLegacy
    BY <1>1 DEF HeldExact, Down
  <2>2. registered = {}
    BY <1>1, <2>1 DEF OsiInv
  <2>3. \A e \in Events \ ({FixedMax} \cup past.stuck) : handlers[e] = "none"
    BY <1>1 DEF HandlersFit
  <2>4. past.mode \/ asked # "none" \/ pm1.mode = past.home
    BY <1>1, <2>1 DEF ModeFits, CallFits
  <2> QED
    BY <2>1, <2>2, <2>3, <2>4
<1> QED
  BY LInvariance, LifeUsesList, ListInvariance, <1>1, PTL

-----------------------------------------------------------------------------
(***************************************************************************)
(* Sleeping.  The steps from the preparation to the sleep.                 *)
(***************************************************************************)
\* A step that is not of uacpi_enter_sleep_state and keeps the prepared type.
LEMMA NotEntering ==
    ASSUME SleepFits, sit' = sit, call'.op # "enter", ~pm1'.asleep, ctx'.s0 = ctx.s0,
           told' \in {told, NoState}, told' # NoState => ctx'.last = ctx.last
    PROVE  SleepFits'
BY DEF SleepFits

\* Each step of enter_sleep_state_hw_full does its part before the next needs
\* it.
LEMMA EnterStepFits ==
    ASSUME LInv, SleepFits, NEW i \in DOMAIN EnterSteps, EnterStep(i)
    PROVE  SleepFits'
<1>1. /\ i \in 1 .. 5 /\ call.op = "enter" /\ call.at = EnterSteps[i]
      /\ told' = told /\ ctx' = ctx /\ sit' = sit /\ ~pm1.asleep
  BY DEF EnterStep, EnterSteps, SleepFits
<1>2. ~ctx.reduced /\ ctx.last = told
  BY <1>1 DEF SleepFits, EnterSteps
<1>3. CASE Return /\ UNCHANGED pm1
  BY <1>1, <1>3, NotEntering
<1>4. CASE /\ pm1' = EnterEffect(EnterSteps[i])
           /\ call' = [call EXCEPT !.at = IF i = 5 THEN "sleep" ELSE EnterSteps[i + 1]]
  <2>1. pm1'.asleep = pm1.asleep
    BY <1>1, <1>4 DEF EnterEffect, EnterSteps
  <2>2. /\ i = 4 => pm1'.gpes = "wake"
        /\ i = 5 => pm1'.gpes = pm1.gpes /\ pm1'.typ = told
    BY <1>1, <1>2, <1>4 DEF EnterEffect, EnterSteps
  <2>3. /\ call'.op = "enter" /\ call'.arg = call.arg
        /\ call'.at \in {"type", "sleep", "asleep"} <=> i \in {4, 5}
        /\ call'.at \in {"sleep", "asleep"} <=> i = 5
        /\ call'.at \notin {"asleep", "enter"}
    BY <1>1, <1>4 DEF EnterSteps
  <2>4. i = 5 => pm1.gpes = "wake"
    BY <1>1, <1>2 DEF SleepFits, EnterSteps
  <2> QED
    BY <1>1, <1>2, <2>1, <2>2, <2>3, <2>4 DEF SleepFits
<1> QED
  BY <1>3, <1>4 DEF EnterStep, EnterSteps

\* The types that were prepared are those of the state that is entered.
LEMMA EnterFits ==
    ASSUME LInv, SleepFits, WellFormed, uacpi_enter_sleep_state
    PROVE  SleepFits'
<1>1. /\ call.op = "enter" /\ call.at = "enter" /\ UNCHANGED <<told, ctx, sit, pm1>>
      /\ ~pm1.asleep /\ told = call.arg
  BY DEF uacpi_enter_sleep_state, SleepFits
<1>2. CASE ctx.last > 7
  BY <1>1, <1>2, NotEntering DEF uacpi_enter_sleep_state
<1>3. CASE ~(ctx.last > 7)
  <2>1. call' = [call EXCEPT !.at = IF ctx.reduced THEN "sleep" ELSE "clear_wake"]
    BY <1>3 DEF uacpi_enter_sleep_state
  <2>2. told \in SleepStates /\ told # NoState
    BY <1>1 DEF CallFits, NoState
  <2>3. ctx.last = told
    BY <1>3, <2>2 DEF SleepFits, Big
  <2> QED
    BY <1>1, <2>1, <2>3 DEF SleepFits
<1> QED
  BY <1>2, <1>3

\* Steps of other calls with several outcomes.
LEMMA NotEnteringSteps ==
    ASSUME LTypeOK, SleepFits,
           \/ PollMode \/ NamespaceRefused \/ InstallChecked \/ UninstallHandler
           \/ \E i \in DOMAIN LoadSteps : LoadStep(i)
    PROVE  SleepFits'
<1>1. ~pm1.asleep
  BY DEF PollMode, ModeCalls, NamespaceRefused, InstallChecked, UninstallHandler, LoadStep,
         SleepFits
<1>2. CASE PollMode
  <2>1. ctx'.last = ctx.last /\ ctx'.s0 = ctx.s0
    BY <1>2 DEF PollMode, DidChange, Zero
  <2>2. call'.op # "enter"
    BY <1>2 DEF PollMode, ModeEnds, ModeCalls
  <2> QED
    BY <1>1, <1>2, <2>1, <2>2, NotEntering DEF PollMode
<1>3. CASE NamespaceRefused
  <2>1. ctx'.last = ctx.last /\ ctx'.s0 = ctx.s0
    BY <1>3 DEF NamespaceRefused, Zero
  <2>2. call'.op # "enter"
    BY <1>3 DEF NamespaceRefused, Zero
  <2> QED
    BY <1>1, <1>3, <2>1, <2>2, NotEntering DEF NamespaceRefused
<1>4. CASE InstallChecked
  <2>1. ctx'.last = ctx.last /\ ctx'.s0 = ctx.s0
    BY ZenonT(40), <1>4 DEF InstallChecked, Installed, LockInstalled, Zero
  <2>2. call'.op # "enter"
    BY <1>4 DEF InstallChecked, Installed, LockInstalled, Zero
  <2> QED
    BY <1>1, <1>4, <2>1, <2>2, NotEntering DEF InstallChecked
<1>5. CASE UninstallHandler
  <2>1. ctx'.last = ctx.last /\ ctx'.s0 = ctx.s0
    BY <1>5 DEF UninstallHandler
  <2>2. call'.op # "enter"
    BY <1>5 DEF UninstallHandler
  <2>3. pm1'.asleep = pm1.asleep
    BY <1>5 DEF UninstallHandler, Uninstall
  <2> QED
    BY <1>1, <1>5, <2>1, <2>2, <2>3, NotEntering DEF UninstallHandler
<1>6. ASSUME NEW i \in DOMAIN LoadSteps, LoadStep(i) PROVE SleepFits'
  <2>1. ctx'.last = ctx.last /\ ctx'.s0 = ctx.s0
    BY <1>6 DEF LoadStep, Zero
  <2>2. call'.op # "enter"
    BY <1>6 DEF LoadStep, Zero
  <2> QED
    BY <1>1, <1>6, <2>1, <2>2, NotEntering DEF LoadStep
<1> QED
  BY <1>2, <1>3, <1>4, <1>5, <1>6

\* Every step keeps the types, if no package has the flaw of EntersGivenState
\* and the type of S0 fits its field.
LEMMA NextSleepFits ==
    ASSUME LInv, SleepFits, WellFormed, LNext
    PROVE  SleepFits'
<1> USE DEF CallFits, Down, SleepFits, WellFormed, NoState
<1>1. CASE uacpi_initialize
  BY <1>1 DEF uacpi_initialize, Create, Zero, Invalid
<1>2. CASE InitializeRefused
  BY <1>2 DEF InitializeRefused
<1>3. CASE initialize_fixed_events
  BY <1>3 DEF initialize_fixed_events, NeedsLocks
<1>4. ASSUME NEW i \in DOMAIN InitSteps, InitStep(InitSteps[i]) PROVE SleepFits'
  BY <1>4 DEF InitStep, Create, Objects, Creates, StepAfter, InitSteps,
         uacpi_initialize_interfaces, Zero
<1>5. ASSUME NEW i \in DOMAIN InitSteps, InitStepFails(InitSteps[i]) PROVE SleepFits'
  BY <1>5 DEF InitStepFails, Create, Objects, Creates, InitSteps
<1>6. ASSUME NEW skip \in BOOLEAN, enter_acpi_mode_initial(skip) PROVE SleepFits'
  BY <1>6 DEF enter_acpi_mode_initial
<1>7. CASE enter_mode
  BY <1>7 DEF enter_mode, ModeEnds, ModeCalls, read_mode
<1>8. CASE set_mode
  BY <1>8 DEF set_mode, ModeEnds, ModeCalls
<1>9. CASE PollMode
  BY <1>9, NotEnteringSteps
<1>10. CASE uacpi_namespace_load
  BY <1>10 DEF uacpi_namespace_load
<1>11. CASE uacpi_namespace_initialize
  BY <1>11 DEF uacpi_namespace_initialize
<1>12. CASE NamespaceInitialized
  BY <1>12 DEF NamespaceInitialized
<1>13. CASE NamespaceRefused
  BY <1>13, NotEnteringSteps
<1>14. ASSUME NEW i \in DOMAIN LoadSteps, LoadStep(i) PROVE SleepFits'
  BY <1>14, NotEnteringSteps
<1>15. ASSUME NEW i \in DOMAIN LoadSteps, LoadStepFails(i) PROVE SleepFits'
  BY <1>15 DEF LoadStepFails, LoadSteps, Create
<1>16. CASE uacpi_state_reset
  BY <1>16 DEF uacpi_state_reset
<1>17. CASE ResetFixed
  BY <1>17 DEF ResetFixed, Uninstall, NeedsLocks, WriteEnable
<1>18. CASE ResetEnds
  BY SMTT(30), <1>18 DEF ResetEnds, Frees, Zero
<1>19. ASSUME NEW at \in DOMAIN ResetOrder, ResetPart(at) PROVE SleepFits'
  BY <1>19 DEF ResetPart, ResetOrder, Frees, uacpi_deinitialize_interfaces
<1>20. CASE OsiCall
  BY <1>20 DEF OsiCall, Operation, vars
<1>21. ASSUME NEW mode \in {"acpi", "legacy"}, StartMode(mode) PROVE SleepFits'
  BY <1>21 DEF StartMode
<1>22. ASSUME NEW op \in EventOps, NEW e \in Events \ {LOCK},
             StartEvent(op, e)
      PROVE  SleepFits'
  BY <1>22 DEF StartEvent
<1>23. CASE InstallHandler
  BY SMTT(30), <1>23 DEF InstallHandler, Installed, Owner, NeedsLocks, LockInstalled,
         WriteEnable
<1>24. CASE InstallChecked
  BY <1>24, NotEnteringSteps
<1>25. CASE UninstallHandler
  BY <1>25, NotEnteringSteps
<1>26. CASE uacpi_clear_fixed_event
  BY <1>26 DEF uacpi_clear_fixed_event, NeedsLocks, ClearStatus
<1>27. ASSUME NEW value \in BOOLEAN, SetEvent(value) PROVE SleepFits'
  BY <1>27 DEF SetEvent, NeedsLocks, WriteEnable
<1>28. ASSUME NEW op \in SleepOps, NEW state \in SleepStates,
             StartSleep(op, state)
      PROVE  SleepFits'
  BY <1>28 DEF StartSleep
<1>29. CASE uacpi_prepare_for_sleep_state
  BY <1>29 DEF uacpi_prepare_for_sleep_state, SleepTypes, get_slp_type_for_state,
         SleepSupported, Big, Invalid
<1>30. CASE uacpi_enter_sleep_state
  BY <1>30, EnterFits
<1>31. CASE GoToSleep
  BY ZenonT(40), <1>31 DEF GoToSleep, WAK
<1>32. CASE Awake
  BY <1>32 DEF Awake, WAK
<1>33. ASSUME NEW i \in DOMAIN EnterSteps, EnterStep(i) PROVE SleepFits'
  BY <1>33, EnterStepFits
<1>34. CASE uacpi_prepare_for_wake_from_sleep_state
  <2>1. ctx.s0 # Big
    BY DEF Big, Invalid
  <2>2. ~pm1.asleep /\ ~pm1'.asleep
    BY <1>34, <2>1, WritesS0 DEF uacpi_prepare_for_wake_from_sleep_state
  <2> QED
    BY <1>34, <2>2, NotEntering DEF uacpi_prepare_for_wake_from_sleep_state
<1>35. CASE uacpi_wake_from_sleep_state
  <2>1. ctx'.s0 = ctx.s0 /\ told' = NoState /\ sit' = sit /\ call'.op # "enter"
    BY <1>35 DEF uacpi_wake_from_sleep_state
  <2>2. pm1'.asleep = pm1.asleep /\ ~pm1.asleep
    BY <1>35 DEF uacpi_wake_from_sleep_state
  <2> QED
    BY <2>1, <2>2, NotEntering
<1>36. CASE FirmwareSwitches
  BY <1>36 DEF FirmwareSwitches
<1>37. CASE HwWake
  BY <1>37 DEF HwWake, WAK
<1>38. ASSUME NEW e \in Events, HwRaise(e) PROVE SleepFits'
  BY <1>38 DEF HwRaise, WAK
<1>39. CASE handle_fixed_events
  BY <1>39 DEF handle_fixed_events, Asserted
<1>40. ASSUME NEW e \in Events, dispatch_fixed_event(e) PROVE SleepFits'
  BY <1>40 DEF dispatch_fixed_event, ClearStatus, WriteEnable, NeedsLocks
<1>41. CASE handle_sci
  BY <1>41 DEF handle_sci
<1> QED
  BY ZenonT(40), <1>1, <1>2, <1>3, <1>4, <1>5, <1>6, <1>7, <1>8, <1>9, <1>10, <1>11, <1>12,
     <1>13, <1>14, <1>15, <1>16, <1>17, <1>18, <1>19, <1>20, <1>21, <1>22, <1>23,
     <1>24, <1>25, <1>26, <1>27, <1>28, <1>29, <1>30, <1>31, <1>32, <1>33, <1>34,
     <1>35, <1>36, <1>37, <1>38, <1>39, <1>40, <1>41 DEF LNext, Starting,
     Stopping, Using, Hardware

\* The types and the place of the sleep, in every state.
LEMMA SleepInvariance ==
    ASSUME WellFormed
    PROVE  LSpec => []SleepFits
<1>1. LInit => SleepFits
  BY DEF LInit, Init, Zero, Quiet, NoState, SleepFits
<1>2. LInv /\ SleepFits /\ LNext => SleepFits'
  BY NextSleepFits
<1>3. SleepFits /\ UNCHANGED lvars => SleepFits'
  BY DEF SleepFits
<1> QED
  BY LInvariance, <1>1, <1>2, <1>3, PTL DEF LSpec

\* Property SleepsAsTold, when every sleep package of the firmware holds
\* integers and the type of S0 fits its field: the machine sleeps only while
\* uacpi_enter_sleep_state runs, with the type of the state it was told, and with
\* only the GPEs enabled that may wake it.
THEOREM AsTold ==
    ASSUME WellFormed
    PROVE  LSpec => []SleepsAsTold
<1>1. SleepFits => SleepsAsTold
  BY DEF SleepFits, SleepsAsTold
<1> QED
  BY SleepInvariance, <1>1, PTL
=============================================================================
