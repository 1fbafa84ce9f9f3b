-------------------------------- MODULE Osi --------------------------------
(***************************************************************************)
(* The _OSI interfaces of src/kern/acpi/osi.c: the list of predefined and  *)
(* dynamically installed strings, whether each is disabled, and the        *)
(* answers to queries.  Every operation runs under interface_mutex and is  *)
(* one step; the order of the list matters to nobody, names are unique in  *)
(* it, so it is a set.  The predefined records are static: their disabled  *)
(* bit outlives a stop of the subsystem, and is reset by the stop.         *)
(***************************************************************************)
EXTENDS Naturals

CONSTANTS
    Names,        \* interface strings that are used
    Predefined,   \* those of predefined_interfaces
    Features,     \* those of them that are host features
    Kindless,     \* those of them of neither kind
    Weight,       \* per name, the weight of a vendor string, else 0
    NoHandler, Handlers

ASSUME NamesAssumption ==
    /\ Features \subseteq Predefined /\ Kindless \subseteq Predefined
    /\ Predefined \subseteq Names /\ Features \cap Kindless = {}
    /\ Weight \in [Names -> Nat] /\ NoHandler \notin Handlers
    /\ \A n \in (Names \ Predefined) \cup Features \cup Kindless : Weight[n] = 0

Vendor == "vendor"
Feature == "feature"
Kinds == SUBSET {Vendor, Feature}  \* uacpi_interface_kind, a bit mask

VARIABLES
    live,               \* the subsystem is initialized
    registered,         \* registered_interfaces
    kind,               \* per registered name, its kind
    disabled,           \* the disabled records, static ones always included
    dynamic,            \* the records that were allocated
    interface_handler,
    latest_queried_interface,
    query               \* the answer to a query, until the next call

vars == <<live, registered, kind, disabled, dynamic, interface_handler,
          latest_queried_interface, query>>

NoQuery == [name |-> "none"]

\* Vendor strings, host features, and the interpreter's own string.
PredefinedKind(n) ==
    IF n \in Features THEN {Feature} ELSE IF n \in Kindless THEN {} ELSE {Vendor}

Init ==
    /\ live = FALSE /\ registered = {} /\ dynamic = {}
    /\ kind = [n \in Names |-> {}]
    /\ disabled = Features
    /\ interface_handler = NoHandler
    /\ latest_queried_interface = 0
    /\ query = NoQuery

uacpi_initialize_interfaces ==
    /\ ~live /\ live' = TRUE
    /\ registered' = Predefined
    /\ kind' = [n \in Names |-> IF n \in Predefined THEN PredefinedKind(n) ELSE {}]
    /\ query' = NoQuery
    /\ UNCHANGED <<disabled, dynamic, interface_handler, latest_queried_interface>>

\* Mutant: the static records keep their bit.
uacpi_deinitialize_keeping ==
    /\ live /\ live' = FALSE
    /\ disabled' = disabled \ dynamic
    /\ registered' = {} /\ dynamic' = {}
    /\ kind' = [n \in Names |-> {}]
    /\ interface_handler' = NoHandler
    /\ latest_queried_interface' = 0
    /\ query' = NoQuery

\* Dynamic records are freed, the others get their default back.
uacpi_deinitialize_interfaces ==
    /\ live /\ live' = FALSE
    /\ disabled' = {n \in registered \ dynamic : kind[n] = {Feature}}
    /\ registered' = {} /\ dynamic' = {}
    /\ kind' = [n \in Names |-> {}]
    /\ interface_handler' = NoHandler
    /\ latest_queried_interface' = 0
    /\ query' = NoQuery

-----------------------------------------------------------------------------
\* uacpi_install_interface of a string that is there: it is enabled, and the
\* call still returns UACPI_STATUS_ALREADY_EXISTS.
InstallKnown(name) ==
    /\ live /\ name \in registered
    /\ disabled' = disabled \ {name}
    /\ query' = NoQuery
    /\ UNCHANGED <<live, registered, kind, dynamic, interface_handler,
                   latest_queried_interface>>

\* Of a new one.  (Out of memory, it is not installed: a step of no effect.)
InstallNew(name, k) ==
    /\ live /\ name \notin registered
    /\ registered' = registered \cup {name}
    /\ kind' = [kind EXCEPT ![name] = k]
    /\ dynamic' = dynamic \cup {name}
    /\ query' = NoQuery
    /\ UNCHANGED <<live, disabled, interface_handler, latest_queried_interface>>

\* uacpi_uninstall_interface: a dynamic record is unlinked and freed, a
\* static one disabled.  The bit of a freed record is gone with it.
UninstallDynamic(name) ==
    /\ live /\ name \in registered \cap dynamic
    /\ registered' = registered \ {name}
    /\ kind' = [kind EXCEPT ![name] = {}]
    /\ dynamic' = dynamic \ {name}
    /\ disabled' = disabled \ {name}
    /\ query' = NoQuery
    /\ UNCHANGED <<live, interface_handler, latest_queried_interface>>

UninstallPredefined(name) ==
    /\ live /\ name \in registered \ dynamic
    /\ disabled' = disabled \cup {name}
    /\ query' = NoQuery
    /\ UNCHANGED <<live, registered, kind, dynamic, interface_handler,
                   latest_queried_interface>>

\* uacpi_enable_host_interface and uacpi_disable_host_interface: only host
\* features have a host type.
configure_host_interface(name, enabled) ==
    /\ live /\ name \in registered \cap Features
    /\ disabled' = IF enabled THEN disabled \ {name} ELSE disabled \cup {name}
    /\ query' = NoQuery
    /\ UNCHANGED <<live, registered, kind, dynamic, interface_handler,
                   latest_queried_interface>>

uacpi_bulk_configure_interfaces(enable, k) ==
    /\ live
    /\ LET matching == {n \in registered : kind[n] \cap k # {}}
       IN  disabled' = IF enable THEN disabled \ matching ELSE disabled \cup matching
    /\ query' = NoQuery
    /\ UNCHANGED <<live, registered, kind, dynamic, interface_handler,
                   latest_queried_interface>>

\* A handler replaces none, or none replaces a handler; a second handler is
\* refused.
uacpi_set_interface_query_handler(handler) ==
    /\ live
    /\ interface_handler = NoHandler \/ handler = NoHandler
    /\ interface_handler' = handler
    /\ query' = NoQuery
    /\ UNCHANGED <<live, registered, kind, disabled, dynamic,
                   latest_queried_interface>>

-----------------------------------------------------------------------------
(***************************************************************************)
(* uacpi_handle_osi.  The handler may answer what it likes.                *)
(***************************************************************************)
Answered(name, value, overridden) ==
    query' = [name |-> name, value |-> value, overridden |-> overridden]

HandleKnown(name, value) ==
    /\ live /\ name \in registered
    /\ interface_handler = NoHandler => value = (name \notin disabled)
    /\ latest_queried_interface' = IF Weight[name] > latest_queried_interface
                                   THEN Weight[name] ELSE latest_queried_interface
    /\ Answered(name, value, interface_handler # NoHandler)
    /\ UNCHANGED <<live, registered, kind, disabled, dynamic, interface_handler>>

\* A string that is not registered is refused without asking the handler.
HandleUnknown(name) ==
    /\ live /\ name \notin registered
    /\ Answered(name, FALSE, FALSE)
    /\ UNCHANGED <<live, registered, kind, disabled, dynamic, interface_handler,
                   latest_queried_interface>>

\* What is called between a start and a stop.
Operation ==
    \/ \E name \in Names :
        \/ InstallKnown(name) \/ UninstallDynamic(name) \/ UninstallPredefined(name)
        \/ \E k \in {{Vendor}, {Feature}} : InstallNew(name, k)
        \/ \E enabled \in BOOLEAN : configure_host_interface(name, enabled)
        \/ \E value \in BOOLEAN : HandleKnown(name, value)
        \/ HandleUnknown(name)
    \/ \E enable \in BOOLEAN, k \in Kinds \ {{}} : uacpi_bulk_configure_interfaces(enable, k)
    \/ \E handler \in Handlers \cup {NoHandler} : uacpi_set_interface_query_handler(handler)

Next == uacpi_initialize_interfaces \/ uacpi_deinitialize_interfaces \/ Operation

Spec == Init /\ [][Next]_vars

-----------------------------------------------------------------------------
Supported == registered \ disabled

(***************************************************************************)
(* Refinement: the list implements the promise of osi.h, in particular a   *)
(* restart restores the defaults whatever the previous run did to the      *)
(* static records, a query that no handler overrides is answered from what *)
(* is supported now, and the latest query is a maximum.                    *)
(***************************************************************************)
Promise == INSTANCE OsiAnswers WITH
    Weights <- Weight,
    Defaults <- Predefined \ Features,
    running <- live,
    supported <- Supported,
    latest <- latest_queried_interface,
    answer <- query
ImplementsPromise == Promise!Spec

-----------------------------------------------------------------------------
(***************************************************************************)
(* What the proofs know of the list: it contains the static records while  *)
(* the subsystem runs and nothing otherwise, the static records keep their *)
(* kind, and only records of the list are disabled.                        *)
(***************************************************************************)
OsiInv ==
    /\ live \in BOOLEAN /\ registered \subseteq Names /\ dynamic \subseteq registered
    /\ kind \in [Names -> Kinds] /\ latest_queried_interface \in Nat
    /\ dynamic \cap Predefined = {}
    /\ live => /\ registered \ dynamic = Predefined
               /\ disabled \subseteq registered
               /\ \A n \in Predefined : kind[n] = PredefinedKind(n)
    /\ ~live => registered = {} /\ disabled = Features /\ latest_queried_interface = 0
=============================================================================
