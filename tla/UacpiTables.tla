---------------------------- MODULE UacpiTables ----------------------------
(***************************************************************************)
(* The ACPI table subsystem of src/kern/acpi/tables.c: the array of        *)
(* installed tables, their reference counts, and the mappings taken from   *)
(* and returned to the host through uacpi_kernel_map / unmap.  A critical  *)
(* section of table_mutex is one step; inside it the operators below       *)
(* thread a record s through the calls the code makes, and any of the      *)
(* host's mappings or allocations may fail.                                *)
(***************************************************************************)
EXTENDS Integers, FiniteSets, Sequences, SequencesExt

CONSTANTS
  Builds,       \* the settings a run compares: see BuildsAssumption
  Memory,       \* what lies at each address: [sig, good, long,
                \* rev2, dsdt, facs]
  NoRsdp,       \* no RSDP was found
  NoRoot,       \* its rsdt_addr and xsdt_addr are NULL
  Clients       \* the uacpi_table structures of callers

NULL == 0
NoHandler == <<>>
NoTable == [index |-> 0, ptr |-> NULL]
Addrs == DOMAIN Memory

\* How the code was compiled, and what firmware, the host and the callers do:
\*   barebones   is UACPI_BAREBONES_MODE defined? (platform/config.h:125)
\*   inline      UACPI_STATIC_TABLE_ARRAY_LEN
\*   buffers     capacities, in tables, of the buffers the host may pass in
\*   maxTables   bound of the model on the number of installed tables
\*   maxRef      0xFFFF: the reference count that means "for ever"
\*   maxUsers    bound of the model on the callers that hold a table at a time
\*   roots       the RSDT/XSDTs firmware may provide: [sig, good, long, entries]
\*   handlers    installation handlers: functions from address to decision
\*   hostTables  the addresses of tables callers install themselves
\*   flagSets    the flags uacpi_initialize may be given
\*   failPlans   which of the host calls made by one API call fail
ASSUME BuildsAssumption ==
  \A b \in DOMAIN Builds :
    /\ Builds[b].barebones \in BOOLEAN
    /\ Builds[b].inline \in Nat \ {0}
    /\ Builds[b].buffers \subseteq Nat \ {0}
    /\ Builds[b].maxRef \in Nat /\ Builds[b].maxRef > 1
    /\ {Builds[b].maxTables, Builds[b].maxUsers} \subseteq Nat
    /\ \A r \in Builds[b].roots \ {NoRsdp, NoRoot} :
         r.entries \in Seq(Addrs \cup {NULL})
    /\ \A h \in Builds[b].handlers, a \in Addrs :
         h[a].disp \notin {"ALLOW", "DENY"} => h[a].with \in Addrs
    /\ Builds[b].hostTables \subseteq Addrs

\* Nothing lies at address zero, and a FADT names tables that are there.
ASSUME MemoryAssumption ==
  /\ Addrs \subseteq Nat \ {NULL}
  /\ \A a \in Addrs : {Memory[a].dsdt, Memory[a].facs} \subseteq Addrs \cup {NULL}

ASSUME ClientsAssumption == IsFiniteSet(Clients)

\* A firmware whose FADT names another FADT as its DSDT is not modelled.
ASSUME DsdtAssumption ==
  \A a \in Addrs : Memory[a].dsdt # NULL => Memory[Memory[a].dsdt].sig # "FACP"

VARIABLES
  build,     \* which of the Builds is running
  phase,     \* "offline", "early" (early_table_access) or "full"
  tables,    \* the table array
  cap,       \* its dynamic_capacity
  home,      \* where dynamic_storage points: "none", "buffer" or "heap"
  maps,      \* the host's live mappings
  handler,   \* installation_handler
  flags,     \* g_uacpi_rt_ctx.flags
  is_rev1,   \* g_uacpi_rt_ctx.is_rev1
  fadt,      \* the FADT g_uacpi_rt_ctx.fadt was copied from
  facs,      \* g_uacpi_rt_ctx.facs
  mutex,     \* is table_mutex held between calls?
  root,      \* what the RSDP leads to
  held,      \* held[c]: the contents of caller c's uacpi_table
  search,    \* search[c]: the table after which caller c looks for the next one
  loading,   \* callers inside uacpi_execute_table
  executed   \* tables that have been fed to the interpreter

array == <<build, tables, cap, home, maps, is_rev1, fadt>>
vars == <<phase, array, handler, flags, facs, mutex, root, held, search,
          loading, executed>>

Barebones == Builds[build].barebones
InlineCap == Builds[build].inline
MaxRef == Builds[build].maxRef

----------------------------------------------------------------------------
\* The state of one API call in progress: the subsystem's state, the status so
\* far, the mappings the call has open, innermost first, and the host calls it
\* has made.  After a failure the operators below hand the record on unchanged.
Begin(plan) ==
  [tables |-> tables, cap |-> cap, home |-> home, maps |-> maps,
   is_rev1 |-> is_rev1, fadt |-> fadt, early |-> phase = "early",
   flags |-> flags, ret |-> "OK", open |-> <<>>, out |-> NoTable,
   calls |-> 0, plan |-> plan]

Commit(s) ==
  /\ tables' = s.tables /\ cap' = s.cap /\ home' = s.home
  /\ maps' = s.maps /\ is_rev1' = s.is_rev1 /\ fadt' = s.fadt
  /\ UNCHANGED build

Ok(s) == s.ret = "OK"
Fail(s, status) == [s EXCEPT !.ret = status]
HostFails(s) == s.calls + 1 \in s.plan

FreshVa(live) == CHOOSE v \in 1..(Cardinality(live) + 1) :
                   \A m \in live : m.va # v

uacpi_kernel_map(s, addr) ==
  IF ~Ok(s) THEN s
  ELSE IF HostFails(s) THEN [s EXCEPT !.calls = @ + 1, !.ret = "MAPPING_FAILED"]
  ELSE [s EXCEPT !.calls = @ + 1,
                 !.open = <<FreshVa(s.maps)>> \o @,
                 !.maps = @ \cup {[va |-> FreshVa(@), addr |-> addr]}]

\* uacpi_kernel_unmap of what the call has mapped since only outer was open,
\* or nothing unmapped: the table array keeps it.
Unmapped(s, outer) ==
  LET inner == {s.open[k] : k \in 1..(Len(s.open) - Len(outer))}
  IN [s EXCEPT !.open = outer, !.maps = {m \in @ : m.va \notin inner}]
Kept(s, outer) == [s EXCEPT !.open = outer]

Physical(origin) == origin \in {"FIRMWARE_PHYSICAL", "HOST_PHYSICAL"}

verify_checksum_lax(s, good) == s                        \* mutant
uacpi_verify_table_checksum(s, good) ==
  IF Ok(s) /\ ~good /\ "BAD_CSUM_FATAL" \in s.flags
  THEN Fail(s, "BAD_CHECKSUM") ELSE s

uacpi_check_table_signature(s, sig, expect) ==
  IF Ok(s) /\ expect \notin {"any", sig} /\ "BAD_TBL_SIGNATURE_FATAL" \in s.flags
  THEN Fail(s, "INVALID_SIGNATURE") ELSE s

----------------------------------------------------------------------------
\* DYNAMIC_ARRAY_ALLOC_FN: the array of an initialised full build grows by a
\* half; a temporary buffer, and any array of a barebones build, cannot.
GrownCap(c) ==
  IF c = 0 THEN InlineCap
  ELSE c + (IF c \div 2 = 0 THEN 1 ELSE c \div 2)

ArrayFull(s) == Len(s.tables) = InlineCap + s.cap

table_alloc(s, entry) ==
  IF ~ArrayFull(s) THEN [s EXCEPT !.tables = Append(@, entry)]
  ELSE IF s.early \/ Barebones THEN Fail(s, "OUT_OF_MEMORY")
  ELSE IF HostFails(s) THEN [s EXCEPT !.calls = @ + 1, !.ret = "OUT_OF_MEMORY"]
  ELSE [s EXCEPT !.calls = @ + 1, !.cap = GrownCap(@), !.home = "heap",
                 !.tables = Append(@, entry)]

header_never_unmapped(s, addr) ==                        \* mutant
  Kept(uacpi_kernel_map(s, addr), s.open)
get_external_table_header(s, addr) ==
  Unmapped(uacpi_kernel_map(s, addr), s.open)

\* The checksum is looked at when the table is installed, not when it is first
\* referenced.
CheckNow(s, sig, want) ==
  /\ sig # "FACS"
  /\ "PROACTIVE_TBL_CSUM" \in s.flags \/ sig = "FACP" \/ want

\* The entry of a table: whoever wants it back has the first reference.
NewEntry(s, addr, virt, origin, want) ==
  [addr |-> addr, ptr |-> virt, origin |-> origin,
   refs |-> IF want THEN 1 ELSE 0,
   verified |-> CheckNow(s, Memory[addr].sig, want) \/ Memory[addr].sig = "FACS",
   loaded |-> FALSE, invalid |-> FALSE]

HandedOut(s, want) ==
  IF Ok(s) /\ want
  THEN [s EXCEPT !.out = [index |-> Len(s.tables), ptr |-> Last(s.tables).ptr]]
  ELSE s

\* The last part of verify_and_install_table.
AddTable(s, entry, want) ==
  LET c == Memory[entry.addr]
      rev == IF c.sig = "DSDT" THEN ~c.rev2 ELSE s.is_rev1
  IN IF ~Ok(s) THEN s
     ELSE HandedOut(table_alloc([s EXCEPT !.is_rev1 = rev], entry), want)

\* verify_and_install_table.  InitFadt stands for initialize_fadt, which
\* installs the DSDT by the same operators in turn.
verified_install(s, addr, virt, origin, want, InitFadt(_, _)) ==
  LET sig == Memory[addr].sig
      checked == uacpi_verify_table_checksum(
                   IF virt = NULL THEN uacpi_kernel_map(s, addr) ELSE s,
                   Memory[addr].good)
  IN AddTable(Unmapped(CASE ~CheckNow(s, sig, want) -> s
                         [] sig = "FACP" -> InitFadt(checked, addr)
                         [] OTHER -> checked,
                       s.open),
              NewEntry(s, addr, virt, origin, want), want)

\* The mapping is kept only for a caller who gets the table; whatever the
\* installation answered, the status returned is OK.
Concluded(s, outer, want) ==
  IF Ok(s) /\ want THEN Kept(s, outer)
  ELSE Fail(Unmapped(s, outer), "OK")

\* table_install_physical_with_origin_unlocked: the header is read and
\* checked, the table mapped when somebody will look at it, and Install decides
\* what becomes of it.
install_mapped(s, addr, expected, want, Install(_, _)) ==
  LET look == handler # NoHandler \/ want
      header == uacpi_check_table_signature(get_external_table_header(s, addr),
                                            Memory[addr].sig, expected)
      m == IF look THEN uacpi_kernel_map(header, addr) ELSE header
      virt == IF look THEN Head(m.open) ELSE NULL
  IN IF ~Ok(m) THEN m ELSE Concluded(Install(m, virt), s.open, want)

\* A table of the host's, or a handler's physical override: the installation
\* handler is not asked.
install_host_physical(s, addr, want, InitFadt(_, _)) ==
  install_mapped(s, addr, "any", want, LAMBDA t, virt :
    verified_install(t, addr, virt, "HOST_PHYSICAL", want, InitFadt))

\* The same for a table already in host memory.
install_virtual(s, addr, want, InitFadt(_, _)) ==
  IF ~Memory[addr].long THEN Fail(s, "INVALID_TABLE_LENGTH")
  ELSE verified_install(s, addr, addr, "HOST_VIRTUAL", want, InitFadt)

Overridden(s) == IF Ok(s) THEN Fail(s, "OVERRIDDEN") ELSE s

\* A table firmware points to: the installation handler may deny or replace it.
install_firmware(s, addr, expected, want, InitFadt(_, _)) ==
  install_mapped(s, addr, expected, want, LAMBDA t, virt :
    LET d == IF handler = NoHandler THEN [disp |-> "ALLOW"] ELSE handler[addr]
    IN CASE d.disp = "ALLOW" ->
              verified_install(t, addr, virt, "FIRMWARE_PHYSICAL", want, InitFadt)
         [] d.disp = "DENY" -> Fail(t, "DENIED")
         [] d.disp = "VIRTUAL_OVERRIDE" ->
              Overridden(install_virtual(t, d.with, want, InitFadt))
         [] OTHER ->                                \* PHYSICAL_OVERRIDE
              Overridden(install_host_physical(t, d.with, want, InitFadt)))

NoFadt(s, addr) == s

\* The FADT is copied and sanitised, and the DSDT it names installed.
initialize_fadt(s, addr) ==
  IF ~Ok(s) THEN s
  ELSE IF Memory[addr].dsdt = NULL THEN [s EXCEPT !.fadt = addr]
  ELSE install_firmware([s EXCEPT !.fadt = addr], Memory[addr].dsdt, "DSDT",
                        FALSE, NoFadt)

table_install_physical_with_origin_unlocked(s, addr, origin, expected, want) ==
  IF origin = "FIRMWARE_PHYSICAL"
  THEN install_firmware(s, addr, expected, want, initialize_fadt)
  ELSE install_host_physical(s, addr, want, initialize_fadt)

table_install_with_origin_unlocked(s, addr, want) ==
  install_virtual(s, addr, want, initialize_fadt)

----------------------------------------------------------------------------
NextRef(n) == IF n = MaxRef THEN MaxRef ELSE n + 1

PrevRef(n) == IF n = MaxRef THEN MaxRef ELSE n - 1

\* A table whose checksum turned out to be bad when it was first referenced.
Invalidated(s, k) ==
  [s EXCEPT !.tables[k].invalid = TRUE, !.tables[k].ptr = NULL]

\* The first reference, with the table mapped or not: s carries the verdict.
FirstRef(s, k, outer) ==
  CASE Ok(s) ->
         [Kept(s, outer) EXCEPT !.tables[k].ptr = Head(s.open),
                                !.tables[k].verified = TRUE,
                                !.tables[k].refs = NextRef(@)]
    [] s.ret = "BAD_CHECKSUM" -> Invalidated(Unmapped(s, outer), k)
    [] OTHER -> [s EXCEPT !.tables[k].ptr = NULL]       \* MAPPING_FAILED

table_ref_unlocked(s, k) ==
  LET t == s.tables[k]
  IN IF t.refs = 0 /\ t.invalid THEN Fail(s, "INVALID_ARGUMENT")
     ELSE IF t.refs # 0 \/ ~Physical(t.origin)
          THEN [s EXCEPT !.tables[k].refs = NextRef(@)]
     ELSE FirstRef(uacpi_verify_table_checksum(uacpi_kernel_map(s, t.addr),
                                               t.verified \/ Memory[t.addr].good),
                   k, s.open)

LastRef(t) == t.refs = 1 /\ Physical(t.origin)
LessReferenced(t) ==
  [t EXCEPT !.ptr = IF LastRef(t) THEN NULL ELSE @, !.refs = PrevRef(@)]

table_unref_unlocked(s, k) ==
  LET t == s.tables[k]
  IN IF t.refs = 0 THEN Fail(s, "INVALID_ARGUMENT")
     ELSE [s EXCEPT !.maps = IF LastRef(t) THEN {m \in @ : m.va # t.ptr} ELSE @,
                    !.tables[k] = LessReferenced(@)]

\* A table that could be referenced ends the search; one with a bad checksum
\* does not.
Visited(s, k) ==
  CASE Ok(s) -> [s EXCEPT !.out = [index |-> k, ptr |-> s.tables[k].ptr]]
    [] s.ret = "BAD_CHECKSUM" -> Fail(s, "NOT_FOUND")
    [] OTHER -> s

Visit(s, k, base, sig) ==
  IF \/ s.ret # "NOT_FOUND" \/ k < base \/ s.tables[k].invalid
     \/ Memory[s.tables[k].addr].sig # sig
  THEN s
  ELSE Visited(table_ref_unlocked(Fail(s, "OK"), k), k)

\* do_search_tables under uacpi_for_each_table: the first valid table with
\* the signature that can be referenced.
find_table(s, base, sig) ==
  LET found[k \in 0..Len(s.tables)] ==
        IF k = 0 THEN Fail(s, "NOT_FOUND") ELSE Visit(found[k - 1], k, base, sig)
  IN found[Len(s.tables)]

----------------------------------------------------------------------------
RsdpAddr == 1
RootAddr == 2

\* The header of the RSDT/XSDT: signature and length.
RxsdtHeader(s) ==
  Unmapped(uacpi_check_table_signature(uacpi_kernel_map(s, RootAddr),
                                       root.sig, "ok"), s.open)
LongEnough(s) ==
  IF Ok(s) /\ ~root.long THEN Fail(s, "INVALID_TABLE_LENGTH") ELSE s

EntryInstalled(s, addr) ==
  IF ~Ok(s) \/ addr = NULL THEN s
  ELSE table_install_physical_with_origin_unlocked(
         s, addr, "FIRMWARE_PHYSICAL", "any", FALSE)

initialize_from_rxsdt(s) ==
  LET mapped == uacpi_kernel_map(LongEnough(RxsdtHeader(s)), RootAddr)
      installed[k \in 0..Len(root.entries)] ==
        IF k = 0 THEN uacpi_verify_table_checksum(mapped, root.good)
        ELSE EntryInstalled(installed[k - 1], root.entries[k])
  IN Unmapped(installed[Len(root.entries)], s.open)

RsdpRead(s) == Unmapped(uacpi_kernel_map(s, RsdpAddr), s.open)

initialize_from_rsdp(s) ==
  LET r == [s EXCEPT !.is_rev1 = TRUE]
  IN IF root = NoRsdp THEN Fail(r, "NOT_FOUND")
     ELSE IF root # NoRoot THEN initialize_from_rxsdt(RsdpRead(r))
     ELSE IF Ok(RsdpRead(r)) THEN Fail(RsdpRead(r), "INVALID_ARGUMENT")
     ELSE RsdpRead(r)

\* uacpi_deinitialize_tables: what is still referenced is unmapped.
uacpi_deinitialize_tables(s) ==
  LET live == {s.tables[k].ptr : k \in
                 {n \in DOMAIN s.tables : s.tables[n].refs # 0
                                          /\ Physical(s.tables[n].origin)}}
  IN [s EXCEPT !.maps = {m \in @ : m.va \notin live},
               !.tables = <<>>, !.cap = 0, !.home = "none"]

----------------------------------------------------------------------------
Init ==
  /\ build \in DOMAIN Builds
  /\ phase = "offline"
  /\ tables = <<>> /\ cap = 0 /\ home = "none"
  /\ maps = {}
  /\ handler = NoHandler
  /\ flags = {}
  /\ is_rev1 = FALSE /\ fadt = NULL /\ facs = NoTable
  /\ mutex = FALSE
  /\ root \in Builds[build].roots
  /\ held = [c \in Clients |-> NoTable]
  /\ search = [c \in Clients |-> NULL]
  /\ loading = {} /\ executed = {}

users == <<held, search, loading, executed>>
Online == phase # "offline"
Empty(c) == held[c] = NoTable /\ c \notin loading /\ search[c] = NULL
\* The callers with no table, who may ask for one (maxUsers is a bound of the
\* model).
Askers ==
  LET empty == {c \in Clients : Empty(c)}
  IN IF Cardinality(Clients \ empty) < Builds[build].maxUsers THEN empty ELSE {}

\* table_mutex is created last by uacpi_initialize; before that, and in the
\* barebones build always, one thread uses the tables.
HasMutex == phase = "full"

\* A call may enter: table_mutex can be taken or, while there is none, the one
\* thread is not inside another call.
Free == ~mutex /\ (~HasMutex => \A c \in Clients : search[c] = NULL)

uacpi_setup_early_table_access(buffer, plan) ==
  /\ phase = "offline"
  /\ LET s == initialize_from_rsdp(
                [Begin(plan) EXCEPT !.cap = buffer, !.home = "buffer",
                                    !.early = TRUE])
     IN IF s.ret = "OK"
        THEN Commit(s) /\ phase' = "early" /\ UNCHANGED handler
        ELSE /\ Commit(uacpi_deinitialize_tables(s))
             /\ handler' = NoHandler
             /\ UNCHANGED phase
  /\ UNCHANGED <<flags, facs, mutex, root, users>>

\* The temporary buffer is exchanged for a heap array of the size needed.
MovedToHeap(s, used) ==
  [s EXCEPT !.calls = IF used > 0 THEN @ + 1 ELSE @,
            !.cap = IF used > 0 THEN used ELSE 0,
            !.home = IF used > 0 THEN "heap" ELSE "none",
            !.early = FALSE]

\* The FACS is installed; the uacpi_table it comes back in is read even when
\* it was not filled in.
FacsWanted(s) == s.fadt # NULL /\ Memory[s.fadt].facs # NULL
JunkTable == [index |-> 0, ptr |-> -1]

FacsInstalled(s) ==
  IF ~Ok(s) \/ ~FacsWanted(s) THEN s
  ELSE table_install_physical_with_origin_unlocked(
         s, Memory[s.fadt].facs, "FIRMWARE_PHYSICAL", "FACS", TRUE)

\* uacpi_kernel_create_mutex
MutexCreated(s) ==
  IF ~Ok(s) THEN s
  ELSE IF HostFails(s) THEN [s EXCEPT !.calls = @ + 1, !.ret = "OUT_OF_MEMORY"]
  ELSE [s EXCEPT !.calls = @ + 1]

\* uacpi_initialize_tables: the tables found early are kept, or firmware's are
\* installed now, and the FACS is mapped for good.
uacpi_initialize_tables(s) ==
  LET used == Len(s.tables) - InlineCap
  IN MutexCreated(FacsInstalled(
       IF ~s.early THEN initialize_from_rsdp(s)
       ELSE IF used > 0 /\ HostFails(s) THEN Fail(s, "OUT_OF_MEMORY")
       ELSE MovedToHeap(s, used)))

\* uacpi_state_reset, as far as the tables are concerned: callers must not
\* use their uacpi_tables any more.
Reset(s) ==
  /\ Commit([uacpi_deinitialize_tables(s) EXCEPT
               !.is_rev1 = FALSE, !.fadt = NULL])
  /\ phase' = "offline"
  /\ handler' = NoHandler
  /\ flags' = {}
  /\ facs' = NoTable
  /\ mutex' = FALSE
  /\ held' = [c \in Clients |-> NoTable]
  /\ executed' = {}
  /\ UNCHANGED <<root, search, loading>>

uacpi_initialize(fl, plan) ==
  /\ ~Barebones
  /\ phase \in {"offline", "early"} /\ Free
  /\ LET s == uacpi_initialize_tables([Begin(plan) EXCEPT !.flags = fl])
     IN IF s.ret = "OK"
        THEN /\ Commit(s)
             /\ phase' = "full"
             /\ flags' = fl
             /\ IF FacsWanted(s) /\ s.out = NoTable
                THEN facs' \in {NoTable, JunkTable}
                ELSE facs' = s.out
             /\ UNCHANGED <<handler, mutex, root, held, search, loading,
                            executed>>
        ELSE Reset(s)

uacpi_state_reset ==
  /\ Online
  /\ loading = {} /\ \A c \in Clients : search[c] = NULL
  /\ ~mutex
  /\ Reset(Begin({}))

uacpi_context_set_proactive_table_checksum(setting) ==
  /\ flags' = IF setting THEN flags \cup {"PROACTIVE_TBL_CSUM"}
              ELSE flags \ {"PROACTIVE_TBL_CSUM"}
  /\ UNCHANGED <<phase, array, handler, facs, mutex, root, users>>

\* A second handler is ignored until the first one is removed.
uacpi_set_table_installation_handler(h) ==
  /\ Free
  /\ handler = NoHandler \/ h = NoHandler
  /\ handler' = h
  /\ UNCHANGED <<phase, array, flags, facs, mutex, root, users>>

\* An API call of client c that may fill in its uacpi_table.
Answer(c, s) ==
  /\ Commit(s)
  /\ held' = [held EXCEPT ![c] = s.out]
  /\ search' = [search EXCEPT ![c] = NULL]
  /\ UNCHANGED <<phase, handler, flags, facs, mutex, root, loading, executed>>

uacpi_table_install(c, addr, want, plan) ==
  /\ Online /\ Free
  /\ Len(tables) < Builds[build].maxTables
  /\ Answer(c, table_install_with_origin_unlocked(Begin(plan), addr, want))

uacpi_table_install_physical(c, addr, want, plan) ==
  /\ Online /\ Free
  /\ Len(tables) < Builds[build].maxTables
  /\ Answer(c, table_install_physical_with_origin_unlocked(
                 Begin(plan), addr, "HOST_PHYSICAL", "any", want))

uacpi_table_find_by_signature(c, sig, plan) ==
  /\ Online /\ Free
  /\ Answer(c, find_table(Begin(plan), 1, sig))

\* table_ctl: on an invalid table it returns without releasing table_mutex.
table_ctl(k, Change) ==
  IF tables[k].invalid
  THEN /\ mutex' = HasMutex
       /\ UNCHANGED <<array, users>>
  ELSE /\ Change
       /\ UNCHANGED mutex

find_next_keeps_ref(c) ==                                \* mutant
  /\ Online /\ Free
  /\ held[c] # NoTable /\ c \notin loading
  /\ search' = [search EXCEPT ![c] = held[c].index]
  /\ held' = [held EXCEPT ![c] = NoTable]
  /\ UNCHANGED <<phase, array, handler, flags, facs, mutex, root, loading,
                 executed>>

\* The caller's own table is released first ...
uacpi_table_find_next_with_same_signature(c) ==
  /\ Online /\ Free
  /\ held[c] # NoTable /\ c \notin loading
  /\ LET k == held[c].index
     IN table_ctl(k,
          /\ Commit(table_unref_unlocked(Begin({}), k))
          /\ search' = [search EXCEPT ![c] = k]
          /\ held' = [held EXCEPT ![c] = NoTable]
          /\ UNCHANGED <<loading, executed>>)
  /\ UNCHANGED <<phase, handler, flags, facs, root>>

\* ... and the search goes on after it, under the mutex once more.
FindNextSearch(c, plan) ==
  /\ Online /\ ~mutex /\ search[c] # NULL
  /\ LET k == search[c]
     IN Answer(c, find_table(Begin(plan), k + 1, Memory[tables[k].addr].sig))

\* Client d obtains a reference of its own to the table of client c.
uacpi_table_ref(c, d, plan) ==
  /\ Online /\ Free /\ held[c] # NoTable
  /\ LET s == table_ref_unlocked(Begin(plan), held[c].index)
     IN table_ctl(held[c].index,
          /\ Commit(s)
          /\ held' = [held EXCEPT ![d] = IF s.ret = "OK" THEN held[c] ELSE @]
          /\ UNCHANGED <<search, loading, executed>>)
  /\ UNCHANGED <<phase, handler, flags, facs, root>>

uacpi_table_unref(c) ==
  /\ Online /\ Free /\ held[c] # NoTable /\ c \notin loading
  /\ table_ctl(held[c].index,
       /\ Commit(table_unref_unlocked(Begin({}), held[c].index))
       /\ held' = [held EXCEPT ![c] = NoTable]
       /\ UNCHANGED <<search, loading, executed>>)
  /\ UNCHANGED <<phase, handler, flags, facs, root>>

NeverMarked(s, k) == s                                   \* mutant
MarkLoaded(s, k) == [s EXCEPT !.tables[k].loaded = TRUE]

\* uacpi_table_load: the table is marked and referenced under the mutex,
\* executed outside it, and released.
uacpi_table_load(c, plan) ==
  /\ ~Barebones /\ phase = "full" /\ ~mutex
  /\ held[c] # NoTable /\ c \notin loading
  /\ LET k == held[c].index
         s == table_ref_unlocked(Begin(plan), k)
     IN table_ctl(k,
          /\ ~tables[k].loaded
          /\ s.ret = "OK"
          /\ Commit(MarkLoaded(s, k))
          /\ loading' = loading \cup {c}
          /\ executed' = executed \cup {k}
          /\ UNCHANGED <<held, search>>)
  /\ UNCHANGED <<phase, handler, flags, facs, root>>

TableLoaded(c) ==
  /\ ~mutex /\ c \in loading
  /\ table_ctl(held[c].index,
       /\ Commit(table_unref_unlocked(Begin({}), held[c].index))
       /\ loading' = loading \ {c}
       /\ UNCHANGED <<held, search, executed>>)
  /\ UNCHANGED <<phase, handler, flags, facs, root>>

uacpi_table_mark_as_loaded(c) ==
  /\ ~Barebones /\ phase = "full" /\ ~mutex /\ held[c] # NoTable
  /\ table_ctl(held[c].index,
       /\ Commit(MarkLoaded(Begin({}), held[c].index))
       /\ UNCHANGED users)
  /\ UNCHANGED <<phase, handler, flags, facs, root>>

Signatures == {Memory[a].sig : a \in Addrs}

Next ==
  \/ \E plan \in Builds[build].failPlans :
       \/ \E b \in Builds[build].buffers : uacpi_setup_early_table_access(b, plan)
       \/ \E fl \in Builds[build].flagSets : uacpi_initialize(fl, plan)
       \/ \E c \in Askers :
            \/ \E a \in Builds[build].hostTables, want \in BOOLEAN :
                 \/ uacpi_table_install(c, a, want, plan)
                 \/ uacpi_table_install_physical(c, a, want, plan)
            \/ \E sig \in Signatures : uacpi_table_find_by_signature(c, sig, plan)
            \/ \E d \in Clients : uacpi_table_ref(d, c, plan)
       \/ \E c \in Clients :
            \/ FindNextSearch(c, plan)
            \/ uacpi_table_load(c, plan)
  \/ \E c \in Clients :
       \/ uacpi_table_find_next_with_same_signature(c)
       \/ uacpi_table_unref(c) \/ TableLoaded(c) \/ uacpi_table_mark_as_loaded(c)
  \/ \E h \in Builds[build].handlers \cup {NoHandler} :
        uacpi_set_table_installation_handler(h)
  \/ \E setting \in BOOLEAN : uacpi_context_set_proactive_table_checksum(setting)
  \/ uacpi_state_reset

Spec == Init /\ [][Next]_vars

----------------------------------------------------------------------------

\* The array never outgrows its storage, and beyond the inline part it has
\* storage: the host's buffer until uacpi_initialize has copied it, the heap
\* afterwards.
StorageBacked ==
  /\ Len(tables) <= InlineCap + cap
  /\ cap > 0 => home = IF phase = "early" THEN "buffer" ELSE "heap"

Referenced == {k \in DOMAIN tables : tables[k].refs > 0
                                     /\ Physical(tables[k].origin)}

OneMappingEach ==
  /\ \A k \in Referenced : [va |-> tables[k].ptr, addr |-> tables[k].addr] \in maps
  /\ \A m \in maps : \E k \in Referenced : tables[k].ptr = m.va
  /\ \A j, k \in Referenced : tables[j].ptr = tables[k].ptr => j = k

\* The table a filled-in uacpi_table names is referenced, mapped and where the
\* uacpi_table says.
Live(t) ==
  /\ t.index \in DOMAIN tables
  /\ tables[t.index].refs > 0
  /\ tables[t.index].ptr = t.ptr /\ t.ptr # NULL

\* No caller's uacpi_table dangles, and neither does g_uacpi_rt_ctx.facs once
\* the FACS was really installed.
HandlesLive ==
  /\ \A c \in Clients : held[c] # NoTable => Live(held[c])
  /\ facs \notin {NoTable, JunkTable} => Live(facs)

\* tables.h: "The table is unmapped when the reference count drops to 0".
\* Between calls the host's mappings are exactly those of the referenced
\* physical tables, one for each, whichever host calls failed before, and the
\* uacpi_tables handed out point into them.
MappedIffReferenced == OneMappingEach /\ HandlesLive

Holders(k) ==
  Cardinality({c \in Clients : held[c].index = k})
  + Cardinality({c \in loading : held[c].index = k})
  + (IF facs.index = k THEN 1 ELSE 0)

\* A table whose checksum failed is never referenced, so table_ctl's return
\* with the mutex held is never taken on behalf of a caller with a reference.
MutexReleased ==
  ~mutex /\ \A k \in DOMAIN tables : tables[k].invalid => tables[k].refs = 0

\* The count is the number of outstanding references, unless it saturated,
\* which is for ever, and a table with a reference is never an invalid one.
CountsExact(Others(_)) ==
  /\ \A k \in DOMAIN tables :
       tables[k].refs # MaxRef => tables[k].refs = Holders(k) + Others(k)
  /\ MutexReleased

\* uacpi.h: "Bad table checksum should be considered a fatal error": with
\* this flag a firmware table whose checksum is wrong does not get a first
\* reference (the FACS has none), unless somebody referenced it, and had it
\* marked as verified, during early access, when no flag could be set yet.
BadCsumFatal ==
  [][\A k \in DOMAIN tables' :
       LET before == IF k \in DOMAIN tables THEN tables[k]
                     ELSE [refs |-> 0, verified |-> FALSE]
           c == Memory[tables'[k].addr]
       IN /\ "BAD_CSUM_FATAL" \in flags'
          /\ before.refs = 0 /\ tables'[k].refs > 0
          /\ Physical(tables'[k].origin)
          => c.good \/ c.sig = "FACS" \/ before.verified]_vars

\* uacpi_table_load never feeds the same table to the interpreter twice.
LoadedAtMostOnce ==
  [][\A c \in loading' \ loading : held[c].index \notin executed]_vars

----------------------------------------------------------------------------
(***************************************************************************)
(* What the proofs add to make these inductive.                            *)
(***************************************************************************)
Origins == {"FIRMWARE_PHYSICAL", "HOST_PHYSICAL", "HOST_VIRTUAL"}
Entry ==
  [addr : Addrs, ptr : Nat, origin : Origins, refs : Nat, verified : BOOLEAN,
   loaded : BOOLEAN, invalid : BOOLEAN]
Mapping == [va : Nat \ {NULL}, addr : Nat]
Handle == [index : Nat, ptr : Int]

TypeOK ==
  /\ build \in DOMAIN Builds
  /\ phase \in {"offline", "early", "full"}
  /\ tables \in Seq(Entry) /\ cap \in Nat
  /\ maps \subseteq Mapping /\ IsFiniteSet(maps)
  /\ handler \in {NoHandler} \cup Builds[build].handlers
  /\ root \in Builds[build].roots
  /\ fadt \in Addrs \cup {NULL}
  /\ held \in [Clients -> Handle] /\ facs \in Handle
  /\ search \in [Clients -> Nat]
  /\ loading \subseteq Clients

\* A count never passes its limit, an invalid table has no reference, and a
\* table in host memory has always been where it is.
EntriesSound ==
  \A k \in DOMAIN tables :
    /\ tables[k].refs <= MaxRef
    /\ tables[k].invalid => tables[k].refs = 0
    /\ ~Physical(tables[k].origin) => tables[k].ptr # NULL

\* Nobody has a table before there are any, and who looks for the next table
\* has given the last one back.
CallersFit ==
  /\ \A c \in Clients : held[c].index = 0 => held[c] = NoTable
  /\ \A c \in Clients : search[c] # NULL => held[c] = NoTable
  /\ \A c \in loading : held[c] # NoTable
  /\ facs.index = 0 => facs \in {NoTable, JunkTable}
  /\ phase # "full" => facs = NoTable /\ loading = {}
  /\ phase = "offline" => /\ tables = <<>> /\ cap = 0
                          /\ \A c \in Clients : held[c] = NoTable

ExecutedMarked == \A k \in executed : k \in DOMAIN tables /\ tables[k].loaded

TablesInv ==
  /\ TypeOK /\ EntriesSound /\ StorageBacked /\ OneMappingEach /\ HandlesLive
  /\ CallersFit /\ ExecutedMarked /\ ~mutex

\* The counts are exact when one more reference is kept to table x, if any.
Counted(x) ==
  \A k \in DOMAIN tables :
    tables[k].refs # MaxRef =>
      tables[k].refs = Holders(k) + (IF x = k THEN 1 ELSE 0)

IInv == TablesInv /\ Counted(0)
============================================================================
