----------------------------- MODULE KernelBoot -----------------------------
(***************************************************************************)
(* kinit (main.c): the page allocator, the table subsystem and the HPET    *)
(* driver brought up one after the other on the boot CPU.  uACPI's host    *)
(* calls are those of acpi.c: a mapping is a page from alloc_page filled   *)
(* with a copy of the physical memory, and unmapping passes free_page the  *)
(* address of a local variable, which is no page (SlotEffect in PmmProofs).*)
(***************************************************************************)
EXTENDS UacpiTables

CONSTANTS
  PageCounts,     \* how many pages bitmap_init may have found
  BufferTables,   \* PAGE_SIZE / sizeof(struct uacpi_installed_table)
  Vectors, ErrorCodes, MaxDepth   \* of IsrEntry

ASSUME PagesAssumption == PageCounts \subseteq Nat /\ BufferTables \in Nat \ {0}

VARIABLES
  kpc,            \* the initialiser kinit runs next; "idle" or "fault" at the end
  total_pages,
  taken,          \* the pages whose bit is set
  buffer,         \* the page acpi_init gave to uACPI, or NULL
  hpet_table,     \* the table timer_init has found, NoTable if none
  hpet_base,      \* "null", "table" (a copy of the HPET table) or "junk"
  pc, regs, stack, raised, handled    \* of IsrEntry

Cpu == INSTANCE IsrEntry
cpu == <<pc, regs, stack, raised, handled>>
kernel == <<total_pages, taken, buffer, hpet_table, hpet_base>>
kvars == <<vars, kpc, kernel, cpu>>

KInit ==
  /\ Init
  /\ kpc = "gdt_init"
  /\ total_pages = 0
  /\ taken = {}
  /\ buffer = NULL
  /\ hpet_table = NoTable
  /\ hpet_base = "null"
  /\ Cpu!Init

gdt_init ==
  /\ kpc = "gdt_init"
  /\ kpc' = "idt_init"
  /\ UNCHANGED <<vars, kernel>>

idt_init ==
  /\ kpc = "idt_init"
  /\ kpc' = "bitmap_init"
  /\ UNCHANGED <<vars, kernel>>

bitmap_init ==
  /\ kpc = "bitmap_init"
  /\ total_pages' \in PageCounts
  /\ kpc' = "acpi_init"
  /\ UNCHANGED <<vars, taken, buffer, hpet_table, hpet_base>>

----------------------------------------------------------------------------
Avail(pages) == total_pages - Cardinality(pages)

\* alloc_page returns the lowest free page.
FirstFree(pages) == CHOOSE p \in 1..total_pages :
                      p \notin pages /\ \A q \in 1..(p - 1) : q \in pages

\* The host calls that find no page left, and the pages the others took.
PlanFor(pages) == {k \in Nat : k > Avail(pages)}
AfterCallsLost(pages, n) == pages                        \* mutant
AfterCalls(pages, n) ==
  LET free == 1..total_pages \ pages
      k == IF n < Cardinality(free) THEN n ELSE Cardinality(free)
  IN pages \cup {p \in free : Cardinality({q \in free : q <= p}) <= k}

\* free_page(&tmp): the address of tmp is not in page_addrs.
free_page(pages, page) == pages

acpi_init ==
  /\ kpc = "acpi_init"
  /\ kpc' = "timer_init"
  /\ UNCHANGED <<total_pages, hpet_table, hpet_base>>
  /\ IF Avail(taken) = 0
     THEN UNCHANGED <<vars, taken, buffer>>
     ELSE LET tmp == FirstFree(taken)
              pages == taken \cup {tmp}
              s == initialize_from_rsdp(
                     [Begin(PlanFor(pages)) EXCEPT
                        !.cap = BufferTables, !.home = "buffer", !.early = TRUE])
          IN /\ uacpi_setup_early_table_access(BufferTables, PlanFor(pages))
             /\ buffer' = tmp
             /\ taken' = free_page(AfterCalls(pages, s.calls), tmp)

\* timer_init ignores what the search returns: on failure it maps whatever
\* the uninitialised hpet_table holds, and a mapping that failed is used too.
timer_init ==
  /\ kpc = "timer_init"
  /\ LET s == find_table(Begin(PlanFor(taken)), 1, "HPET")
         found == phase = "early" /\ s.ret = "OK"
         pages == IF phase = "early" THEN AfterCalls(taken, s.calls) ELSE taken
     IN /\ IF phase = "early" THEN Commit(s) ELSE UNCHANGED array
        /\ hpet_table' = IF found THEN s.out ELSE NoTable
        /\ taken' = AfterCalls(pages, 1)
        /\ \/ /\ Avail(pages) > 0 /\ found
              /\ hpet_base' = "table" /\ kpc' = "idle"
           \/ /\ Avail(pages) > 0 /\ ~found
              /\ hpet_base' = "junk" /\ kpc' \in {"idle", "fault"}
           \/ /\ Avail(pages) = 0
              /\ hpet_base' = "null" /\ kpc' = "fault"
  /\ UNCHANGED <<phase, handler, flags, facs, mutex, root, users, total_pages,
                 buffer>>

\* The machine stopped by a fault of the driver.
Stopped ==
  /\ kpc = "fault"
  /\ UNCHANGED kvars

kinit ==
  /\ \/ gdt_init \/ idt_init \/ bitmap_init \/ acpi_init \/ timer_init
  /\ UNCHANGED cpu

\* kmain's endless loop, and what interrupts it.
kmain ==
  /\ kpc = "idle"
  /\ Cpu!Next
  /\ UNCHANGED <<vars, kpc, kernel>>

KNext == kinit \/ kmain \/ Stopped

KSpec == KInit /\ [][KNext]_kvars

\* uACPI under a host of its own, which is not kptrOS's kernel.
HostedInit ==
  /\ Init
  /\ kpc = "hosted"
  /\ total_pages = 0 /\ taken = {}
  /\ buffer = NULL /\ hpet_table = NoTable /\ hpet_base = "null"
  /\ Cpu!Init

HostedNext ==
  /\ kpc = "hosted"
  /\ Next
  /\ UNCHANGED <<kpc, kernel, cpu>>

\* Either of the two.
SystemNext == HostedNext \/ KNext
SystemSpec == (KInit \/ HostedInit) /\ [][SystemNext]_kvars

----------------------------------------------------------------------------
\* The reference timer_init keeps to the table it has found.
DriverHolds(k) == IF hpet_table.index = k THEN 1 ELSE 0

\* A table's count is the number of references its callers, the FACS pointer
\* and kinit's drivers have to it, unless it saturated, and the table mutex is
\* not left held (table_ref_unlocked, table_ctl).
RefsExact == CountsExact(DriverHolds)

\* ContextRestored of IsrEntry, for what interrupts the running kernel.
ContextRestored == Cpu!ContextRestored

\* uacpi.h: the temporary buffer can be reclaimed only once uacpi_initialize
\* has replaced it.  acpi_init "frees" it at once; the page is nevertheless
\* never handed out again while the table array lives in it.
BufferKept == kpc # "hosted" /\ home = "buffer" => buffer \in taken

\* Every live mapping, and the buffer, has a page of its own.
MappingsBacked ==
  kpc # "hosted" =>
    Cardinality(maps) + (IF home = "buffer" THEN 1 ELSE 0) <= Cardinality(taken)

\* No page in use by the table subsystem is handed out a second time, and its
\* array never outgrows its storage (alloc_page, free_page, uacpi_kernel_map;
\* DYNAMIC_ARRAY_ALLOC_FN, uacpi_initialize_tables).
MemoryKept == BufferKept /\ MappingsBacked /\ StorageBacked

----------------------------------------------------------------------------
\* What the proofs add: the kernel is alone with its tables, keeps what it has
\* found, and maps nothing else.
KernelAlone ==
  IF kpc = "hosted" THEN hpet_table = NoTable
  ELSE /\ phase # "full" /\ facs = NoTable
       /\ \A c \in Clients : held[c] = NoTable /\ search[c] = NULL
       /\ phase = "offline" => home = "none"
       /\ phase = "early" => buffer \in taken
       /\ kpc \notin {"timer_init", "idle", "fault"} =>
            phase = "offline" /\ taken = {}
       /\ kpc \notin {"idle", "fault"} => hpet_table = NoTable /\ maps = {}

PagesTyped == total_pages \in Nat /\ taken \subseteq 1..total_pages

SystemInv ==
  /\ TablesInv /\ Counted(hpet_table.index)
  /\ KernelAlone /\ PagesTyped /\ BufferKept /\ MappingsBacked
============================================================================
