-------------------------------- MODULE Pmm --------------------------------
(***************************************************************************)
(* The physical page allocator of src/kern/mem/pmm.c: bitmap_init scans    *)
(* the boot loader's memory map into page_addrs, alloc_page hands out the  *)
(* first page whose bit is clear and free_page looks an address up and     *)
(* clears its bit.  The kernel runs on one CPU with interrupts off and no  *)
(* handler allocates, so each call is one step.                            *)
(***************************************************************************)
EXTENDS Integers, Sequences

CONSTANTS
  MAX_PAGES,  \* capacity of page_addrs (pmm.h:9, 65536 * 8 in the build)
  MemMaps,    \* the memory maps the boot loader may report
  Handles,    \* the callers' pointer variables ("void *tmp")
  StackAddr   \* the value of &tmp: an address of the boot stack

PAGE_SIZE == 4096
NULL == 0

MemMapEntry == [base : Nat, length : Nat, usable : BOOLEAN]

RegionEnd(e) == e.base + e.length

\* Limine promises that a usable region overlaps no other one and never holds
\* the first page; the stack it provides is not in usable memory.
MemMapOK(m) ==
  /\ m \in Seq(MemMapEntry)
  /\ \A i, j \in 1..Len(m) :
       i # j /\ m[i].usable =>
         RegionEnd(m[i]) <= m[j].base \/ RegionEnd(m[j]) <= m[i].base
  /\ \A i \in 1..Len(m) : m[i].usable =>
       /\ m[i].base >= PAGE_SIZE
       /\ StackAddr < m[i].base \/ RegionEnd(m[i]) <= StackAddr

ASSUME MaxPagesAssumption == MAX_PAGES \in Nat
ASSUME StackAssumption == StackAddr \in Nat \ {NULL}
ASSUME MemMapAssumption == \A m \in MemMaps : MemMapOK(m)

VARIABLES
  pc,           \* where bitmap_init is; "ready" once it has returned
  i,            \* its loop counter
  memmap,       \* memmap.response
  bitmap,       \* the bits that are set, as <<word, bit>> pairs
  page_addrs,
  total_pages,
  tmp,          \* what the callers' pointers hold
  lost,         \* pages whose last pointer was dropped without freeing them
  dirty,        \* pages holding bytes a caller wrote
  refused       \* did the last call of alloc_page find nothing?

vars == <<pc, i, memmap, bitmap, page_addrs, total_pages, tmp, lost, dirty,
          refused>>

----------------------------------------------------------------------------
BitSevenWide(index) == <<index \div 8, index % 7>>       \* mutant
Bit(index) == <<index \div 8, index % 8>>

set_bit(index) == bitmap' = bitmap \cup {Bit(index)}
clear_bit(index) == bitmap' = bitmap \ {Bit(index)}
test_bit(index) == Bit(index) \in bitmap

AlignDown(x) == x - (x % PAGE_SIZE)         \* x & ~(PAGE_SIZE - 1)
AlignUpNot(x) == AlignDown(x)                            \* mutant
AlignUp(x) == AlignDown(x + PAGE_SIZE - 1)

PageStart(e) == AlignUp(e.base)
PageEnd(e) == AlignDown(RegionEnd(e))

\* The value of addr in iteration n of the loop over region e.
PageAddr(e, n) == PageStart(e) + n * PAGE_SIZE

PageCountShort(e) ==                                     \* mutant
  IF e.usable /\ PageStart(e) + PAGE_SIZE < PageEnd(e)
  THEN (PageEnd(e) - PageStart(e)) \div PAGE_SIZE
  ELSE 0
\* The number of iterations of the loop over a usable region.
PageCount(e) ==
  IF e.usable /\ PageStart(e) < PageEnd(e)
  THEN (PageEnd(e) - PageStart(e)) \div PAGE_SIZE
  ELSE 0

\* The loop over any other region counts down from page_start, and its body
\* is guarded by total_pages > MAX_PAGES.
ReserveCount(e) ==
  IF ~e.usable /\ PageStart(e) > PageEnd(e) /\ total_pages > MAX_PAGES
  THEN (PageStart(e) - PageEnd(e)) \div PAGE_SIZE
  ELSE 0

LowerOf(a, b) == IF a < b THEN a ELSE b

Init ==
  /\ pc = "start"
  /\ i = 1
  /\ memmap \in MemMaps
  /\ bitmap = {}
  /\ page_addrs = [k \in 0..(MAX_PAGES - 1) |-> 0]
  /\ total_pages = MAX_PAGES
  /\ tmp = [h \in Handles |-> NULL]
  /\ lost = {}
  /\ dirty = {}
  /\ refused = FALSE

callers == <<tmp, lost, dirty, refused>>

BitmapInit ==
  /\ pc = "start"
  /\ total_pages' = 0
  /\ pc' = "usable"
  /\ UNCHANGED <<i, memmap, bitmap, page_addrs, callers>>

\* One memory map entry in the first loop: its pages are appended to
\* page_addrs, as many as there is room for, and their bits cleared.
ScanUsable ==
  /\ pc = "usable"
  /\ i <= Len(memmap)
  /\ LET e == memmap[i]
         end == LowerOf(MAX_PAGES, total_pages + PageCount(e))
         new == total_pages..(end - 1)
     IN /\ page_addrs' = [k \in DOMAIN page_addrs |->
              IF k \in new
              THEN PageAddr(e, k - total_pages)
              ELSE page_addrs[k]]
        /\ bitmap' = bitmap \ {Bit(k) : k \in new}
        /\ total_pages' = end
  /\ i' = i + 1
  /\ UNCHANGED <<pc, memmap, callers>>

EndUsable ==
  /\ pc = "usable"
  /\ i > Len(memmap)
  /\ pc' = "reserved"
  /\ i' = 1
  /\ UNCHANGED <<memmap, bitmap, page_addrs, total_pages, callers>>

\* One memory map entry in the second loop.
ScanReserved ==
  /\ pc = "reserved"
  /\ i <= Len(memmap)
  /\ LET e == memmap[i]
         end == total_pages - LowerOf(ReserveCount(e), total_pages - MAX_PAGES)
         new == (end + 1)..total_pages
     IN IF ReserveCount(e) > 0
        THEN /\ page_addrs' = [k \in DOMAIN page_addrs |->
                   IF k \in new
                   THEN PageAddr(e, k - total_pages)
                   ELSE page_addrs[k]]
             /\ bitmap' = bitmap \cup {Bit(k) : k \in new}
             /\ total_pages' = end
        ELSE UNCHANGED <<page_addrs, bitmap, total_pages>>
  /\ i' = i + 1
  /\ UNCHANGED <<pc, memmap, callers>>

\* bitmap_init ends by calling load_pages, which fills the page tables of
\* paging.c and touches none of this state.
LoadPages ==
  /\ pc = "reserved"
  /\ i > Len(memmap)
  /\ pc' = "ready"
  /\ UNCHANGED <<i, memmap, bitmap, page_addrs, total_pages, callers>>

----------------------------------------------------------------------------
books == <<pc, i, memmap, page_addrs, total_pages>>

\* alloc_page(&tmp) where tmp is NULL; the caller then writes to its page.
AllocPage(h) ==
  /\ pc = "ready"
  /\ tmp[h] = NULL
  /\ \E index \in 0..(total_pages - 1) :
       /\ ~test_bit(index)
       /\ \A k \in 0..(index - 1) : test_bit(k)
       /\ set_bit(index)
       /\ tmp' = [tmp EXCEPT ![h] = page_addrs[index]]
       /\ dirty' = dirty \cup {page_addrs[index]}
  /\ refused' = FALSE
  /\ UNCHANGED <<books, lost>>

\* alloc_page runs off the end of the bitmap: *addr is left alone.
AllocNone(h) ==
  /\ pc = "ready"
  /\ tmp[h] = NULL
  /\ \A k \in 0..(total_pages - 1) : test_bit(k)
  /\ refused' = TRUE
  /\ UNCHANGED <<books, bitmap, tmp, lost, dirty>>

free_page_no_memset(addr) ==                             \* mutant
  IF \E k \in 0..(total_pages - 1) : page_addrs[k] = addr
  THEN \E index \in 0..(total_pages - 1) :
         /\ page_addrs[index] = addr
         /\ clear_bit(index)
         /\ UNCHANGED dirty
  ELSE UNCHANGED <<bitmap, dirty>>

free_page_next(addr) ==                                  \* mutant
  IF \E k \in 0..(total_pages - 1) : page_addrs[k] = addr
  THEN \E index \in 0..(total_pages - 1) :
         /\ page_addrs[index] = addr
         /\ clear_bit(index + 1)
         /\ dirty' = dirty \ {addr}
  ELSE UNCHANGED <<bitmap, dirty>>

\* free_page(addr): the first page with this address is zeroed and its bit
\* cleared; an address that is nobody's page is ignored.
free_page(addr) ==
  IF \E k \in 0..(total_pages - 1) : page_addrs[k] = addr
  THEN \E index \in 0..(total_pages - 1) :
         /\ page_addrs[index] = addr
         /\ \A k \in 0..(index - 1) : page_addrs[k] # addr
         /\ clear_bit(index)
         /\ dirty' = dirty \ {addr}
  ELSE UNCHANGED <<bitmap, dirty>>

\* free_page(tmp): the caller passes the page it was given.
FreePage(h) ==
  /\ pc = "ready"
  /\ tmp[h] # NULL
  /\ free_page(tmp[h])
  /\ tmp' = [tmp EXCEPT ![h] = NULL]
  /\ UNCHANGED <<books, lost, refused>>

\* free_page(&tmp), as every caller in acpi.c has it: the address of the
\* pointer goes in, and the pointer goes out of scope.
FreeSlot(h) ==
  /\ pc = "ready"
  /\ tmp[h] # NULL
  /\ free_page(StackAddr)
  /\ tmp' = [tmp EXCEPT ![h] = NULL]
  /\ lost' = lost \cup {tmp[h]}
  /\ UNCHANGED <<books, refused>>

Next ==
  \/ BitmapInit \/ ScanUsable \/ EndUsable \/ ScanReserved \/ LoadPages
  \/ \E h \in Handles :
       AllocPage(h) \/ AllocNone(h) \/ FreePage(h) \/ FreeSlot(h)

Spec == Init /\ [][Next]_vars

----------------------------------------------------------------------------
Pages == {page_addrs[k] : k \in 0..(total_pages - 1)}
Taken == {page_addrs[k] : k \in {n \in 0..(total_pages - 1) : test_bit(n)}}
Held == {tmp[h] : h \in Handles} \ {NULL}

\* The state of pmm.c has the shape its declarations give it.
TypeOK ==
  /\ pc \in {"start", "usable", "reserved", "ready"}
  /\ memmap \in MemMaps
  /\ i \in 1..(Len(memmap) + 1)
  /\ bitmap \subseteq Nat \X (0..7)
  /\ page_addrs \in [0..(MAX_PAGES - 1) -> Nat]
  /\ total_pages \in 0..MAX_PAGES
  /\ tmp \in [Handles -> Nat]
  /\ lost \subseteq Nat
  /\ dirty \subseteq Nat
  /\ refused \in BOOLEAN

\* The rounding of bitmap_init never lets a page reach outside the usable
\* region it was cut from, whatever the alignment of the region.
PagesInUsableRam ==
  pc # "start" =>
    \A k \in 0..(total_pages - 1) :
      /\ page_addrs[k] % PAGE_SIZE = 0
      /\ \E j \in 1..Len(memmap) :
           /\ memmap[j].usable
           /\ memmap[j].base <= page_addrs[k]
           /\ page_addrs[k] + PAGE_SIZE <= RegionEnd(memmap[j])

\* No page is entered twice in page_addrs: two indices, two bits, would
\* otherwise stand for the same memory.
PagesDistinct ==
  pc # "start" =>
    \A j, k \in 0..(total_pages - 1) : page_addrs[j] = page_addrs[k] => j = k

\* What bitmap_init records are pages: each once, and all of it usable RAM.
PagesSound == PagesInUsableRam /\ PagesDistinct

\* bitmap_init forgets no usable page: every aligned page that fits a usable
\* region is in page_addrs, unless the table is full.
ScanComplete ==
  pc = "ready" /\ total_pages < MAX_PAGES =>
    \A j \in 1..Len(memmap) : memmap[j].usable =>
      \A n \in 0..(RegionEnd(memmap[j]) \div PAGE_SIZE) :
        /\ memmap[j].base <= n * PAGE_SIZE
        /\ (n + 1) * PAGE_SIZE <= RegionEnd(memmap[j])
        => n * PAGE_SIZE \in Pages

\* Two pointers obtained from alloc_page never name the same page.
NoAliasing ==
  \A h, g \in Handles : h # g /\ tmp[h] # NULL => tmp[h] # tmp[g]

\* The bitmap and the callers agree: a bit is set exactly for the pages some
\* pointer holds and for those dropped without being freed.
Accounting == pc = "ready" => Taken = Held \cup lost

\* Every page that is not free has one owner: alloc_page and free_page never
\* confuse two pages, whichever pointers are dropped or freed in between.
PagesOwned == NoAliasing /\ Accounting

\* free_page's memset: a page that can be handed out holds no bytes of an
\* earlier owner.
NoStaleData ==
  pc = "ready" => \A k \in 0..(total_pages - 1) :
                    ~test_bit(k) => page_addrs[k] \notin dirty

\* alloc_page comes back empty-handed only when every page is in use.
RefusedOnlyWhenExhausted ==
  [][refused' /\ ~refused => Pages = Held \cup lost]_vars

PA == INSTANCE PageAllocator WITH
        online <- pc = "ready",
        free <- IF pc = "ready" THEN Pages \ Taken ELSE {}

\* alloc_page and free_page implement the abstract allocator.
ImplementsPageAllocator == PA!Spec
============================================================================
