----------------------------- MODULE PmmProofs -----------------------------
(***************************************************************************)
(* The invariants of the page allocator, for every memory map the boot     *)
(* loader may report, every capacity and every set of callers.             *)
(***************************************************************************)
EXTENDS Pmm, TLAPS

\* Every page was cut from a usable region already scanned.
PageSource ==
  pc # "start" =>
    \A k \in 0..(total_pages - 1) :
      /\ page_addrs[k] % PAGE_SIZE = 0
      /\ \E j \in 1..Len(memmap) :
           /\ pc = "usable" => j < i
           /\ memmap[j].usable
           /\ memmap[j].base <= page_addrs[k]
           /\ page_addrs[k] + PAGE_SIZE <= RegionEnd(memmap[j])

\* Nobody allocates before bitmap_init has returned.
Quiet ==
  pc # "ready" =>
    /\ bitmap = {}
    /\ tmp = [h \in Handles |-> NULL]
    /\ lost = {}
    /\ dirty = {}

\* The callers' side of the books.
Books ==
  /\ Held \cap lost = {}
  /\ dirty \subseteq Held \cup lost

IInv ==
  /\ TypeOK
  /\ PageSource
  /\ PagesDistinct
  /\ Quiet
  /\ NoAliasing
  /\ Accounting
  /\ Books

----------------------------------------------------------------------------
\* The word and the position of a bit determine the index of its page
\* (set_bit, clear_bit and test_bit).
LEMMA BitInjective ==
  ASSUME NEW j \in Nat, NEW k \in Nat, Bit(j) = Bit(k)
  PROVE  j = k
<1>1. j \div 8 = k \div 8 /\ j % 8 = k % 8
  BY DEF Bit
<1> QED BY <1>1

\* A bit is a pair of a word and a position below 8.
LEMMA BitType == ASSUME NEW k \in Nat PROVE Bit(k) \in Nat \X (0..7)
BY DEF Bit

\* A page of the loop over a usable region is aligned and inside the region.
LEMMA PageInRegion ==
  ASSUME NEW e \in MemMapEntry, NEW n \in 0..(PageCount(e) - 1)
  PROVE  /\ e.usable
         /\ PageAddr(e, n) \in Nat
         /\ PageAddr(e, n) % PAGE_SIZE = 0
         /\ e.base <= PageAddr(e, n)
         /\ PageAddr(e, n) + PAGE_SIZE <= RegionEnd(e)
<1> DEFINE S == PageStart(e)
           E == PageEnd(e)
<1>1. e.base \in Nat /\ RegionEnd(e) \in Nat
  BY DEF MemMapEntry, RegionEnd
<1>2. /\ S \in Nat /\ S % 4096 = 0 /\ e.base <= S
      /\ E \in Nat /\ E % 4096 = 0 /\ E <= RegionEnd(e)
  BY <1>1 DEF PageStart, PageEnd, AlignUp, AlignDown, PAGE_SIZE
<1>3. e.usable /\ S < E /\ n \in 0..(((E - S) \div 4096) - 1)
  <2>1. CASE e.usable /\ S < E
    BY <2>1 DEF PageCount, PAGE_SIZE
  <2>2. CASE ~(e.usable /\ S < E)
    BY <2>2 DEF PageCount
  <2> QED BY <2>1, <2>2
<1>4. PageAddr(e, n) = S + n * 4096
  BY DEF PageAddr, PAGE_SIZE
<1> HIDE DEF S, E
<1> QED BY <1>1, <1>2, <1>3, <1>4 DEF PAGE_SIZE

\* The bounds of a region are addresses.
LEMMA EntryBounds ==
  ASSUME NEW e \in MemMapEntry
  PROVE  e.base \in Nat /\ RegionEnd(e) \in Nat
BY DEF MemMapEntry, RegionEnd

\* The number of pages a region contributes is a natural number.
LEMMA PageCountType ==
  ASSUME NEW e \in MemMapEntry
  PROVE  PageCount(e) \in Nat
<1>1. e.base \in Nat /\ RegionEnd(e) \in Nat
  BY DEF MemMapEntry, RegionEnd
<1>2. PageStart(e) \in Nat /\ PageEnd(e) \in Nat
  BY <1>1 DEF PageStart, PageEnd, AlignUp, AlignDown, PAGE_SIZE
<1> QED BY <1>2 DEF PageCount, PAGE_SIZE

\* What the boot loader's promise says of the current memory map.
LEMMA MemMapFacts ==
  ASSUME memmap \in MemMaps
  PROVE  /\ memmap \in Seq(MemMapEntry)
         /\ \A j \in 1..Len(memmap) : memmap[j] \in MemMapEntry
         /\ \A j, k \in 1..Len(memmap) : j # k /\ memmap[j].usable =>
               \/ RegionEnd(memmap[j]) <= memmap[k].base
               \/ RegionEnd(memmap[k]) <= memmap[j].base
         /\ \A j \in 1..Len(memmap) : memmap[j].usable =>
               /\ memmap[j].base >= PAGE_SIZE
               /\ StackAddr < memmap[j].base \/ RegionEnd(memmap[j]) <= StackAddr
BY MemMapAssumption DEF MemMapOK

\* No page has the address NULL or the address of a caller's variable.
LEMMA PageNotNull ==
  ASSUME TypeOK, PageSource, pc # "start"
  PROVE  /\ NULL \notin Pages
         /\ StackAddr \notin Pages
<1> SUFFICES ASSUME NEW k \in 0..(total_pages - 1)
             PROVE  page_addrs[k] # NULL /\ page_addrs[k] # StackAddr
  BY DEF Pages
<1>1. PICK j \in 1..Len(memmap) :
        /\ memmap[j].usable
        /\ memmap[j].base <= page_addrs[k]
        /\ page_addrs[k] + PAGE_SIZE <= RegionEnd(memmap[j])
  BY DEF PageSource
<1>2. /\ memmap[j] \in MemMapEntry
      /\ memmap[j].base >= PAGE_SIZE
      /\ StackAddr < memmap[j].base \/ RegionEnd(memmap[j]) <= StackAddr
  BY <1>1, MemMapFacts DEF TypeOK
<1>3. page_addrs[k] \in Nat
  BY MaxPagesAssumption DEF TypeOK
<1> QED BY <1>1, <1>2, <1>3, StackAssumption DEF MemMapEntry, PAGE_SIZE, NULL, RegionEnd

----------------------------------------------------------------------------
\* The state in which the kernel image is loaded.
LEMMA InitIInv == Init => IInv
<1> SUFFICES ASSUME Init PROVE IInv
  OBVIOUS
<1>1. TypeOK
  <2>1. memmap \in Seq(MemMapEntry)
    BY MemMapAssumption DEF Init, MemMapOK
  <2>2. i \in 1..(Len(memmap) + 1)
    BY <2>1 DEF Init
  <2>3. /\ page_addrs \in [0..(MAX_PAGES - 1) -> Nat]
        /\ tmp \in [Handles -> Nat]
        /\ total_pages \in 0..MAX_PAGES
    BY MaxPagesAssumption DEF Init, NULL
  <2>4. bitmap \subseteq Nat \X (0..7) /\ lost \subseteq Nat /\ dirty \subseteq Nat
    BY DEF Init
  <2> QED BY <2>2, <2>3, <2>4 DEF Init, TypeOK
<1>2. PageSource /\ PagesDistinct /\ Accounting /\ Quiet
  BY DEF Init, PageSource, PagesDistinct, Accounting, Quiet
<1>3. Held = {}
  BY DEF Init, Held
<1>4. NoAliasing /\ Books
  BY <1>3 DEF Init, NoAliasing, Books
<1> QED BY <1>1, <1>2, <1>4 DEF IInv

\* One entry of the first loop of bitmap_init.
LEMMA ScanUsableStep == IInv /\ ScanUsable => IInv'
<1> SUFFICES ASSUME IInv, ScanUsable PROVE IInv'
  OBVIOUS
<1> USE DEF IInv
<1> DEFINE e == memmap[i]
           end == LowerOf(MAX_PAGES, total_pages + PageCount(e))
           new == total_pages..(end - 1)
<1>0. /\ pc = "usable" /\ i \in 1..Len(memmap)
      /\ page_addrs' = [k \in DOMAIN page_addrs |->
              IF k \in new THEN PageAddr(e, k - total_pages)
              ELSE page_addrs[k]]
      /\ bitmap' = bitmap \ {Bit(k) : k \in new}
      /\ total_pages' = end
      /\ i' = i + 1
      /\ UNCHANGED <<pc, memmap, callers>>
  <2>1. memmap \in Seq(MemMapEntry)
    BY MemMapFacts DEF TypeOK
  <2> QED BY <2>1 DEF ScanUsable, TypeOK
<1>1. e \in MemMapEntry /\ memmap \in Seq(MemMapEntry)
  BY <1>0, MemMapFacts DEF TypeOK
<1>2. PageCount(e) \in Nat
  BY <1>1, PageCountType
<1>3. /\ total_pages \in 0..MAX_PAGES
      /\ end \in total_pages..MAX_PAGES
      /\ end <= total_pages + PageCount(e)
  BY <1>2, MaxPagesAssumption DEF TypeOK, LowerOf
<1> HIDE DEF e, end
<1>4. ASSUME NEW k \in new
      PROVE  /\ k - total_pages \in 0..(PageCount(e) - 1)
             /\ k \in 0..(MAX_PAGES - 1)
             /\ page_addrs'[k] = PageAddr(e, k - total_pages)
  <2>1. k - total_pages \in 0..(PageCount(e) - 1) /\ k \in 0..(MAX_PAGES - 1)
    BY <1>2, <1>3, MaxPagesAssumption
  <2>2. DOMAIN page_addrs = 0..(MAX_PAGES - 1)
    BY DEF TypeOK
  <2> QED BY <1>0, <2>1, <2>2
<1>5. ASSUME NEW k \in new
      PROVE  /\ e.usable
             /\ page_addrs'[k] \in Nat
             /\ page_addrs'[k] % PAGE_SIZE = 0
             /\ e.base <= page_addrs'[k]
             /\ page_addrs'[k] + PAGE_SIZE <= RegionEnd(e)
  BY <1>1, <1>4, PageInRegion
<1>6. ASSUME NEW k \in 0..(end - 1), k \notin new
      PROVE  /\ k \in 0..(total_pages - 1)
             /\ page_addrs'[k] = page_addrs[k]
  <2>1. k \in 0..(total_pages - 1) /\ k \in 0..(MAX_PAGES - 1)
    BY <1>3, <1>6, MaxPagesAssumption
  <2> QED BY <1>0, <1>6, <2>1 DEF TypeOK
<1>7. TypeOK'
  <2>1. page_addrs' \in [0..(MAX_PAGES - 1) -> Nat]
    <3>1. DOMAIN page_addrs = 0..(MAX_PAGES - 1)
      BY DEF TypeOK
    <3>2. ASSUME NEW k \in 0..(MAX_PAGES - 1), k \notin new
          PROVE page_addrs'[k] \in Nat
      BY <1>0, <3>1, <3>2 DEF TypeOK
    <3> QED BY <1>0, <1>5, <3>1, <3>2
  <2>2. i' \in 1..(Len(memmap) + 1)
    BY <1>0, <1>1
  <2>3. total_pages' \in 0..MAX_PAGES
    BY <1>0, <1>3, MaxPagesAssumption
  <2>4. bitmap' \subseteq Nat \X (0..7)
    BY <1>0 DEF TypeOK
  <2> QED BY <1>0, <2>1, <2>2, <2>3, <2>4 DEF TypeOK, callers
<1>8. PageSource'
  <2> SUFFICES ASSUME NEW k \in 0..(end - 1)
               PROVE  /\ page_addrs'[k] % PAGE_SIZE = 0
                      /\ \E j \in 1..Len(memmap) :
                           /\ j < i + 1
                           /\ memmap[j].usable
                           /\ memmap[j].base <= page_addrs'[k]
                           /\ page_addrs'[k] + PAGE_SIZE <= RegionEnd(memmap[j])
    BY <1>0 DEF PageSource
  <2>1. CASE k \in new
    <3>1. i < i + 1 /\ i \in 1..Len(memmap) /\ e = memmap[i]
      BY <1>0 DEF TypeOK, e
    <3> QED BY <1>5, <2>1, <3>1
  <2>2. CASE k \notin new
    <3>1. k \in 0..(total_pages - 1) /\ page_addrs'[k] = page_addrs[k]
      BY <1>6, <2>2
    <3>2. PICK j \in 1..Len(memmap) :
            /\ j < i
            /\ memmap[j].usable
            /\ memmap[j].base <= page_addrs[k]
            /\ page_addrs[k] + PAGE_SIZE <= RegionEnd(memmap[j])
      BY <1>0, <3>1 DEF PageSource
    <3>3. page_addrs[k] % PAGE_SIZE = 0
      BY <1>0, <3>1 DEF PageSource
    <3>4. j < i + 1
      BY <1>0, <3>2
    <3> QED BY <3>1, <3>2, <3>3, <3>4
  <2> QED BY <2>1, <2>2
<1>9. PagesDistinct'
  <2> SUFFICES ASSUME NEW j \in 0..(end - 1), NEW k \in 0..(end - 1),
                      page_addrs'[j] = page_addrs'[k]
               PROVE  j = k
    BY <1>0 DEF PagesDistinct
  \* A page of an earlier region is not a page of this one.
  <2>1. ASSUME NEW a \in 0..(end - 1), NEW b \in new, a \notin new,
               page_addrs'[a] = page_addrs'[b]
        PROVE  FALSE
    <3>1. a \in 0..(total_pages - 1) /\ page_addrs'[a] = page_addrs[a]
      BY <1>6, <2>1
    <3>2. PICK r \in 1..Len(memmap) :
            /\ r < i
            /\ memmap[r].usable
            /\ memmap[r].base <= page_addrs[a]
            /\ page_addrs[a] + PAGE_SIZE <= RegionEnd(memmap[r])
      BY <1>0, <3>1 DEF PageSource
    <3>3. \/ RegionEnd(memmap[r]) <= e.base
          \/ RegionEnd(e) <= memmap[r].base
      <4>1. r # i
        BY <1>0, <3>2
      <4> QED BY <1>0, <3>2, <4>1, MemMapFacts DEF TypeOK, e
    <3>4. memmap[r] \in MemMapEntry
      BY MemMapFacts DEF TypeOK
    <3>5. /\ page_addrs[a] \in Nat
          /\ e.base <= page_addrs[a]
          /\ page_addrs[a] + PAGE_SIZE <= RegionEnd(e)
      BY <1>5, <2>1, <3>1
    <3>6. /\ memmap[r].base \in Nat /\ RegionEnd(memmap[r]) \in Nat
          /\ e.base \in Nat /\ RegionEnd(e) \in Nat
      BY <1>1, <3>4, EntryBounds
    <3>7. page_addrs[a] < page_addrs[a] + PAGE_SIZE
      BY <3>5 DEF PAGE_SIZE
    <3>8. page_addrs[a] + PAGE_SIZE \in Nat
      BY <3>5 DEF PAGE_SIZE
    <3>9. CASE RegionEnd(memmap[r]) <= e.base
      BY <3>2, <3>5, <3>6, <3>7, <3>8, <3>9
    <3>10. CASE RegionEnd(e) <= memmap[r].base
      BY <3>2, <3>5, <3>6, <3>7, <3>8, <3>10
    <3> QED BY <3>3, <3>9, <3>10
  <2>2. CASE j \in new /\ k \in new
    <3>1. PageAddr(e, j - total_pages) = PageAddr(e, k - total_pages)
      BY <1>4, <2>2
    <3>2. PageStart(e) \in Nat
      BY <1>1 DEF MemMapEntry, PageStart, AlignUp, AlignDown, PAGE_SIZE
    <3> QED BY <1>3, <2>2, <3>1, <3>2 DEF PageAddr, PAGE_SIZE
  <2>3. CASE j \notin new /\ k \notin new
    <3>1. /\ j \in 0..(total_pages - 1) /\ page_addrs'[j] = page_addrs[j]
          /\ k \in 0..(total_pages - 1) /\ page_addrs'[k] = page_addrs[k]
      BY <1>6, <2>3
    <3> QED BY <1>0, <3>1 DEF PagesDistinct
  <2> QED BY <2>1, <2>2, <2>3
<1>10. Quiet' /\ Accounting' /\ NoAliasing' /\ Books'
  BY <1>0 DEF Quiet, Accounting, NoAliasing, Books, Held, callers
<1> QED BY <1>7, <1>8, <1>9, <1>10

\* The second loop changes nothing: its guard asks for more pages than the
\* first loop ever records.
LEMMA ScanReservedIdle ==
  ASSUME IInv, ScanReserved
  PROVE  UNCHANGED <<page_addrs, bitmap, total_pages>>
<1>1. ~(total_pages > MAX_PAGES)
  BY MaxPagesAssumption DEF IInv, TypeOK
<1>2. ReserveCount(memmap[i]) = 0
  BY <1>1 DEF ReserveCount
<1> QED BY <1>2 DEF ScanReserved

\* The remaining steps of bitmap_init.
LEMMA BootStep ==
  IInv /\ (BitmapInit \/ EndUsable \/ ScanReserved \/ LoadPages) => IInv'
<1> SUFFICES ASSUME IInv,
                    BitmapInit \/ EndUsable \/ ScanReserved \/ LoadPages
             PROVE  IInv'
  OBVIOUS
<1> USE DEF IInv
<1>0. memmap \in Seq(MemMapEntry)
  BY MemMapFacts DEF TypeOK
<1>1. CASE BitmapInit
  <2>1. TypeOK'
    BY <1>1, MaxPagesAssumption DEF BitmapInit, TypeOK, callers
  <2>2. PageSource' /\ PagesDistinct'
    BY <1>1 DEF BitmapInit, PageSource, PagesDistinct
  <2>3. Quiet' /\ NoAliasing' /\ Accounting' /\ Books'
    BY <1>1 DEF BitmapInit, Quiet, NoAliasing, Accounting, Books, Held, callers
  <2> QED BY <2>1, <2>2, <2>3
<1>2. ASSUME UNCHANGED <<memmap, bitmap, page_addrs, total_pages, callers>>,
             pc \in {"usable", "reserved"}, pc' = "reserved",
             i' \in 1..(Len(memmap) + 1)
      PROVE  IInv'
  <2>1. TypeOK'
    BY <1>2 DEF TypeOK, callers
  <2>2. PageSource' /\ PagesDistinct'
    BY <1>2 DEF PageSource, PagesDistinct
  <2>3. Quiet' /\ NoAliasing' /\ Accounting' /\ Books'
    BY <1>2 DEF Quiet, NoAliasing, Accounting, Books, Held, callers
  <2> QED BY <2>1, <2>2, <2>3
<1>3. CASE EndUsable
  <2>1. 1 \in 1..(Len(memmap) + 1)
    BY <1>0
  <2> QED BY <1>2, <1>3, <2>1 DEF EndUsable
<1>4. CASE ScanReserved
  <2>1. i' \in 1..(Len(memmap) + 1)
    BY <1>0, <1>4 DEF ScanReserved, TypeOK
  <2> QED BY <1>2, <1>4, <2>1, ScanReservedIdle DEF ScanReserved
<1>5. CASE LoadPages
  <2>1. TypeOK'
    BY <1>5 DEF LoadPages, TypeOK, callers
  <2>2. PageSource' /\ PagesDistinct'
    BY <1>5 DEF LoadPages, PageSource, PagesDistinct
  <2>3. Quiet' /\ NoAliasing' /\ Books'
    BY <1>5 DEF LoadPages, Quiet, NoAliasing, Books, Held, callers
  <2>4. Held = {} /\ lost = {} /\ bitmap = {}
    BY <1>5 DEF LoadPages, Quiet, Held
  <2>5. Held' = {} /\ lost' = {} /\ Taken' = {}
    BY <1>5, <2>4 DEF LoadPages, Held, Taken, test_bit, callers
  <2> QED BY <2>1, <2>2, <2>3, <2>5 DEF Accounting
<1> QED BY <1>1, <1>3, <1>4, <1>5

\* What alloc_page does to the books: the page it returns was free, and is
\* the only one whose bit changes.
LEMMA AllocEffect ==
  ASSUME IInv, NEW h \in Handles, AllocPage(h)
  PROVE  \E a \in Pages \ Taken :
           /\ tmp' = [tmp EXCEPT ![h] = a]
           /\ Taken' = Taken \cup {a}
           /\ Pages' = Pages
           /\ Held' = Held \cup {a}
           /\ dirty' = dirty \cup {a}
<1> USE DEF IInv
<1>1. PICK index \in 0..(total_pages - 1) :
        /\ ~test_bit(index)
        /\ bitmap' = bitmap \cup {Bit(index)}
        /\ tmp' = [tmp EXCEPT ![h] = page_addrs[index]]
        /\ dirty' = dirty \cup {page_addrs[index]}
  BY DEF AllocPage, set_bit
<1> DEFINE a == page_addrs[index]
<1>2. UNCHANGED books /\ pc = "ready" /\ tmp[h] = NULL
  BY DEF AllocPage
<1>3. \A k \in 0..(total_pages - 1) : test_bit(k)' <=> (test_bit(k) \/ k = index)
  <2> TAKE k \in 0..(total_pages - 1)
  <2>1. Bit(k) = Bit(index) => k = index
    BY BitInjective DEF TypeOK
  <2> QED BY <1>1, <2>1 DEF test_bit
<1>4. Pages' = Pages /\ a \in Pages
  BY <1>2 DEF Pages, books
<1>5. a \notin Taken
  <2> SUFFICES ASSUME NEW k \in 0..(total_pages - 1), test_bit(k),
                      page_addrs[k] = a
               PROVE  FALSE
    BY DEF Taken
  <2>1. k = index
    BY <1>2 DEF PagesDistinct
  <2> QED BY <1>1, <2>1
<1>6. Taken' = Taken \cup {a}
  BY <1>2, <1>3 DEF Taken, books
<1>7. a # NULL
  BY <1>2, <1>4, PageNotNull
<1>8. Held' = Held \cup {a}
  <2>1. \A g \in Handles : tmp'[g] = IF g = h THEN a ELSE tmp[g]
    BY <1>1 DEF TypeOK
  <2> QED BY <1>2, <1>7, <2>1 DEF Held
<1> QED BY <1>1, <1>4, <1>5, <1>6, <1>8

\* What free_page(tmp) does to the books: exactly the caller's page comes back.
LEMMA FreeEffect ==
  ASSUME IInv, NEW h \in Handles, FreePage(h)
  PROVE  /\ tmp[h] \in Taken
         /\ tmp' = [tmp EXCEPT ![h] = NULL]
         /\ Taken' = Taken \ {tmp[h]}
         /\ Pages' = Pages
         /\ Held' = Held \ {tmp[h]}
         /\ dirty' = dirty \ {tmp[h]}
<1> USE DEF IInv
<1>1. UNCHANGED <<books, lost>> /\ pc = "ready" /\ tmp[h] # NULL
      /\ tmp' = [tmp EXCEPT ![h] = NULL]
  BY DEF FreePage
<1>2. tmp[h] \in Held /\ tmp[h] \in Taken
  BY <1>1 DEF Held, Accounting
<1>3. \E k \in 0..(total_pages - 1) : page_addrs[k] = tmp[h]
  BY <1>2 DEF Taken
<1>4. PICK index \in 0..(total_pages - 1) :
        /\ page_addrs[index] = tmp[h]
        /\ bitmap' = bitmap \ {Bit(index)}
        /\ dirty' = dirty \ {tmp[h]}
  BY <1>3 DEF FreePage, free_page, clear_bit
<1>5. \A k \in 0..(total_pages - 1) : test_bit(k)' <=> (test_bit(k) /\ k # index)
  <2> TAKE k \in 0..(total_pages - 1)
  <2>1. Bit(k) = Bit(index) => k = index
    BY BitInjective DEF TypeOK
  <2> QED BY <1>4, <2>1 DEF test_bit
<1>6. \A k \in 0..(total_pages - 1) : page_addrs[k] = tmp[h] <=> k = index
  BY <1>1, <1>4 DEF PagesDistinct
<1>7. Taken' = Taken \ {tmp[h]}
  BY <1>1, <1>5, <1>6 DEF Taken, books
<1>8. Pages' = Pages
  BY <1>1 DEF Pages, books
<1>9. Held' = Held \ {tmp[h]}
  <2>1. \A g \in Handles : tmp'[g] = IF g = h THEN NULL ELSE tmp[g]
    BY <1>1 DEF TypeOK
  <2>2. \A g \in Handles : g # h => tmp[g] # tmp[h]
    BY <1>1 DEF NoAliasing
  <2> QED BY <1>1, <2>1, <2>2 DEF Held
<1> QED BY <1>1, <1>2, <1>4, <1>7, <1>8, <1>9

\* What free_page(&tmp) does to the books: nothing, and the page is lost.
LEMMA SlotEffect ==
  ASSUME IInv, NEW h \in Handles, FreeSlot(h)
  PROVE  /\ tmp[h] \in Taken
         /\ tmp' = [tmp EXCEPT ![h] = NULL]
         /\ UNCHANGED <<bitmap, dirty>>
         /\ Taken' = Taken
         /\ Pages' = Pages
         /\ Held' = Held \ {tmp[h]}
         /\ lost' = lost \cup {tmp[h]}
<1> USE DEF IInv
<1>1. UNCHANGED books /\ pc = "ready" /\ tmp[h] # NULL
      /\ tmp' = [tmp EXCEPT ![h] = NULL] /\ lost' = lost \cup {tmp[h]}
  BY DEF FreeSlot
<1>2. tmp[h] \in Taken
  BY <1>1 DEF Held, Accounting
<1>3. ~ \E k \in 0..(total_pages - 1) : page_addrs[k] = StackAddr
  BY <1>1, PageNotNull DEF Pages
<1>4. UNCHANGED <<bitmap, dirty>>
  BY <1>3 DEF FreeSlot, free_page
<1>5. Taken' = Taken /\ Pages' = Pages
  BY <1>1, <1>4 DEF Taken, Pages, books, test_bit
<1>6. Held' = Held \ {tmp[h]}
  <2>1. \A g \in Handles : tmp'[g] = IF g = h THEN NULL ELSE tmp[g]
    BY <1>1 DEF TypeOK
  <2>2. \A g \in Handles : g # h => tmp[g] # tmp[h]
    BY <1>1 DEF NoAliasing
  <2> QED BY <1>1, <2>1, <2>2 DEF Held
<1> QED BY <1>1, <1>2, <1>4, <1>5, <1>6

\* The calls after bitmap_init has returned.
LEMMA CallStep ==
  ASSUME IInv, NEW h \in Handles,
         AllocPage(h) \/ AllocNone(h) \/ FreePage(h) \/ FreeSlot(h)
  PROVE  IInv'
<1> USE DEF IInv
<1>1. pc = "ready" /\ UNCHANGED books
  BY DEF AllocPage, AllocNone, FreePage, FreeSlot
<1>2. PageSource' /\ PagesDistinct' /\ Quiet'
  BY <1>1 DEF PageSource, PagesDistinct, Quiet, books
<1>3. Pages \subseteq Nat
  <2> SUFFICES ASSUME NEW k \in 0..(total_pages - 1) PROVE page_addrs[k] \in Nat
    BY DEF Pages
  <2>1. k \in 0..(MAX_PAGES - 1)
    BY MaxPagesAssumption DEF TypeOK
  <2> QED BY <2>1 DEF TypeOK
<1>4. CASE AllocPage(h)
  <2>1. PICK a \in Pages \ Taken :
           /\ tmp' = [tmp EXCEPT ![h] = a]
           /\ Taken' = Taken \cup {a}
           /\ Held' = Held \cup {a}
           /\ dirty' = dirty \cup {a}
    BY <1>4, AllocEffect
  <2>2. UNCHANGED lost /\ refused' = FALSE
    BY <1>4 DEF AllocPage
  <2>3. bitmap' \subseteq Nat \X (0..7)
    <3>1. PICK index \in 0..(total_pages - 1) : bitmap' = bitmap \cup {Bit(index)}
      BY <1>4 DEF AllocPage, set_bit
    <3>2. Bit(index) \in Nat \X (0..7)
      <4>1. index \in Nat
        BY DEF TypeOK
      <4> QED BY <4>1, BitType
    <3> QED BY <3>1, <3>2 DEF TypeOK
  <2>4. TypeOK'
    BY <1>1, <1>3, <2>1, <2>2, <2>3 DEF TypeOK, books
  <2>5. a \notin Held /\ a \notin lost
    BY <1>1, <2>1 DEF Accounting
  <2>6. NoAliasing'
    <3>1. \A g \in Handles : tmp'[g] = IF g = h THEN a ELSE tmp[g]
      BY <2>1 DEF TypeOK
    <3>2. a # NULL
      BY <1>1, <2>1, PageNotNull
    <3>3. \A g \in Handles : tmp[g] # a
      BY <2>5, <3>2 DEF Held
    <3> QED BY <3>1, <3>2, <3>3 DEF NoAliasing
  <2>7. Accounting' /\ Books'
    BY <1>1, <2>1, <2>2, <2>5 DEF Accounting, Books, books
  <2> QED BY <1>2, <2>4, <2>6, <2>7
<1>5. CASE AllocNone(h)
  <2>1. UNCHANGED <<bitmap, tmp, lost, dirty>> /\ refused' = TRUE
    BY <1>5 DEF AllocNone
  <2>2. TypeOK'
    BY <1>1, <2>1 DEF TypeOK, books
  <2>3. NoAliasing' /\ Accounting' /\ Books'
    BY <1>1, <2>1 DEF NoAliasing, Accounting, Books, Held, Taken, test_bit, books
  <2> QED BY <1>2, <2>2, <2>3
<1>6. ASSUME FreePage(h) \/ FreeSlot(h), TypeOK'
      PROVE  NoAliasing'
  <2>1. tmp' = [tmp EXCEPT ![h] = NULL]
    BY <1>6 DEF FreePage, FreeSlot
  <2>2. \A g \in Handles : tmp'[g] = IF g = h THEN NULL ELSE tmp[g]
    BY <2>1 DEF TypeOK
  <2> QED BY <2>2 DEF NoAliasing
<1>7. CASE FreePage(h)
  <2>1. /\ tmp[h] \in Taken
        /\ tmp' = [tmp EXCEPT ![h] = NULL]
        /\ Taken' = Taken \ {tmp[h]}
        /\ Held' = Held \ {tmp[h]}
        /\ dirty' = dirty \ {tmp[h]}
    BY <1>7, FreeEffect
  <2>2. UNCHANGED <<lost, refused>>
    BY <1>7 DEF FreePage
  <2>3. bitmap' \subseteq bitmap
    BY <1>7 DEF FreePage, free_page, clear_bit
  <2>4. TypeOK'
    BY <1>1, <2>1, <2>2, <2>3 DEF TypeOK, books, NULL
  <2>5. tmp[h] \in Held
    BY <1>7 DEF FreePage, Held
  <2>6. Accounting' /\ Books'
    BY <1>1, <2>1, <2>2, <2>5 DEF Accounting, Books, books
  <2> QED BY <1>2, <1>6, <1>7, <2>4, <2>6
<1>8. CASE FreeSlot(h)
  <2>1. /\ tmp[h] \in Taken
        /\ tmp' = [tmp EXCEPT ![h] = NULL]
        /\ UNCHANGED <<bitmap, dirty>>
        /\ Taken' = Taken
        /\ Held' = Held \ {tmp[h]}
        /\ lost' = lost \cup {tmp[h]}
    BY <1>8, SlotEffect
  <2>2. UNCHANGED refused
    BY <1>8 DEF FreeSlot
  <2>3. tmp[h] \in Nat
    BY DEF TypeOK
  <2>4. TypeOK'
    BY <1>1, <2>1, <2>2, <2>3 DEF TypeOK, books, NULL
  <2>5. tmp[h] \in Held
    BY <1>8 DEF FreeSlot, Held
  <2>6. Accounting' /\ Books'
    BY <1>1, <2>1, <2>5 DEF Accounting, Books, books
  <2> QED BY <1>2, <1>6, <1>8, <2>4, <2>6
<1> QED BY <1>4, <1>5, <1>7, <1>8

----------------------------------------------------------------------------
\* The inductive invariant: bitmap_init, alloc_page and free_page, called in
\* any order the kernel can call them, keep the allocator's books.
THEOREM Invariance == Spec => []IInv
<1>1. Init => IInv
  BY InitIInv
<1>2. IInv /\ [Next]_vars => IInv'
  <2> SUFFICES ASSUME IInv, [Next]_vars PROVE IInv'
    OBVIOUS
  <2>1. CASE ScanUsable
    BY <2>1, ScanUsableStep
  <2>2. CASE BitmapInit \/ EndUsable \/ ScanReserved \/ LoadPages
    BY <2>2, BootStep
  <2>3. ASSUME NEW h \in Handles,
               AllocPage(h) \/ AllocNone(h) \/ FreePage(h) \/ FreeSlot(h)
        PROVE  IInv'
    BY <2>3, CallStep
  <2>4. CASE UNCHANGED vars
    BY <2>4 DEF vars, IInv, TypeOK, PageSource, PagesDistinct, Quiet,
                NoAliasing, Accounting, Books, Held, Taken, test_bit
  <2> QED BY <2>1, <2>2, <2>3, <2>4 DEF Next
<1> QED BY <1>1, <1>2, PTL DEF Spec

\* Every variable of pmm.c keeps its type; total_pages never exceeds the
\* capacity of page_addrs.
THEOREM TypeCorrect == Spec => []TypeOK
<1>1. IInv => TypeOK
  BY DEF IInv
<1> QED BY <1>1, Invariance, PTL

\* Whatever memory map is reported, every page bitmap_init records lies
\* inside a usable region, and no page is recorded twice.
THEOREM PagesInRam == Spec => []PagesSound
<1>1. IInv => PagesSound
  BY DEF IInv, PageSource, PagesInUsableRam, PagesSound
<1> QED BY <1>1, Invariance, PTL

\* alloc_page never gives a page to two callers, and the set bits are the
\* pages held and the pages lost, no more and no less.
THEOREM Ownership == Spec => []PagesOwned
<1>1. IInv => PagesOwned
  BY DEF IInv, PagesOwned
<1> QED BY <1>1, Invariance, PTL

\* alloc_page hands out no page that still holds an earlier owner's bytes.
THEOREM NeverStale == Spec => []NoStaleData
<1>1. IInv => NoStaleData
  <2> SUFFICES ASSUME IInv, pc = "ready", NEW k \in 0..(total_pages - 1),
                      ~test_bit(k), page_addrs[k] \in dirty
               PROVE  FALSE
    BY DEF NoStaleData
  <2>1. page_addrs[k] \in Taken
    BY DEF IInv, Books, Accounting
  <2>2. PICK n \in 0..(total_pages - 1) :
          test_bit(n) /\ page_addrs[n] = page_addrs[k]
    BY <2>1 DEF Taken
  <2>3. n = k
    BY <2>2 DEF IInv, PagesDistinct
  <2> QED BY <2>2, <2>3
<1> QED BY <1>1, Invariance, PTL

\* alloc_page fails only when every page is held or lost.
THEOREM RefusalSound == Spec => RefusedOnlyWhenExhausted
<1>1. IInv /\ [Next]_vars => (refused' /\ ~refused => Pages = Held \cup lost)
  <2> SUFFICES ASSUME IInv, [Next]_vars, refused', ~refused
               PROVE  Pages = Held \cup lost
    OBVIOUS
  <2>1. PICK h \in Handles : AllocNone(h)
    <3>1. ~UNCHANGED refused
      BY DEF IInv, TypeOK
    <3> QED BY <3>1 DEF Next, vars, callers, BitmapInit, ScanUsable, EndUsable,
                ScanReserved, LoadPages, AllocPage, FreePage, FreeSlot
  <2>2. Pages = Taken /\ pc = "ready"
    BY <2>1 DEF AllocNone, Pages, Taken
  <2> QED BY <2>2 DEF IInv, Accounting
<1> QED BY <1>1, Invariance, PTL DEF Spec, RefusedOnlyWhenExhausted

\* The bitmap allocator implements the abstract one: the boot steps and a
\* refused request leave the abstract state alone, the end of bitmap_init
\* publishes the pages, alloc_page and free_page move one page.
THEOREM Refinement == Spec => ImplementsPageAllocator
<1>1. Init => PA!Init
  BY DEF Init, PA!Init
<1>2. IInv /\ IInv' /\ [Next]_vars => [PA!Next]_(PA!vars)
  <2> SUFFICES ASSUME IInv, IInv', [Next]_vars PROVE [PA!Next]_(PA!vars)
    OBVIOUS
  <2>1. CASE BitmapInit \/ ScanUsable \/ EndUsable \/ ScanReserved
    BY <2>1 DEF BitmapInit, ScanUsable, EndUsable, ScanReserved, callers, PA!vars
  <2>2. CASE LoadPages
    <3>1. NULL \notin (Pages \ Taken)'
      <4>1. NULL \notin Pages
        BY <2>2, PageNotNull DEF IInv, LoadPages
      <4>2. Pages' = Pages
        BY <2>2 DEF LoadPages, Pages
      <4> QED BY <4>1, <4>2
    <3> QED BY <2>2, <3>1 DEF LoadPages, callers, PA!Next, PA!Publish
  <2>3. ASSUME NEW h \in Handles, AllocPage(h) PROVE PA!Next
    <3>1. PICK a \in Pages \ Taken :
             /\ tmp' = [tmp EXCEPT ![h] = a]
             /\ Taken' = Taken \cup {a}
             /\ Pages' = Pages
      BY <2>3, AllocEffect
    <3>2. pc = "ready" /\ pc' = "ready" /\ tmp[h] = NULL
      BY <2>3 DEF AllocPage, books
    <3> QED BY <3>1, <3>2 DEF PA!Next, PA!Acquire
  <2>4. ASSUME NEW h \in Handles, AllocNone(h) PROVE UNCHANGED PA!vars
    BY <2>4 DEF AllocNone, PA!vars, Pages, Taken, test_bit, books
  <2>5. ASSUME NEW h \in Handles, FreePage(h) PROVE PA!Next
    <3>1. /\ tmp[h] \in Taken
          /\ tmp' = [tmp EXCEPT ![h] = NULL]
          /\ Taken' = Taken \ {tmp[h]}
          /\ Pages' = Pages
      BY <2>5, FreeEffect
    <3>2. pc = "ready" /\ pc' = "ready" /\ tmp[h] # NULL
      BY <2>5 DEF FreePage, books
    <3>3. tmp[h] \in Pages
      BY <3>1 DEF Taken, Pages
    <3>4. (Pages \ Taken)' = (Pages \ Taken) \cup {tmp[h]}
      BY <3>1, <3>3
    <3> QED BY <3>1, <3>2, <3>4 DEF PA!Next, PA!Release
  <2>6. ASSUME NEW h \in Handles, FreeSlot(h) PROVE PA!Next
    <3>1. Taken' = Taken /\ Pages' = Pages /\ tmp' = [tmp EXCEPT ![h] = NULL]
      BY <2>6, SlotEffect
    <3>2. pc = "ready" /\ pc' = "ready" /\ tmp[h] # NULL
      BY <2>6 DEF FreeSlot, books
    <3> QED BY <3>1, <3>2 DEF PA!Next, PA!Forget
  <2>7. CASE UNCHANGED vars
    BY <2>7 DEF vars, PA!vars, Pages, Taken, test_bit
  <2> QED BY <2>1, <2>2, <2>3, <2>4, <2>5, <2>6, <2>7 DEF Next
<1> QED BY <1>1, <1>2, Invariance, PTL DEF Spec, ImplementsPageAllocator, PA!Spec

----------------------------------------------------------------------------
(***************************************************************************)
(* Completeness of the scan.                                               *)
(***************************************************************************)
\* The pages that fit region e.
PagesOf(e) ==
  {n * PAGE_SIZE : n \in {m \in 0..(RegionEnd(e) \div PAGE_SIZE) :
                            e.base <= m * PAGE_SIZE /\ (m + 1) * PAGE_SIZE <= RegionEnd(e)}}

\* While there is room, the regions that were scanned are complete.
CompleteSoFar ==
  /\ pc = "start" => i = 1
  /\ pc # "start" /\ total_pages < MAX_PAGES =>
       \A j \in 1..Len(memmap) :
         memmap[j].usable /\ (pc = "usable" => j < i) => PagesOf(memmap[j]) \subseteq Pages

\* The loop over a region reaches every page that fits it: rounding the start
\* up and the end down skips none, whatever their alignment.
LEMMA LoopReaches ==
  ASSUME NEW e \in MemMapEntry, e.usable, NEW addr \in PagesOf(e)
  PROVE  \E n \in 0..(PageCount(e) - 1) : addr = PageAddr(e, n)
<1> DEFINE S == PageStart(e)
           E == PageEnd(e)
<1>1. e.base \in Nat /\ RegionEnd(e) \in Nat
  BY EntryBounds
<1>2. PICK m \in Nat : addr = m * 4096 /\ e.base <= addr /\ addr + 4096 <= RegionEnd(e)
  BY <1>1 DEF PagesOf, PAGE_SIZE
<1>3. S \in Nat /\ S % 4096 = 0 /\ S <= addr
  BY <1>1, <1>2 DEF PageStart, AlignUp, AlignDown, PAGE_SIZE
<1>4. E \in Nat /\ E % 4096 = 0 /\ addr + 4096 <= E
  BY <1>1, <1>2 DEF PageEnd, AlignDown, PAGE_SIZE
<1>5. PageCount(e) = (E - S) \div 4096
  BY <1>2, <1>3, <1>4 DEF PageCount, PAGE_SIZE
<1>6. \A n : PageAddr(e, n) = S + n * 4096
  BY DEF PageAddr, PAGE_SIZE
<1> HIDE DEF S, E
<1> DEFINE n == (addr - S) \div 4096
<1>7. addr = S + n * 4096 /\ n \in 0..(((E - S) \div 4096) - 1)
  BY <1>2, <1>3, <1>4
<1> QED
  BY <1>5, <1>6, <1>7

\* One entry of the first loop adds its pages and keeps those before it.
LEMMA ScanIsComplete ==
  ASSUME IInv, CompleteSoFar, ScanUsable
  PROVE  CompleteSoFar'
<1> SUFFICES ASSUME total_pages' < MAX_PAGES,
                    NEW j \in 1..Len(memmap), memmap[j].usable, j < i + 1
             PROVE  PagesOf(memmap[j]) \subseteq Pages'
  BY DEF CompleteSoFar, ScanUsable, callers
<1> DEFINE e == memmap[i]
<1>1. /\ pc = "usable" /\ i \in 1..Len(memmap) /\ memmap[j] \in MemMapEntry
      /\ e \in MemMapEntry /\ total_pages \in 0..MAX_PAGES
      /\ DOMAIN page_addrs = 0..(MAX_PAGES - 1)
  <2>1. memmap \in Seq(MemMapEntry)
    BY MemMapFacts DEF IInv, TypeOK
  <2> QED
    BY <2>1, MemMapFacts DEF ScanUsable, IInv, TypeOK
<1>2. PageCount(e) \in Nat
  BY <1>1, PageCountType
<1>3. /\ total_pages' = total_pages + PageCount(e)
      /\ page_addrs' = [k \in DOMAIN page_addrs |->
              IF k \in total_pages..(total_pages' - 1) THEN PageAddr(e, k - total_pages)
              ELSE page_addrs[k]]
  BY <1>1, <1>2, MaxPagesAssumption DEF ScanUsable, LowerOf
<1> HIDE DEF e
<1>4. \A k \in 0..(total_pages - 1) : page_addrs'[k] = page_addrs[k] /\ k \in 0..(total_pages' - 1)
  BY <1>1, <1>2, <1>3, MaxPagesAssumption
<1>5. Pages \subseteq Pages'
  BY <1>4 DEF Pages
<1>6. CASE j < i
  <2>1. total_pages < MAX_PAGES
    BY <1>1, <1>2, <1>3, MaxPagesAssumption
  <2> QED
    BY <1>1, <1>5, <1>6, <2>1 DEF CompleteSoFar
<1>7. CASE j = i
  <2> SUFFICES ASSUME NEW addr \in PagesOf(e) PROVE addr \in Pages'
    BY <1>7 DEF e
  <2>1. PICK n \in 0..(PageCount(e) - 1) : addr = PageAddr(e, n)
    BY <1>1, <1>7, LoopReaches DEF e
  <2>2. /\ total_pages + n \in total_pages..(total_pages' - 1)
        /\ total_pages + n \in 0..(MAX_PAGES - 1) /\ total_pages + n \in 0..(total_pages' - 1)
        /\ (total_pages + n) - total_pages = n
    BY <1>1, <1>2, <1>3, MaxPagesAssumption
  <2>3. page_addrs'[total_pages + n] = addr
    BY <1>1, <1>3, <2>1, <2>2
  <2> QED
    BY <2>2, <2>3 DEF Pages
<1> QED
  BY <1>1, <1>6, <1>7

\* Property ScanComplete: bitmap_init forgets no page it has room for.
THEOREM Complete == Spec => []ScanComplete
<1>1. Init => CompleteSoFar
  BY DEF Init, CompleteSoFar
<1>2. IInv /\ CompleteSoFar /\ [Next]_vars => CompleteSoFar'
  <2> SUFFICES ASSUME IInv, CompleteSoFar, [Next]_vars PROVE CompleteSoFar'
    OBVIOUS
  <2>1. CASE BitmapInit
    BY <2>1 DEF BitmapInit, CompleteSoFar
  <2>2. CASE ScanUsable
    BY <2>2, ScanIsComplete
  <2>3. CASE EndUsable
    <3>1. Len(memmap) \in Nat /\ i \in Nat
      BY MemMapFacts DEF IInv, TypeOK
    <3>2. /\ memmap' = memmap /\ total_pages' = total_pages /\ Pages' = Pages
          /\ pc = "usable" /\ pc' = "reserved" /\ i > Len(memmap)
      BY <2>3 DEF EndUsable, Pages
    <3> QED
      BY <3>1, <3>2 DEF CompleteSoFar
  <2>4. CASE ScanReserved
    BY <2>4, ScanReservedIdle DEF ScanReserved, callers, CompleteSoFar, Pages
  <2>5. CASE LoadPages
    BY <2>5 DEF LoadPages, CompleteSoFar, Pages
  <2>6. ASSUME NEW h \in Handles,
               AllocPage(h) \/ AllocNone(h) \/ FreePage(h) \/ FreeSlot(h)
        PROVE  CompleteSoFar'
    <3>1. UNCHANGED books
      BY <2>6 DEF AllocPage, AllocNone, FreePage, FreeSlot
    <3> QED
      BY <3>1 DEF books, CompleteSoFar, Pages
  <2>7. CASE UNCHANGED vars
    BY <2>7 DEF vars, CompleteSoFar, Pages
  <2> QED
    BY <2>1, <2>2, <2>3, <2>4, <2>5, <2>6, <2>7 DEF Next
<1>3. CompleteSoFar => ScanComplete
  BY DEF CompleteSoFar, ScanComplete, PagesOf
<1> QED
  BY <1>1, <1>2, <1>3, Invariance, PTL DEF Spec
============================================================================
