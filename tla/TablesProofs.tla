---------------------------- MODULE TablesProofs ----------------------------
(***************************************************************************)
(* Proofs about UacpiTables and KernelBoot, for any memory, any firmware,  *)
(* any host and any finite set of callers.  An API call threads a record   *)
(* through the operators of the model: the lemmas say, operator by         *)
(* operator, what becomes of the tables and of the mappings in it.         *)
(***************************************************************************)
EXTENDS KernelBoot, WellFoundedInduction, FiniteSetTheorems, TLAPS

\* A set of naturals has a least element.
LEMMA LeastExists ==
    ASSUME NEW T \in SUBSET Nat, T # {}
    PROVE  \E x \in T : \A y \in T : x <= y
<1>1. PICK x \in T : \A y \in T : <<y, x>> \notin OpToRel(<, Nat)
  BY NatLessThanWellFounded, WFMin
<1>2. \A y \in T : ~(y < x)
  BY <1>1 DEF OpToRel
<1> QED
  BY <1>2

(***************************************************************************)
(* The record of an API call.                                              *)
(***************************************************************************)
Setting ==
  /\ build \in DOMAIN Builds
  /\ handler \in {NoHandler} \cup Builds[build].handlers

Fields == {"tables", "cap", "home", "maps", "is_rev1", "fadt", "early",
           "flags", "ret", "open", "out", "calls", "plan"}

EntryFine(e) ==
  /\ e.refs <= MaxRef
  /\ e.invalid => e.refs = 0
  /\ ~Physical(e.origin) => e.ptr # NULL

BackedIn(s) ==
  /\ Len(s.tables) <= InlineCap + s.cap
  /\ s.cap > 0 => s.home = IF s.early THEN "buffer" ELSE "heap"

IsCall(s) ==
  /\ DOMAIN s = Fields
  /\ s.tables \in Seq(Entry) /\ s.cap \in Nat
  /\ s.maps \subseteq Mapping /\ IsFiniteSet(s.maps)
  /\ s.fadt \in Addrs \cup {NULL} /\ s.calls \in Nat
  /\ s.open \in Seq(Nat)
  /\ \A k \in DOMAIN s.tables : EntryFine(s.tables[k])
  /\ BackedIn(s)

\* What no operator changes.
Frame(s, r) ==
  /\ r.flags = s.flags /\ r.early = s.early /\ r.plan = s.plan
  /\ r.calls >= s.calls

\* What a mapping leaves alone.
Still(s, r) ==
  /\ r.tables = s.tables /\ r.cap = s.cap /\ r.home = s.home
  /\ r.out = s.out /\ r.fadt = s.fadt

\* One of the host calls so far was not to fail.
Served(r) == \E n \in 1..r.calls : n \notin r.plan

NewMapping(s, r, v, addr) ==
  /\ v \in Nat \ {NULL} /\ \A m \in s.maps : m.va # v
  /\ r.open = <<v>> \o s.open
  /\ r.maps = s.maps \cup {[va |-> v, addr |-> addr]}
  /\ Served(r)

\* r has at most one mapping more than s.
Looked(s, r) ==
  /\ IsCall(r) /\ Frame(s, r) /\ Still(s, r)
  /\ \/ r.open = s.open /\ r.maps = s.maps
     \/ \E v, addr \in Nat : NewMapping(s, r, v, addr)

\* r differs from s in its status and in the calls made.
Touched(s, r) ==
  /\ IsCall(r) /\ Frame(s, r) /\ Still(s, r)
  /\ r.open = s.open /\ r.maps = s.maps

-----------------------------------------------------------------------------
\* The tables of a record, and the calls made, can be counted.
LEMMA TablesLength ==
    ASSUME NEW s, IsCall(s)
    PROVE  Len(s.tables) \in Nat /\ s.calls \in Nat
<1>1. s.tables \in Seq(Entry) /\ s.calls \in Nat
  BY DEF IsCall
<1> QED
  BY <1>1

\* There is always an address that nothing is mapped at.
LEMMA FreshFound ==
    ASSUME NEW live, IsFiniteSet(live)
    PROVE  FreshVa(live) \in Nat \ {NULL} /\ \A m \in live : m.va # FreshVa(live)
<1> DEFINE n == Cardinality(live)
           vas == {m.va : m \in live}
<1>1. n \in Nat
  BY FS_CardinalityType
<1>2. \E v \in 1..(n + 1) : v \notin vas
  <2> SUFFICES ASSUME 1..(n + 1) \subseteq vas PROVE FALSE
    OBVIOUS
  <2>1. IsFiniteSet(vas) /\ Cardinality(vas) <= n
    <3> DEFINE f == [m \in live |-> m.va]
    <3>1. f \in Surjection(live, vas)
      BY DEF Surjection
    <3> QED
      BY <3>1, FS_Surjection
  <2>2. IsFiniteSet(1..(n + 1)) /\ Cardinality(1..(n + 1)) = n + 1
    BY <1>1, FS_Interval
  <2>3. Cardinality(1..(n + 1)) <= Cardinality(vas)
    BY <2>1, FS_Subset
  <2>4. Cardinality(vas) \in Nat
    BY <2>1, FS_CardinalityType
  <2> QED
    BY <1>1, <2>1, <2>2, <2>3, <2>4
<1>3. \E v \in 1..(n + 1) : \A m \in live : m.va # v
  BY <1>2
<1>4. FreshVa(live) \in 1..(n + 1) /\ \A m \in live : m.va # FreshVa(live)
  BY <1>3 DEF FreshVa
<1> QED
  BY <1>1, <1>4 DEF NULL

\* uacpi_kernel_map opens one mapping, or fails and says so.
LEMMA MapEffect ==
    ASSUME NEW s, IsCall(s), NEW addr \in Nat,
           NEW r, r = uacpi_kernel_map(s, addr)
    PROVE  /\ IsCall(r) /\ Frame(s, r) /\ Still(s, r)
           /\ Ok(r) => Ok(s) /\ \E v \in Nat : NewMapping(s, r, v, addr)
           /\ ~Ok(r) => r.open = s.open /\ r.maps = s.maps
           /\ ~Ok(r) /\ Ok(s) => r.ret = "MAPPING_FAILED"
<1> DEFINE v == FreshVa(s.maps)
<1>1. CASE ~Ok(s)
  <2>1. r = s
    BY <1>1 DEF uacpi_kernel_map
  <2> QED
    BY <1>1, <2>1 DEF Frame, Still, IsCall
<1>2. CASE Ok(s) /\ HostFails(s)
  <2>1. r = [s EXCEPT !.calls = @ + 1, !.ret = "MAPPING_FAILED"]
    BY <1>2 DEF uacpi_kernel_map
  <2>2. /\ r.tables = s.tables /\ r.cap = s.cap /\ r.home = s.home
        /\ r.maps = s.maps /\ r.fadt = s.fadt /\ r.early = s.early
        /\ r.flags = s.flags /\ r.open = s.open /\ r.out = s.out
        /\ r.plan = s.plan /\ r.calls = s.calls + 1
        /\ r.ret = "MAPPING_FAILED" /\ DOMAIN r = Fields
    BY <2>1 DEF IsCall, Fields
  <2> QED
    BY <1>2, <2>2 DEF Frame, Still, IsCall, Ok, BackedIn
<1>3. CASE Ok(s) /\ ~HostFails(s)
  <2>1. r = [s EXCEPT !.calls = @ + 1, !.open = <<v>> \o @,
                      !.maps = @ \cup {[va |-> v, addr |-> addr]}]
    BY <1>3 DEF uacpi_kernel_map
  <2>2. /\ r.tables = s.tables /\ r.cap = s.cap /\ r.home = s.home
        /\ r.fadt = s.fadt /\ r.early = s.early /\ r.ret = s.ret
        /\ r.flags = s.flags /\ r.out = s.out /\ r.plan = s.plan
        /\ r.calls = s.calls + 1 /\ r.open = <<v>> \o s.open
        /\ r.maps = s.maps \cup {[va |-> v, addr |-> addr]}
        /\ DOMAIN r = Fields
    BY <2>1 DEF IsCall, Fields
  <2>3. v \in Nat \ {NULL} /\ \A m \in s.maps : m.va # v
    BY FreshFound DEF IsCall
  <2>4. IsFiniteSet(s.maps \cup {[va |-> v, addr |-> addr]})
    BY FS_AddElement DEF IsCall
  <2>5. r.calls \in 1..r.calls /\ r.calls \notin r.plan
    BY <1>3, <2>2 DEF IsCall, HostFails
  <2> HIDE DEF v
  <2>6. r.maps \subseteq Mapping /\ r.open \in Seq(Nat)
    BY <2>2, <2>3 DEF IsCall, Mapping
  <2>7. IsCall(r) /\ Frame(s, r) /\ Still(s, r)
    BY <2>2, <2>4, <2>6 DEF Frame, Still, IsCall, BackedIn
  <2>8. NewMapping(s, r, v, addr)
    BY <2>2, <2>3, <2>5 DEF NewMapping, Served
  <2> QED
    BY <1>3, <2>2, <2>3, <2>7, <2>8 DEF Ok
<1> QED
  BY <1>1, <1>2, <1>3

\* A check changes the status at most, and only for the worse.
Judged(s, r) ==
  /\ IsCall(r) /\ Frame(s, r) /\ Still(s, r)
  /\ r.open = s.open /\ r.maps = s.maps /\ r.calls = s.calls
  /\ Ok(r) => Ok(s)

\* A status of its own changes nothing else.
LEMMA FailEffect ==
    ASSUME NEW s, IsCall(s), NEW status, NEW r, r = Fail(s, status)
    PROVE  /\ IsCall(r) /\ Frame(s, r) /\ Still(s, r) /\ r.ret = status
           /\ r.open = s.open /\ r.maps = s.maps /\ r.calls = s.calls
<1>1. /\ r.tables = s.tables /\ r.cap = s.cap /\ r.home = s.home
      /\ r.maps = s.maps /\ r.fadt = s.fadt /\ r.early = s.early
      /\ r.flags = s.flags /\ r.open = s.open /\ r.out = s.out
      /\ r.plan = s.plan /\ r.calls = s.calls
      /\ r.ret = status /\ DOMAIN r = Fields
  BY DEF IsCall, Fields, Fail
<1> QED
  BY <1>1 DEF Frame, Still, IsCall, BackedIn

\* uacpi_verify_table_checksum lets a bad table pass only when that is no
\* error.
LEMMA ChecksumEffect ==
    ASSUME NEW s, IsCall(s), NEW good,
           NEW r, r = uacpi_verify_table_checksum(s, good)
    PROVE  /\ Judged(s, r)
           /\ Ok(r) /\ "BAD_CSUM_FATAL" \in r.flags => good
           /\ r = s \/ r.ret = "BAD_CHECKSUM"
<1>1. CASE r = s
  BY <1>1 DEF Judged, Frame, Still, IsCall, uacpi_verify_table_checksum, Fail, Ok
<1>2. CASE r # s
  <2>1. r = Fail(s, "BAD_CHECKSUM") /\ Ok(s)
    BY <1>2 DEF uacpi_verify_table_checksum
  <2> QED
    BY <2>1, FailEffect DEF Judged, Ok
<1> QED
  BY <1>1, <1>2

\* A check of the signature is a verdict only.
LEMMA SignatureEffect ==
    ASSUME NEW s, IsCall(s), NEW sig, NEW expect,
           NEW r, r = uacpi_check_table_signature(s, sig, expect)
    PROVE  Judged(s, r)
<1>1. CASE r = s
  BY <1>1 DEF Judged, Frame, Still, IsCall
<1>2. CASE r # s
  <2>1. r = Fail(s, "INVALID_SIGNATURE") /\ Ok(s)
    BY <1>2 DEF uacpi_check_table_signature
  <2> QED
    BY <2>1, FailEffect DEF Judged, Ok
<1> QED
  BY <1>1, <1>2

-----------------------------------------------------------------------------
\* Nothing was opened, and nothing is unmapped.
LEMMA UnmapNone ==
    ASSUME NEW s, IsCall(s), NEW outer, s.open = outer,
           NEW r, r = Unmapped(s, outer)
    PROVE  /\ IsCall(r) /\ Frame(s, r) /\ Still(s, r) /\ r.open = outer
           /\ r.ret = s.ret /\ r.calls = s.calls /\ r.maps = s.maps
<1> DEFINE inner == {s.open[k] : k \in 1..(Len(s.open) - Len(outer))}
<1>1. r = [s EXCEPT !.open = outer, !.maps = {m \in @ : m.va \notin inner}]
  BY DEF Unmapped
<1>2. /\ r.tables = s.tables /\ r.cap = s.cap /\ r.home = s.home
      /\ r.fadt = s.fadt /\ r.early = s.early /\ r.ret = s.ret
      /\ r.flags = s.flags /\ r.open = outer /\ r.out = s.out
      /\ r.plan = s.plan /\ r.calls = s.calls /\ DOMAIN r = Fields
      /\ r.maps = {m \in s.maps : m.va \notin inner}
  BY <1>1 DEF IsCall, Fields
<1>3. inner = {}
  BY DEF IsCall
<1> QED
  BY <1>2, <1>3 DEF IsCall, BackedIn, Frame, Still

\* The innermost mapping is unmapped.
LEMMA UnmapLast ==
    ASSUME NEW s, IsCall(s), NEW outer \in Seq(Nat), NEW v \in Nat,
           s.open = <<v>> \o outer,
           NEW r, r = Unmapped(s, outer)
    PROVE  /\ IsCall(r) /\ Frame(s, r) /\ Still(s, r) /\ r.open = outer
           /\ r.ret = s.ret /\ r.calls = s.calls
           /\ r.maps = {m \in s.maps : m.va # v}
<1> DEFINE inner == {s.open[k] : k \in 1..(Len(s.open) - Len(outer))}
<1>1. r = [s EXCEPT !.open = outer, !.maps = {m \in @ : m.va \notin inner}]
  BY DEF Unmapped
<1>2. /\ r.tables = s.tables /\ r.cap = s.cap /\ r.home = s.home
      /\ r.fadt = s.fadt /\ r.early = s.early /\ r.ret = s.ret
      /\ r.flags = s.flags /\ r.open = outer /\ r.out = s.out
      /\ r.plan = s.plan /\ r.calls = s.calls /\ DOMAIN r = Fields
      /\ r.maps = {m \in s.maps : m.va \notin inner}
  BY <1>1 DEF IsCall, Fields
<1>3. inner = {v}
  <2>1. Len(s.open) - Len(outer) = 1 /\ s.open[1] = v
    OBVIOUS
  <2> QED
    BY <2>1
<1>4. IsFiniteSet(r.maps)
  BY <1>2, FS_Subset DEF IsCall
<1> HIDE DEF inner
<1>5. IsCall(r)
  BY <1>2, <1>4 DEF IsCall, BackedIn
<1>6. Frame(s, r) /\ Still(s, r)
  BY <1>2 DEF Frame, Still, IsCall
<1> QED
  BY <1>2, <1>3, <1>5, <1>6

\* What was opened last is closed again, and the mappings are as before.
LEMMA CloseLast ==
    ASSUME NEW s, IsCall(s), NEW t, IsCall(t), NEW v, NEW addr,
           NewMapping(s, t, v, addr)
    PROVE  {m \in t.maps : m.va # v} = s.maps
BY DEF NewMapping

\* What was looked at through a mapping is unmapped again.
LEMMA CloseEffect ==
    ASSUME NEW s, IsCall(s), NEW t, IsCall(t),
           \/ t.open = s.open /\ t.maps = s.maps
           \/ \E v, addr \in Nat : NewMapping(s, t, v, addr),
           NEW r, r = Unmapped(t, s.open)
    PROVE  /\ IsCall(r) /\ Frame(t, r) /\ Still(t, r) /\ r.open = s.open
           /\ r.ret = t.ret /\ r.calls = t.calls /\ r.maps = s.maps
<1>1. CASE t.open = s.open /\ t.maps = s.maps
  BY <1>1, UnmapNone
<1>2. ASSUME NEW v \in Nat, NEW addr \in Nat, NewMapping(s, t, v, addr)
      PROVE  /\ IsCall(r) /\ Frame(t, r) /\ Still(t, r) /\ r.open = s.open
             /\ r.ret = t.ret /\ r.calls = t.calls /\ r.maps = s.maps
  <2> DEFINE outer == s.open
  <2>1. outer \in Seq(Nat) /\ t.open = <<v>> \o outer /\ r = Unmapped(t, outer)
    BY <1>2 DEF IsCall, NewMapping
  <2> HIDE DEF outer
  <2>2. /\ IsCall(r) /\ Frame(t, r) /\ Still(t, r) /\ r.open = outer
        /\ r.ret = t.ret /\ r.calls = t.calls
        /\ r.maps = {m \in t.maps : m.va # v}
    BY <2>1, UnmapLast
  <2>3. {m \in t.maps : m.va # v} = s.maps
    BY <1>2, CloseLast
  <2> QED
    BY <2>2, <2>3 DEF outer
<1> QED
  BY <1>1, <1>2

\* get_external_table_header maps the header for a moment.
LEMMA HeaderEffect ==
    ASSUME NEW s, IsCall(s), NEW addr \in Nat,
           NEW r, r = get_external_table_header(s, addr)
    PROVE  Touched(s, r) /\ (Ok(r) => Ok(s))
<1> DEFINE t == uacpi_kernel_map(s, addr)
<1>1. /\ IsCall(t) /\ Frame(s, t) /\ Still(s, t)
      /\ Ok(t) => Ok(s) /\ \E v \in Nat : NewMapping(s, t, v, addr)
      /\ ~Ok(t) => t.open = s.open /\ t.maps = s.maps
  BY MapEffect
<1>2. r = Unmapped(t, s.open)
  BY DEF get_external_table_header
<1> HIDE DEF t
<1>3. /\ IsCall(r) /\ Frame(t, r) /\ Still(t, r) /\ r.open = s.open
      /\ r.ret = t.ret /\ r.calls = t.calls /\ r.maps = s.maps
  BY <1>1, <1>2, CloseEffect
<1>4. Frame(s, r) /\ Still(s, r)
  BY <1>1, <1>3 DEF Frame, Still, IsCall
<1> QED
  BY <1>1, <1>3, <1>4 DEF Touched, Ok

-----------------------------------------------------------------------------
(***************************************************************************)
(* What becomes of the tables.                                             *)
(***************************************************************************)
\* A table that nobody is given keeps its place, its count and its marks; its
\* pointer and its validity may change while it has no reference.
Ungiven(e, f) ==
  /\ f.addr = e.addr /\ f.origin = e.origin /\ f.refs = e.refs
  /\ f.verified = e.verified /\ f.loaded = e.loaded
  /\ f # e => e.refs = 0 /\ Physical(e.origin)

\* The tables but for table j: old ones are not given to anybody, new ones
\* have no reference.
OthersKept(s, r, j) ==
  /\ Len(s.tables) <= Len(r.tables)
  /\ \A k \in 1..Len(s.tables) : k # j => Ungiven(s.tables[k], r.tables[k])
  /\ \A k \in (Len(s.tables) + 1)..Len(r.tables) : k # j => r.tables[k].refs = 0

\* Nobody is given a table.
Grown(s, r) ==
  /\ IsCall(r) /\ Frame(s, r)
  /\ r.open = s.open /\ r.maps = s.maps /\ r.out = s.out
  /\ OthersKept(s, r, 0)

\* Nobody is given a table, twice.
LEMMA GrownTrans ==
    ASSUME NEW s, IsCall(s), NEW t, NEW r, Grown(s, t), Grown(t, r)
    PROVE  Grown(s, r)
<1>1. IsCall(t) /\ IsCall(r)
  BY DEF Grown
<1>2. /\ Len(s.tables) \in Nat /\ Len(t.tables) \in Nat /\ Len(r.tables) \in Nat
      /\ s.calls \in Nat /\ t.calls \in Nat /\ r.calls \in Nat
  BY <1>1, TablesLength
<1>3. Frame(s, r) /\ r.open = s.open /\ r.maps = s.maps /\ r.out = s.out
  BY <1>2 DEF Grown, Frame
<1>4. OthersKept(s, r, 0)
  <2>1. OthersKept(s, t, 0) /\ OthersKept(t, r, 0)
    BY DEF Grown
  <2>2. Len(s.tables) <= Len(r.tables)
    BY <1>2, <2>1 DEF OthersKept
  <2>3. ASSUME NEW k \in 1..Len(s.tables), k # 0
        PROVE  Ungiven(s.tables[k], r.tables[k])
    <3>1. k \in 1..Len(t.tables)
      BY <1>2, <2>1 DEF OthersKept
    <3>2. Ungiven(s.tables[k], t.tables[k]) /\ Ungiven(t.tables[k], r.tables[k])
      BY <2>1, <2>3, <3>1 DEF OthersKept
    <3> QED
      BY <3>2 DEF Ungiven
  <2>4. ASSUME NEW k \in (Len(s.tables) + 1)..Len(r.tables), k # 0
        PROVE  r.tables[k].refs = 0
    <3>1. CASE k \in 1..Len(t.tables)
      <4>1. k \in (Len(s.tables) + 1)..Len(t.tables)
        BY <1>2, <3>1
      <4>2. t.tables[k].refs = 0 /\ Ungiven(t.tables[k], r.tables[k])
        BY <2>1, <2>4, <3>1, <4>1 DEF OthersKept
      <4> QED
        BY <4>2 DEF Ungiven
    <3>2. CASE k \in (Len(t.tables) + 1)..Len(r.tables)
      BY <2>1, <2>4, <3>2 DEF OthersKept
    <3> QED
      BY <1>2, <2>1, <3>1, <3>2 DEF OthersKept
  <2> QED
    BY <2>2, <2>3, <2>4 DEF OthersKept
<1> QED
  BY <1>1, <1>3, <1>4 DEF Grown

\* What only looks, grows nothing.
LEMMA TouchedGrown ==
    ASSUME NEW s, IsCall(s), NEW r, Touched(s, r)
    PROVE  Grown(s, r)
<1>1. Len(s.tables) \in Nat /\ r.tables = s.tables
  BY DEF IsCall, Touched, Still
<1>2. OthersKept(s, r, 0)
  BY <1>1 DEF OthersKept, Ungiven
<1> QED
  BY <1>2 DEF Grown, Touched, Still

\* A verdict leaves the tables and the mappings alone.
LEMMA JudgedTouched ==
    ASSUME NEW s, NEW r, Judged(s, r)
    PROVE  Touched(s, r)
BY DEF Judged, Touched

\* A table is looked at through a mapping, tables are added meanwhile, and the
\* mapping is closed.
LEMMA LookedClosed ==
    ASSUME NEW s, IsCall(s), NEW c, Looked(s, c), NEW g, Grown(c, g),
           NEW r, r = Unmapped(g, s.open)
    PROVE  Grown(s, r) /\ r.ret = g.ret
<1>1. IsCall(c) /\ IsCall(g) /\ g.open = c.open /\ g.maps = c.maps
  BY DEF Looked, Grown
<1>2. \/ g.open = s.open /\ g.maps = s.maps
      \/ \E v, addr \in Nat : NewMapping(s, g, v, addr)
  <2>1. ASSUME NEW v \in Nat, NEW addr \in Nat, NewMapping(s, c, v, addr)
        PROVE  NewMapping(s, g, v, addr)
    <3>1. c.calls \in Nat /\ g.calls \in Nat
      BY <1>1, TablesLength
    <3>2. g.calls >= c.calls /\ g.plan = c.plan
      BY DEF Grown, Frame
    <3>3. PICK n \in 1..c.calls : n \notin c.plan
      BY <2>1 DEF NewMapping, Served
    <3>4. n \in 1..g.calls /\ n \notin g.plan
      BY <3>1, <3>2, <3>3
    <3> QED
      BY <1>1, <2>1, <3>4 DEF NewMapping, Served
  <2> QED
    BY <1>1, <2>1 DEF Looked
<1>3. /\ IsCall(r) /\ Frame(g, r) /\ Still(g, r) /\ r.open = s.open
      /\ r.ret = g.ret /\ r.calls = g.calls /\ r.maps = s.maps
  <2>1. IsCall(g)
    BY <1>1
  <2>2. CASE g.open = s.open /\ g.maps = s.maps
    BY <2>1, <2>2, CloseEffect
  <2>3. CASE \E v, addr \in Nat : NewMapping(s, g, v, addr)
    BY <2>1, <2>3, CloseEffect
  <2> QED
    BY <1>2, <2>2, <2>3
<1>4. Frame(s, r) /\ r.out = s.out
  <2>1. Frame(s, c) /\ Frame(c, g) /\ Frame(g, r)
    BY <1>3 DEF Looked, Grown
  <2>2. s.calls \in Nat /\ c.calls \in Nat /\ g.calls \in Nat /\ r.calls \in Nat
    BY <1>1, <1>3, TablesLength
  <2>3. Frame(s, r)
    BY <2>1, <2>2 DEF Frame
  <2> QED
    BY <1>3, <2>3 DEF Still, Looked, Grown
<1>5. c.tables = s.tables /\ r.tables = g.tables
  BY <1>3 DEF Looked, Still
<1>6. OthersKept(s, r, 0)
  BY <1>5 DEF Grown, OthersKept
<1> QED
  BY <1>3, <1>4, <1>6 DEF Grown
-----------------------------------------------------------------------------
(***************************************************************************)
(* A reference is given.                                                   *)
(***************************************************************************)
ChecksumRight(s, addr) ==
  "BAD_CSUM_FATAL" \in s.flags => Memory[addr].good \/ Memory[addr].sig = "FACS"

\* Entry e was mapped for the first reference to it.
MappedFor(s, r, e) ==
  /\ e.ptr \in Nat \ {NULL} /\ \A m \in s.maps : m.va # e.ptr
  /\ r.maps = s.maps \cup {[va |-> e.ptr, addr |-> e.addr]}
  /\ Served(r)

\* Table j has its first reference: it is a new one, or none had referenced it.
FirstGiven(s, r, j) ==
  /\ IsCall(r) /\ Frame(s, r) /\ r.open = s.open
  /\ j \in 1..Len(r.tables) /\ OthersKept(s, r, j)
  /\ r.tables[j].refs = 1
  /\ j <= Len(s.tables) =>
       /\ s.tables[j].refs = 0
       /\ r.tables[j].addr = s.tables[j].addr
       /\ r.tables[j].origin = s.tables[j].origin
       /\ r.tables[j].loaded = s.tables[j].loaded
  /\ Physical(r.tables[j].origin) =>
       /\ MappedFor(s, r, r.tables[j])
       /\ \/ ChecksumRight(r, r.tables[j].addr)
          \/ j <= Len(s.tables) /\ s.tables[j].verified
  /\ ~Physical(r.tables[j].origin) => r.maps = s.maps

\* Table j has one reference more.
MoreGiven(s, r, j) ==
  /\ IsCall(r) /\ Frame(s, r) /\ r.open = s.open
  /\ j \in 1..Len(s.tables) /\ OthersKept(s, r, j)
  /\ s.tables[j].refs > 0
  /\ r.tables[j] = [s.tables[j] EXCEPT !.refs = NextRef(@)]
  /\ r.maps = s.maps

Given(s, r, j) == FirstGiven(s, r, j) \/ MoreGiven(s, r, j)

\* ... and the caller is told so.
HandleOf(r, j) == [index |-> j, ptr |-> r.tables[j].ptr]

\* An entry is added at the end of the array, if there is room.
LEMMA AllocEffect ==
    ASSUME Setting, NEW s, IsCall(s), Ok(s), NEW e, e \in Entry, EntryFine(e),
           NEW r, r = table_alloc(s, e)
    PROVE  /\ IsCall(r) /\ Frame(s, r) /\ r.open = s.open /\ r.maps = s.maps
           /\ r.out = s.out /\ r.fadt = s.fadt
           /\ IF Ok(r) THEN r.tables = Append(s.tables, e)
                       ELSE r.tables = s.tables
<1>1. InlineCap \in Nat \ {0}
  BY BuildsAssumption DEF Setting, InlineCap
<1>2. Append(s.tables, e) \in Seq(Entry)
      /\ Len(Append(s.tables, e)) = Len(s.tables) + 1
      /\ \A k \in DOMAIN Append(s.tables, e) : EntryFine(Append(s.tables, e)[k])
  BY DEF IsCall
<1>3. CASE ~ArrayFull(s)
  <2>1. r = [s EXCEPT !.tables = Append(@, e)]
    BY <1>3 DEF table_alloc
  <2>2. /\ r.tables = Append(s.tables, e) /\ r.cap = s.cap /\ r.home = s.home
        /\ r.maps = s.maps /\ r.fadt = s.fadt /\ r.early = s.early
        /\ r.flags = s.flags /\ r.open = s.open /\ r.out = s.out
        /\ r.plan = s.plan /\ r.calls = s.calls /\ r.ret = s.ret
        /\ DOMAIN r = Fields
    BY <2>1 DEF IsCall, Fields
  <2>3. Len(s.tables) # InlineCap + s.cap /\ Len(s.tables) <= InlineCap + s.cap
    BY <1>3 DEF IsCall, BackedIn, ArrayFull
  <2>4. Len(s.tables) \in Nat /\ s.cap \in Nat
    BY DEF IsCall
  <2>5. Len(r.tables) <= InlineCap + r.cap
    <3>1. \A a, b, c \in Nat : a # b + c /\ a <= b + c => a + 1 <= b + c
      OBVIOUS
    <3> QED
      BY <1>1, <1>2, <2>2, <2>3, <2>4, <3>1
  <2>6. BackedIn(r)
    BY <2>2, <2>5 DEF IsCall, BackedIn
  <2>7. IsCall(r)
    BY <1>2, <2>2, <2>6 DEF IsCall
  <2> QED
    BY <2>2, <2>7 DEF Frame, IsCall, Ok
<1>4. CASE ArrayFull(s) /\ (s.early \/ Barebones)
  <2>1. r = Fail(s, "OUT_OF_MEMORY")
    BY <1>4 DEF table_alloc
  <2> QED
    BY <2>1, FailEffect DEF Still, Ok
<1>5. CASE ArrayFull(s) /\ ~s.early /\ ~Barebones /\ HostFails(s)
  <2>1. r = [s EXCEPT !.calls = @ + 1, !.ret = "OUT_OF_MEMORY"]
    BY <1>5 DEF table_alloc
  <2>2. /\ r.tables = s.tables /\ r.cap = s.cap /\ r.home = s.home
        /\ r.maps = s.maps /\ r.fadt = s.fadt /\ r.early = s.early
        /\ r.flags = s.flags /\ r.open = s.open /\ r.out = s.out
        /\ r.plan = s.plan /\ r.calls = s.calls + 1
        /\ r.ret = "OUT_OF_MEMORY" /\ DOMAIN r = Fields
    BY <2>1 DEF IsCall, Fields
  <2> QED
    BY <2>2 DEF IsCall, BackedIn, Frame, Ok
<1>6. CASE ArrayFull(s) /\ ~s.early /\ ~Barebones /\ ~HostFails(s)
  <2>1. r = [s EXCEPT !.calls = @ + 1, !.cap = GrownCap(@), !.home = "heap",
                      !.tables = Append(@, e)]
    BY <1>6 DEF table_alloc
  <2>2. /\ r.tables = Append(s.tables, e) /\ r.cap = GrownCap(s.cap)
        /\ r.home = "heap"
        /\ r.maps = s.maps /\ r.fadt = s.fadt /\ r.early = s.early
        /\ r.flags = s.flags /\ r.open = s.open /\ r.out = s.out
        /\ r.plan = s.plan /\ r.calls = s.calls + 1 /\ r.ret = s.ret
        /\ DOMAIN r = Fields
    BY <2>1 DEF IsCall, Fields
  <2>3. GrownCap(s.cap) \in Nat /\ GrownCap(s.cap) > s.cap
    BY <1>1 DEF IsCall, GrownCap
  <2>4. BackedIn(r)
    BY <1>1, <1>2, <1>6, <2>2, <2>3 DEF IsCall, BackedIn, ArrayFull
  <2>5. IsCall(r)
    BY <1>2, <2>2, <2>3, <2>4 DEF IsCall
  <2> QED
    BY <2>2, <2>5 DEF Frame, IsCall, Ok
<1> QED
  BY <1>3, <1>4, <1>5, <1>6

\* Tables nobody was given, and then those nobody but one was given.
LEMMA OthersTrans ==
    ASSUME NEW s, NEW t, NEW r, NEW j \in Nat,
           Len(s.tables) \in Nat, Len(t.tables) \in Nat, Len(r.tables) \in Nat,
           OthersKept(s, t, 0), OthersKept(t, r, j)
    PROVE  OthersKept(s, r, j)
<1> DEFINE n == Len(s.tables)  m == Len(t.tables)  l == Len(r.tables)
<1>1. n \in Nat /\ m \in Nat /\ l \in Nat /\ n <= m /\ m <= l
  BY DEF OthersKept
<1>2. ASSUME NEW k \in 1..n, k # j PROVE Ungiven(s.tables[k], r.tables[k])
  <2>1. Ungiven(s.tables[k], t.tables[k]) /\ Ungiven(t.tables[k], r.tables[k])
    BY <1>1, <1>2 DEF OthersKept
  <2> QED
    BY <2>1 DEF Ungiven
<1>3. ASSUME NEW k \in (n + 1)..l, k # j PROVE r.tables[k].refs = 0
  <2>1. CASE k <= m
    <3>1. t.tables[k].refs = 0
      BY <1>1, <2>1 DEF OthersKept
    <3>2. Ungiven(t.tables[k], r.tables[k])
      BY <1>1, <1>3, <2>1 DEF OthersKept
    <3> QED
      BY <3>1, <3>2 DEF Ungiven
  <2>2. CASE k > m
    BY <1>1, <1>3, <2>2 DEF OthersKept
  <2> QED
    BY <1>1, <2>1, <2>2
<1> QED
  BY <1>1, <1>2, <1>3 DEF OthersKept

\* The caller is given the entry added last.
Handed(s, r, e) ==
  /\ IsCall(r) /\ Frame(s, r) /\ r.open = s.open /\ r.maps = s.maps
  /\ Len(r.tables) > Len(s.tables) /\ OthersKept(s, r, Len(r.tables))
  /\ r.tables[Len(r.tables)] = e
  /\ r.out = HandleOf(r, Len(r.tables))

\* An entry is added: the caller who wants it is handed it, or an error.
LEMMA AddEffect ==
    ASSUME Setting, NEW s, IsCall(s), NEW e, e \in Entry, EntryFine(e),
           NEW want \in BOOLEAN, e.refs = IF want THEN 1 ELSE 0,
           NEW r, r = AddTable(s, e, want)
    PROVE  \/ Grown(s, r) /\ (want => ~Ok(r))
           \/ want /\ Ok(r) /\ Ok(s) /\ Handed(s, r, e)
<1>1. CASE ~Ok(s)
  <2>1. r = s
    BY <1>1 DEF AddTable
  <2> QED
    BY <1>1, <2>1, TouchedGrown DEF Touched, Frame, Still, IsCall
<1>2. CASE Ok(s)
  <2> DEFINE rev == IF Memory[e.addr].sig = "DSDT" THEN ~Memory[e.addr].rev2
                    ELSE s.is_rev1
             q == [s EXCEPT !.is_rev1 = rev]
             a == table_alloc(q, e)
  <2>1. r = HandedOut(a, want)
    BY <1>2 DEF AddTable
  <2>2. /\ q.tables = s.tables /\ q.cap = s.cap /\ q.home = s.home
        /\ q.maps = s.maps /\ q.fadt = s.fadt /\ q.early = s.early
        /\ q.flags = s.flags /\ q.open = s.open /\ q.out = s.out
        /\ q.plan = s.plan /\ q.calls = s.calls /\ q.ret = s.ret
        /\ DOMAIN q = Fields
    BY DEF IsCall, Fields
  <2> HIDE DEF q
  <2>3. IsCall(q) /\ Ok(q) /\ Frame(s, q)
    BY <1>2, <2>2 DEF IsCall, BackedIn, Ok, Frame
  <2>4. /\ IsCall(a) /\ Frame(q, a) /\ a.open = q.open /\ a.maps = q.maps
        /\ a.out = q.out
        /\ IF Ok(a) THEN a.tables = Append(q.tables, e) ELSE a.tables = q.tables
    BY <2>3, AllocEffect
  <2> HIDE DEF a
  <2>5. IsCall(a) /\ Frame(s, a) /\ a.open = s.open /\ a.maps = s.maps
        /\ a.out = s.out
    BY <2>2, <2>4 DEF Frame, IsCall
  <2>6. Len(s.tables) \in Nat
    BY TablesLength
  <2>7. CASE ~Ok(a)
    <3>1. r = a /\ a.tables = s.tables
      BY <2>1, <2>2, <2>4, <2>7 DEF HandedOut
    <3>2. OthersKept(s, r, 0)
      BY <2>6, <3>1 DEF OthersKept, Ungiven
    <3> QED
      BY <2>5, <2>7, <3>1, <3>2 DEF Grown
  <2>8. CASE Ok(a)
    <3>1. a.tables = Append(s.tables, e) /\ Len(a.tables) = Len(s.tables) + 1
          /\ a.tables[Len(a.tables)] = e
          /\ \A k \in 1..Len(s.tables) : a.tables[k] = s.tables[k]
      <4>1. a.tables = Append(s.tables, e)
        BY <2>2, <2>4, <2>8
      <4>2. s.tables \in Seq(Entry)
        BY DEF IsCall
      <4>3. /\ Len(Append(s.tables, e)) = Len(s.tables) + 1
            /\ Append(s.tables, e)[Len(s.tables) + 1] = e
            /\ \A k \in 1..Len(s.tables) : Append(s.tables, e)[k] = s.tables[k]
        BY <4>2
      <4> QED
        BY <4>1, <4>3
    <3>2. CASE ~want
      <4>1. r = a
        BY <2>1, <3>2 DEF HandedOut
      <4>2. OthersKept(s, r, 0)
        BY <2>6, <3>1, <3>2, <4>1 DEF OthersKept, Ungiven
      <4> QED
        BY <2>5, <3>2, <4>1, <4>2 DEF Grown
    <3>3. CASE want
      <4>1. r = [a EXCEPT !.out = HandleOf(a, Len(a.tables))]
        BY <2>1, <2>8, <3>3 DEF HandedOut, HandleOf, Last
      <4>2. /\ r.tables = a.tables /\ r.cap = a.cap /\ r.home = a.home
            /\ r.maps = a.maps /\ r.fadt = a.fadt /\ r.early = a.early
            /\ r.flags = a.flags /\ r.open = a.open
            /\ r.out = HandleOf(a, Len(a.tables))
            /\ r.plan = a.plan /\ r.calls = a.calls /\ r.ret = a.ret
            /\ DOMAIN r = Fields
        BY <2>5, <4>1 DEF IsCall, Fields
      <4>3. IsCall(r) /\ Frame(s, r)
        BY <2>5, <4>2 DEF IsCall, BackedIn, Frame
      <4>4. OthersKept(s, r, Len(r.tables))
        BY <2>6, <3>1, <4>2 DEF OthersKept, Ungiven
      <4>5. Handed(s, r, e)
        BY <2>5, <2>6, <3>1, <4>2, <4>3, <4>4 DEF Handed, HandleOf
      <4> QED
        BY <1>2, <2>8, <3>3, <4>2, <4>5 DEF Ok
    <3> QED
      BY <3>2, <3>3
  <2> QED
    BY <2>7, <2>8
<1> QED
  BY <1>1, <1>2

\* What becomes of a table that is to be installed: nobody is given it, or the
\* caller who wants it, and then its checksum has been looked at.
VerifiedResult(s, r, addr, virt, origin, want) ==
  \/ Grown(s, r) /\ (want => ~Ok(r))
  \/ /\ want /\ Ok(r)
     /\ \E e \in Entry : /\ e.addr = addr /\ e.ptr = virt /\ e.origin = origin
                         /\ e.refs = 1
                         /\ Handed(s, r, e)
     /\ ChecksumRight(r, addr)

\* c is the verdict on the checksum, g what initialize_fadt makes of it, where
\* it comes to that.
LEMMA VerifiedValue ==
    ASSUME Setting, NEW s, IsCall(s), NEW addr \in Addrs, NEW virt \in Nat,
           NEW origin \in Origins, ~Physical(origin) => virt # NULL,
           NEW want \in BOOLEAN,
           NEW m, m = IF virt = NULL THEN uacpi_kernel_map(s, addr) ELSE s,
           NEW c, c = uacpi_verify_table_checksum(m, Memory[addr].good),
           NEW g,
           IF CheckNow(s, Memory[addr].sig, want)
           THEN Grown(c, g) /\ (Ok(g) => Ok(c))
           ELSE g = s,
           NEW r, r = AddTable(Unmapped(g, s.open),
                               NewEntry(s, addr, virt, origin, want), want)
    PROVE  VerifiedResult(s, r, addr, virt, origin, want)
<1> DEFINE e == NewEntry(s, addr, virt, origin, want)
           u == Unmapped(g, s.open)
<1>1. addr \in Nat
  BY MemoryAssumption
<1>2. /\ IsCall(m) /\ Looked(s, m) 
  <2>1. CASE virt = NULL
    <3>1. IsCall(m) /\ Frame(s, m) /\ Still(s, m)
          /\ (Ok(m) => \E v \in Nat : NewMapping(s, m, v, addr))
          /\ (~Ok(m) => m.open = s.open /\ m.maps = s.maps)
      BY <1>1, <2>1, MapEffect
    <3> QED
      BY <1>1, <3>1 DEF Looked
  <2>2. CASE virt # NULL
    BY <2>2 DEF Looked, Frame, Still, IsCall
  <2> QED
    BY <2>1, <2>2
<1>3. Judged(m, c) /\ (Ok(c) /\ "BAD_CSUM_FATAL" \in c.flags => Memory[addr].good)
  BY <1>2, ChecksumEffect
<1>4. Looked(s, c)
  <2>1. IsCall(c) /\ Frame(s, c) /\ Still(s, c)
    BY <1>2, <1>3 DEF Looked, Judged, Frame, Still, IsCall
  <2>2. ASSUME NEW v \in Nat, NEW a \in Nat, NewMapping(s, m, v, a)
        PROVE  NewMapping(s, c, v, a)
    BY <1>2, <1>3, <2>2 DEF NewMapping, Judged, Served, Frame, Looked
  <2> QED
    BY <1>2, <1>3, <2>1, <2>2 DEF Looked, Judged
<1>5. Grown(s, u) /\ u.ret = g.ret
  <2>1. CASE CheckNow(s, Memory[addr].sig, want)
    BY <1>4, <2>1, LookedClosed
  <2>2. CASE ~CheckNow(s, Memory[addr].sig, want)
    <3>1. /\ IsCall(u) /\ Frame(s, u) /\ Still(s, u) /\ u.open = s.open
          /\ u.ret = s.ret /\ u.calls = s.calls /\ u.maps = s.maps
      BY <2>2, UnmapNone
    <3> QED
      BY <2>2, <3>1, TouchedGrown DEF Touched
  <2> QED
    BY <2>1, <2>2
<1>6. /\ e.addr = addr /\ e.ptr = virt /\ e.origin = origin
      /\ e.refs = IF want THEN 1 ELSE 0
      /\ e.verified \in BOOLEAN /\ e.loaded = FALSE /\ e.invalid = FALSE
  BY DEF NewEntry, CheckNow
<1>7. e \in Entry
  BY <1>6 DEF Entry, NewEntry, CheckNow
<1>8. EntryFine(e)
  BY <1>6, BuildsAssumption DEF EntryFine, MaxRef, Setting
<1>9. r = AddTable(u, e, want)
  OBVIOUS
<1> HIDE DEF e, u
<1>10. \/ Grown(u, r) /\ (want => ~Ok(r))
       \/ want /\ Ok(r) /\ Ok(u) /\ Handed(u, r, e)
  BY <1>5, <1>6, <1>7, <1>8, <1>9, AddEffect DEF Grown
<1>11. CASE Grown(u, r) /\ (want => ~Ok(r))
  BY <1>5, <1>11, GrownTrans DEF VerifiedResult
<1>12. CASE want /\ Ok(r) /\ Ok(u) /\ Handed(u, r, e)
  <2>1. IsCall(r) /\ Frame(s, r) /\ r.open = s.open /\ r.maps = s.maps
    <3>1. IsCall(r) /\ Frame(u, r) /\ r.open = u.open /\ r.maps = u.maps
      BY <1>12 DEF Handed
    <3>2. IsCall(u) /\ Frame(s, u) /\ u.open = s.open /\ u.maps = s.maps
      BY <1>5 DEF Grown
    <3>3. s.calls \in Nat /\ u.calls \in Nat /\ r.calls \in Nat
      BY <3>1, <3>2 DEF IsCall
    <3> QED
      BY <3>1, <3>2, <3>3 DEF Frame
  <2>2. Len(s.tables) \in Nat /\ Len(u.tables) \in Nat /\ Len(r.tables) \in Nat
    <3>1. IsCall(u)
      BY <1>5 DEF Grown
    <3> QED
      BY <2>1, <3>1, TablesLength
  <2>3. OthersKept(s, r, Len(r.tables)) /\ Len(r.tables) > Len(s.tables)
    <3>1. OthersKept(s, u, 0)
      BY <1>5 DEF Grown
    <3>2. OthersKept(u, r, Len(r.tables)) /\ Len(r.tables) > Len(u.tables)
      BY <1>12 DEF Handed
    <3>3. OthersKept(s, r, Len(r.tables))
      BY <2>2, <3>1, <3>2, OthersTrans
    <3>4. Len(s.tables) <= Len(u.tables)
      BY <3>1 DEF OthersKept
    <3> QED
      BY <2>2, <3>2, <3>3, <3>4
  <2>4. Handed(s, r, e)
    BY <1>12, <2>1, <2>3 DEF Handed
  <2>5. ChecksumRight(r, addr)
    <3>1. ASSUME Memory[addr].sig # "FACS" PROVE Ok(c) /\ Grown(c, g)
      BY <1>5, <1>12, <3>1 DEF CheckNow, Ok
    <3>2. r.flags = s.flags /\ c.flags = s.flags
      BY <1>4, <2>1 DEF Frame, Looked
    <3> QED
      BY <1>3, <3>1, <3>2 DEF ChecksumRight
  <2> QED
    BY <1>6, <1>7, <1>12, <2>4, <2>5 DEF VerifiedResult
<1> QED
  BY <1>10, <1>11, <1>12

-----------------------------------------------------------------------------
\* The caller has the first reference to table j, and was told where it is.
Received(s, r, j) == FirstGiven(s, r, j) /\ r.out = HandleOf(r, j)

\* A table was installed, or not; who wanted it and has it, has a new one.
Installed(s, r, want) ==
  \/ Grown(s, r)
  \/ want /\ \E j \in Nat : j > Len(s.tables) /\ Received(s, r, j)

\* What Install may answer in install_mapped, the table looked at at virt.
InstallResult(m, i, addr, virt, want) ==
  \/ Grown(m, i) /\ (want => ~Ok(i))
  \/ want /\ ~Ok(i) /\ \E j \in Nat : j > Len(m.tables) /\ Received(m, i, j)
  \/ \E o \in Origins : Physical(o) /\ VerifiedResult(m, i, addr, virt, o, want)

\* A host call served before an operator is served after it.
LEMMA ServedMore ==
    ASSUME NEW s, NEW r, IsCall(s), IsCall(r), Frame(s, r), Served(s)
    PROVE  Served(r)
<1>1. s.calls \in Nat /\ r.calls \in Nat /\ r.calls >= s.calls /\ r.plan = s.plan
  BY DEF IsCall, Frame
<1>2. PICK n \in 1..s.calls : n \notin s.plan
  BY DEF Served
<1>3. n \in 1..r.calls /\ n \notin r.plan
  BY <1>1, <1>2
<1> QED
  BY <1>3 DEF Served

\* What no operator changes, two do not change.
LEMMA FrameTrans ==
    ASSUME NEW s, NEW t, NEW r, IsCall(s), IsCall(t), IsCall(r),
           Frame(s, t), Frame(t, r)
    PROVE  Frame(s, r)
<1>1. s.calls \in Nat /\ t.calls \in Nat /\ r.calls \in Nat
  BY DEF IsCall
<1> QED
  BY <1>1 DEF Frame

\* Looking twice is looking.
LEMMA TouchedTrans ==
    ASSUME NEW s, IsCall(s), NEW t, NEW r, Touched(s, t), Touched(t, r)
    PROVE  Touched(s, r)
<1>1. Frame(s, r)
  BY FrameTrans DEF Touched
<1> QED
  BY <1>1 DEF Touched, Still

\* An error after nobody was given a table.
LEMMA GrownFail ==
    ASSUME NEW s, IsCall(s), NEW t, Grown(s, t), NEW status,
           NEW r, r = Fail(t, status)
    PROVE  Grown(s, r) /\ r.ret = status
<1>1. IsCall(t)
  BY DEF Grown
<1>2. Touched(t, r) /\ r.ret = status
  BY <1>1, FailEffect DEF Touched
<1> QED
  BY <1>1, <1>2, TouchedGrown, GrownTrans

\* An error after the caller was given a new table.
LEMMA ReceivedFail ==
    ASSUME NEW s, IsCall(s), NEW t, NEW j \in Nat, Received(s, t, j),
           NEW status, NEW r, r = Fail(t, status)
    PROVE  Received(s, r, j) /\ r.ret = status
<1>1. IsCall(t)
  BY DEF Received, FirstGiven
<1>2. IsCall(r) /\ Frame(t, r) /\ Still(t, r) /\ r.ret = status
      /\ r.open = t.open /\ r.maps = t.maps
  BY <1>1, FailEffect
<1>3. Frame(s, r)
  BY <1>1, <1>2, FrameTrans DEF Received, FirstGiven
<1>4. OthersKept(s, r, j)
  BY <1>2 DEF Received, FirstGiven, OthersKept, Still
<1>5. Physical(t.tables[j].origin) => MappedFor(s, r, t.tables[j])
  BY <1>1, <1>2, ServedMore DEF Received, FirstGiven, MappedFor
<1>6. FirstGiven(s, r, j)
  BY <1>2, <1>3, <1>4, <1>5
     DEF Received, FirstGiven, Still, ChecksumRight, Frame
<1> QED
  BY <1>2, <1>6 DEF Received, HandleOf, Still

\* The header read and checked, and the table mapped where somebody looks.
LEMMA MappedFirst ==
    ASSUME NEW s, IsCall(s), NEW addr \in Addrs, NEW look \in BOOLEAN, NEW sig,
           NEW expected,
           NEW h, h = uacpi_check_table_signature(
                        get_external_table_header(s, addr), sig, expected),
           NEW m, m = IF look THEN uacpi_kernel_map(h, addr) ELSE h,
           NEW virt, virt = IF look THEN Head(m.open) ELSE NULL
    PROVE  /\ IsCall(m) /\ Looked(s, m) /\ (Ok(m) => virt \in Nat)
           /\ look /\ Ok(m) => NewMapping(s, m, virt, addr)
           /\ ~look \/ ~Ok(m) => m.open = s.open /\ m.maps = s.maps
<1>1. addr \in Nat
  BY MemoryAssumption
<1> DEFINE t == get_external_table_header(s, addr)
<1>2. Touched(s, t)
  BY <1>1, HeaderEffect
<1>3. IsCall(t) /\ h = uacpi_check_table_signature(t, sig, expected)
  BY <1>2 DEF Touched
<1> HIDE DEF t
<1>4. Touched(t, h)
  BY <1>3, SignatureEffect, JudgedTouched
<1>5. Touched(s, h)
  BY <1>2, <1>4, TouchedTrans
<1>6. CASE ~look
  <2>1. m = h /\ virt \in Nat
    BY <1>6 DEF NULL
  <2> QED
    BY <1>5, <1>6, <2>1 DEF Touched, Looked
<1>7. CASE look
  <2>1. m = uacpi_kernel_map(h, addr) /\ IsCall(h)
    BY <1>5, <1>7 DEF Touched
  <2>2. /\ IsCall(m) /\ Frame(h, m) /\ Still(h, m)
        /\ Ok(m) => \E v \in Nat : NewMapping(h, m, v, addr)
        /\ ~Ok(m) => m.open = h.open /\ m.maps = h.maps
    BY <1>1, <2>1, MapEffect
  <2>3. Frame(s, m) /\ Still(s, m)
    BY <1>5, <2>1, <2>2, FrameTrans DEF Touched, Still
  <2>4. CASE ~Ok(m)
    BY <1>5, <2>2, <2>3, <2>4 DEF Looked, Touched
  <2>5. CASE Ok(m)
    <3>1. PICK v \in Nat : NewMapping(h, m, v, addr)
      BY <2>2, <2>5
    <3>2. NewMapping(s, m, v, addr)
      BY <1>5, <3>1 DEF NewMapping, Touched
    <3>3. virt = v
      BY <1>7, <3>2 DEF NewMapping, IsCall
    <3> QED
      BY <1>1, <1>7, <2>2, <2>3, <2>5, <3>2, <3>3 DEF Looked
  <2> QED
    BY <2>4, <2>5
<1> QED
  BY <1>6, <1>7

\* A caller of install_mapped whose table came from elsewhere: the mapping it
\* was looked at through is closed.
LEMMA ReceivedClosed ==
    ASSUME NEW s, IsCall(s), NEW m, IsCall(m), NEW v \in Nat, NEW addr \in Nat,
           Frame(s, m), Still(s, m), NewMapping(s, m, v, addr),
           NEW i, NEW j \in Nat, Received(m, i, j),
           NEW r, r = Unmapped(i, s.open)
    PROVE  Received(s, r, j)
<1> DEFINE outer == s.open
           e == i.tables[j]
<1>1. IsCall(i) /\ Frame(m, i) /\ i.open = m.open
  BY DEF Received, FirstGiven
<1>2. outer \in Seq(Nat) /\ i.open = <<v>> \o outer /\ r = Unmapped(i, outer)
  BY <1>1 DEF IsCall, NewMapping
<1> HIDE DEF outer
<1>3. /\ IsCall(r) /\ Frame(i, r) /\ Still(i, r) /\ r.open = outer
      /\ r.ret = i.ret /\ r.calls = i.calls
      /\ r.maps = {x \in i.maps : x.va # v}
  BY <1>1, <1>2, UnmapLast
<1>4. Frame(s, r)
  BY <1>1, <1>3, FrameTrans
<1>5. s.maps = {x \in m.maps : x.va # v}
  BY CloseLast
<1>6. [va |-> v, addr |-> addr] \in m.maps
  BY DEF NewMapping
<1>7. CASE ~Physical(e.origin)
  <2>1. i.maps = m.maps
    BY <1>7 DEF Received, FirstGiven
  <2> QED
    BY <1>3, <1>4, <1>5, <1>7, <2>1
       DEF Received, FirstGiven, Still, ChecksumRight, Frame, OthersKept,
           HandleOf, outer
<1>8. CASE Physical(e.origin)
  <2>1. MappedFor(m, i, e)
    BY <1>8 DEF Received, FirstGiven
  <2>2. e.ptr # v
    BY <1>6, <2>1 DEF MappedFor
  <2>3. r.maps = s.maps \cup {[va |-> e.ptr, addr |-> e.addr]}
    BY <1>3, <1>5, <2>1, <2>2 DEF MappedFor
  <2>4. Served(r)
    BY <1>1, <1>3, <2>1, ServedMore DEF MappedFor
  <2>5. MappedFor(s, r, e)
    BY <1>5, <2>1, <2>3, <2>4 DEF MappedFor, NewMapping
  <2>6. /\ j \in 1..Len(r.tables) /\ OthersKept(s, r, j)
        /\ r.tables[j] = e /\ e.refs = 1
        /\ j <= Len(s.tables) =>
             /\ s.tables[j].refs = 0
             /\ e.addr = s.tables[j].addr
             /\ e.origin = s.tables[j].origin
             /\ e.loaded = s.tables[j].loaded
        /\ \/ ChecksumRight(r, e.addr)
           \/ j <= Len(s.tables) /\ s.tables[j].verified
    BY <1>3, <1>8
       DEF Received, FirstGiven, Still, ChecksumRight, Frame, OthersKept
  <2>7. FirstGiven(s, r, j)
    BY <1>3, <1>4, <1>8, <2>5, <2>6 DEF FirstGiven, outer
  <2> QED
    BY <1>3, <2>7 DEF Received, HandleOf, Still
<1> QED
  BY <1>7, <1>8

\* What install_mapped makes of Install's answer.
LEMMA ConcludedValue ==
    ASSUME NEW s, IsCall(s), NEW addr \in Addrs, NEW look \in BOOLEAN,
           NEW want \in BOOLEAN, want => look, NEW m, NEW virt,
           IsCall(m), Looked(s, m),
           look /\ Ok(m) => NewMapping(s, m, virt, addr),
           ~look \/ ~Ok(m) => m.open = s.open /\ m.maps = s.maps,
           NEW i, Ok(m) => InstallResult(m, i, addr, virt, want),
           NEW r, r = IF ~Ok(m) THEN m ELSE Concluded(i, s.open, want)
    PROVE  Installed(s, r, want)
<1> DEFINE u == Unmapped(i, s.open)
<1>1. addr \in Nat
  BY MemoryAssumption
<1>2. CASE ~Ok(m)
  <2>1. Touched(s, r)
    BY <1>2 DEF Touched, Looked
  <2> QED
    BY <2>1, TouchedGrown DEF Installed
<1>3. CASE Ok(m) /\ Grown(m, i) /\ (want => ~Ok(i))
  <2>1. Grown(s, u)
    BY <1>3, LookedClosed
  <2>2. r = Fail(u, "OK")
    BY <1>3 DEF Concluded
  <2> QED
    BY <2>1, <2>2, GrownFail DEF Installed
<1>4. ASSUME Ok(m), want, ~Ok(i), NEW j \in Nat, j > Len(m.tables),
             Received(m, i, j)
      PROVE  Installed(s, r, want)
  <2>1. virt \in Nat /\ NewMapping(s, m, virt, addr)
    BY <1>4 DEF NewMapping
  <2>2. Frame(s, m) /\ Still(s, m)
    BY DEF Looked
  <2>3. Received(s, u, j)
    BY <1>1, <1>4, <2>1, <2>2, ReceivedClosed
  <2>4. r = Fail(u, "OK")
    BY <1>4 DEF Concluded
  <2>5. Received(s, r, j)
    BY <2>3, <2>4, ReceivedFail
  <2> QED
    BY <1>4, <2>2, <2>5 DEF Installed, Still
<1>5. ASSUME Ok(m), want, Ok(i), NEW e \in Entry, NEW o \in Origins,
             Physical(o), e.addr = addr, e.ptr = virt, e.origin = o, e.refs = 1,
             Handed(m, i, e), ChecksumRight(i, addr)
      PROVE  Installed(s, r, want)
  <2> DEFINE j == Len(r.tables)
  <2>1. r = [i EXCEPT !.open = s.open]
    BY <1>5 DEF Concluded, Kept
  <2>2. IsCall(i) /\ Frame(m, i) /\ i.open = m.open /\ i.maps = m.maps
        /\ Len(i.tables) > Len(m.tables) /\ OthersKept(m, i, Len(i.tables))
        /\ i.tables[Len(i.tables)] = e
        /\ i.out = HandleOf(i, Len(i.tables))
    BY <1>5 DEF Handed
  <2>3. /\ r.tables = i.tables /\ r.cap = i.cap /\ r.home = i.home
        /\ r.maps = i.maps /\ r.fadt = i.fadt /\ r.early = i.early
        /\ r.flags = i.flags /\ r.open = s.open /\ r.out = i.out
        /\ r.plan = i.plan /\ r.calls = i.calls /\ DOMAIN r = Fields
    BY <2>1, <2>2 DEF IsCall, Fields
  <2>4. IsCall(r)
    BY <2>2, <2>3 DEF IsCall, BackedIn
  <2>5. Frame(i, r) /\ Frame(s, m) /\ m.tables = s.tables
    BY <2>2, <2>3 DEF Frame, Looked, Still, IsCall
  <2>6. Frame(m, r) /\ Frame(s, r)
    BY <2>2, <2>4, <2>5, FrameTrans
  <2>7. NewMapping(s, m, virt, addr)
    BY <1>5
  <2>8. Served(r)
    BY <2>4, <2>6, <2>7, ServedMore DEF NewMapping
  <2>9. MappedFor(s, r, e)
    BY <1>5, <2>2, <2>3, <2>7, <2>8 DEF MappedFor, NewMapping
  <2>10. j \in 1..Len(r.tables) /\ j > Len(s.tables) /\ j \in Nat
         /\ OthersKept(s, r, j) /\ r.tables[j] = e
    <3>1. Len(s.tables) \in Nat /\ Len(r.tables) \in Nat
      BY <2>4, TablesLength
    <3> QED
      BY <2>2, <2>3, <2>5, <3>1 DEF OthersKept
  <2> HIDE DEF j
  <2>11. ChecksumRight(r, e.addr)
    BY <1>5, <2>3 DEF ChecksumRight
  <2>12. Len(s.tables) \in Nat
    BY TablesLength
  <2>13. FirstGiven(s, r, j)
    <3>1. ~(j <= Len(s.tables))
      BY <2>10, <2>12
    <3>2. r.tables[j].refs = 1 /\ Physical(r.tables[j].origin)
          /\ MappedFor(s, r, r.tables[j]) /\ ChecksumRight(r, r.tables[j].addr)
      BY <1>5, <2>9, <2>10, <2>11
    <3> QED
      BY <2>3, <2>4, <2>6, <2>10, <3>1, <3>2 DEF FirstGiven
  <2>14. r.out = HandleOf(r, j)
    BY <2>2, <2>3 DEF HandleOf, j
  <2> QED
    BY <1>5, <2>10, <2>13, <2>14 DEF Installed, Received
<1>6. ASSUME Ok(m), NEW o \in Origins, Physical(o),
             VerifiedResult(m, i, addr, virt, o, want)
      PROVE  Installed(s, r, want)
  BY <1>3, <1>5, <1>6 DEF VerifiedResult
<1> QED
  BY <1>2, <1>3, <1>4, <1>6 DEF InstallResult

\* A table in host memory that a caller has been handed.
LEMMA HandedVirtual ==
    ASSUME NEW s, IsCall(s), NEW r, NEW addr \in Addrs, NEW want \in BOOLEAN,
           VerifiedResult(s, r, addr, addr, "HOST_VIRTUAL", want)
    PROVE  \/ Grown(s, r)
           \/ want /\ Ok(r) /\ \E j \in Nat : j > Len(s.tables) /\ Received(s, r, j)
<1> SUFFICES ASSUME want, Ok(r), NEW e \in Entry, e.origin = "HOST_VIRTUAL",
                    e.refs = 1, Handed(s, r, e)
             PROVE  \E j \in Nat : j > Len(s.tables) /\ Received(s, r, j)
  BY DEF VerifiedResult
<1> DEFINE j == Len(r.tables)
<1>1. Len(s.tables) \in Nat /\ j \in Nat
  BY DEF Handed, IsCall
<1>2. j > Len(s.tables) /\ j \in 1..Len(r.tables)
  BY <1>1 DEF Handed
<1>3. ~Physical(e.origin)
  BY DEF Physical
<1>4. FirstGiven(s, r, j)
  BY <1>1, <1>2, <1>3 DEF FirstGiven, Handed
<1>5. Received(s, r, j)
  BY <1>4 DEF Received, Handed
<1> QED
  BY <1>1, <1>2, <1>5

\* An override is no success, whatever became of it.
LEMMA OverriddenEffect ==
    ASSUME NEW s, IsCall(s), NEW t, NEW want \in BOOLEAN, Installed(s, t, want),
           NEW i, i = Overridden(t)
    PROVE  Installed(s, i, want) /\ ~Ok(i)
<1>1. CASE ~Ok(t)
  BY <1>1 DEF Overridden
<1>2. CASE Ok(t)
  <2>1. i = Fail(t, "OVERRIDDEN")
    BY <1>2 DEF Overridden
  <2>2. CASE Grown(s, t)
    BY <2>1, <2>2, GrownFail DEF Installed, Ok
  <2>3. ASSUME want, NEW j \in Nat, j > Len(s.tables), Received(s, t, j)
        PROVE  Installed(s, i, want) /\ ~Ok(i)
    BY <2>1, <2>3, ReceivedFail DEF Installed, Ok
  <2> QED
    BY <2>2, <2>3 DEF Installed
<1> QED
  BY <1>1, <1>2

-----------------------------------------------------------------------------
(***************************************************************************)
(* The operators that install a table, first as initialize_fadt uses them: *)
(* a FADT met then is not initialised in its turn.                         *)
(***************************************************************************)
\* A record that stays as it is gives nobody a table.
LEMMA GrownSelf ==
    ASSUME NEW s, IsCall(s)
    PROVE  Grown(s, s)
BY TouchedGrown DEF Touched, Frame, Still, IsCall

\* verified_install, inside initialize_fadt.
LEMMA InnerVerified ==
    ASSUME Setting, NEW s, IsCall(s), NEW addr \in Addrs, NEW virt \in Nat,
           NEW origin \in Origins, ~Physical(origin) => virt # NULL,
           NEW want \in BOOLEAN,
           NEW r, r = verified_install(s, addr, virt, origin, want, NoFadt)
    PROVE  VerifiedResult(s, r, addr, virt, origin, want)
<1> DEFINE sig == Memory[addr].sig
           m == IF virt = NULL THEN uacpi_kernel_map(s, addr) ELSE s
           c == uacpi_verify_table_checksum(m, Memory[addr].good)
           g == IF CheckNow(s, sig, want) THEN c ELSE s
<1>1. r = AddTable(Unmapped(g, s.open),
                   NewEntry(s, addr, virt, origin, want), want)
  <2>1. g = CASE ~CheckNow(s, sig, want) -> s
              [] sig = "FACP" -> c
              [] OTHER -> c
    <3> HIDE DEF sig, c
    <3>1. CASE CheckNow(s, sig, want)
      BY <3>1
    <3>2. CASE ~CheckNow(s, sig, want)
      BY <3>2 DEF CheckNow
    <3> QED
      BY <3>1, <3>2
  <2> HIDE DEF g
  <2> QED
    BY <2>1 DEF verified_install, NoFadt
<1>2. CheckNow(s, sig, want) => Grown(c, g) /\ (Ok(g) => Ok(c))
  <2>1. IsCall(m)
    BY MapEffect, MemoryAssumption
  <2>2. IsCall(c)
    BY <2>1, ChecksumEffect DEF Judged
  <2> QED
    BY <2>2, GrownSelf
<1> HIDE DEF g
<1>3. ~CheckNow(s, sig, want) => g = s
  BY DEF g
<1> QED
  BY <1>1, <1>2, <1>3, VerifiedValue

\* A table of the host at an address of its own, inside initialize_fadt.
LEMMA InnerVirtual ==
    ASSUME Setting, NEW s, IsCall(s), NEW addr \in Addrs, NEW want \in BOOLEAN,
           NEW r, r = install_virtual(s, addr, want, NoFadt)
    PROVE  Installed(s, r, want)
<1>1. CASE ~Memory[addr].long
  BY <1>1, GrownSelf, GrownFail DEF install_virtual, Installed
<1>2. CASE Memory[addr].long
  <2>1. addr \in Nat /\ addr # NULL
    BY MemoryAssumption
  <2>2. r = verified_install(s, addr, addr, "HOST_VIRTUAL", want, NoFadt)
    BY <1>2 DEF install_virtual
  <2>3. VerifiedResult(s, r, addr, addr, "HOST_VIRTUAL", want)
    BY <2>1, <2>2, InnerVerified DEF Origins
  <2> QED
    BY <2>3, HandedVirtual DEF Installed
<1> QED
  BY <1>1, <1>2

\* A table of the host in physical memory, inside initialize_fadt.
LEMMA InnerHost ==
    ASSUME Setting, NEW s, IsCall(s), NEW addr \in Addrs, NEW want \in BOOLEAN,
           NEW r, r = install_host_physical(s, addr, want, NoFadt)
    PROVE  Installed(s, r, want)
<1> DEFINE look == handler # NoHandler \/ want
           h == uacpi_check_table_signature(get_external_table_header(s, addr),
                                            Memory[addr].sig, "any")
           m == IF look THEN uacpi_kernel_map(h, addr) ELSE h
           virt == IF look THEN Head(m.open) ELSE NULL
           i == verified_install(m, addr, virt, "HOST_PHYSICAL", want, NoFadt)
<1>1. r = IF ~Ok(m) THEN m ELSE Concluded(i, s.open, want)
  BY DEF install_host_physical, install_mapped
<1>2. look \in BOOLEAN /\ (want => look)
  OBVIOUS
<1> HIDE DEF look
<1>3. /\ IsCall(m) /\ Looked(s, m) /\ (Ok(m) => virt \in Nat)
      /\ look /\ Ok(m) => NewMapping(s, m, virt, addr)
      /\ ~look \/ ~Ok(m) => m.open = s.open /\ m.maps = s.maps
  BY <1>2, MappedFirst
<1> HIDE DEF m, virt
<1>4. ASSUME Ok(m) PROVE VerifiedResult(m, i, addr, virt, "HOST_PHYSICAL", want)
  BY <1>3, <1>4, InnerVerified DEF Origins, Physical
<1> HIDE DEF i
<1>5. Ok(m) => InstallResult(m, i, addr, virt, want)
  BY <1>4 DEF InstallResult, Origins, Physical
<1> QED
  BY <1>1, <1>2, <1>3, <1>5, ConcludedValue

\* A table of firmware, inside initialize_fadt.
LEMMA InnerFirmware ==
    ASSUME Setting, NEW s, IsCall(s), NEW addr \in Addrs, NEW expected,
           NEW want \in BOOLEAN,
           NEW r, r = install_firmware(s, addr, expected, want, NoFadt)
    PROVE  Installed(s, r, want)
<1> DEFINE look == handler # NoHandler \/ want
           h == uacpi_check_table_signature(get_external_table_header(s, addr),
                                            Memory[addr].sig, expected)
           m == IF look THEN uacpi_kernel_map(h, addr) ELSE h
           virt == IF look THEN Head(m.open) ELSE NULL
           d == IF handler = NoHandler THEN [disp |-> "ALLOW"] ELSE handler[addr]
           allowed == verified_install(m, addr, virt, "FIRMWARE_PHYSICAL", want,
                                       NoFadt)
           virtual == install_virtual(m, d.with, want, NoFadt)
           physical == install_host_physical(m, d.with, want, NoFadt)
           i == CASE d.disp = "ALLOW" -> allowed
                  [] d.disp = "DENY" -> Fail(m, "DENIED")
                  [] d.disp = "VIRTUAL_OVERRIDE" -> Overridden(virtual)
                  [] OTHER -> Overridden(physical)
<1>1. r = IF ~Ok(m) THEN m ELSE Concluded(i, s.open, want)
  BY DEF install_firmware, install_mapped
<1>2. look \in BOOLEAN /\ (want => look)
  OBVIOUS
<1> HIDE DEF look
<1>3. /\ IsCall(m) /\ Looked(s, m) /\ (Ok(m) => virt \in Nat)
      /\ look /\ Ok(m) => NewMapping(s, m, virt, addr)
      /\ ~look \/ ~Ok(m) => m.open = s.open /\ m.maps = s.maps
  BY <1>2, MappedFirst
<1>4. d.disp \notin {"ALLOW", "DENY"} => d.with \in Addrs
  <2>1. CASE handler = NoHandler
    BY <2>1
  <2>2. CASE handler # NoHandler
    BY <2>2, BuildsAssumption DEF Setting
  <2> QED
    BY <2>1, <2>2
<1> HIDE DEF m, virt, d
<1>5. Ok(m) => InstallResult(m, i, addr, virt, want)
  <2>1. CASE Ok(m) /\ d.disp = "ALLOW"
    <3>1. VerifiedResult(m, allowed, addr, virt, "FIRMWARE_PHYSICAL", want)
      BY <1>3, <2>1, InnerVerified DEF Origins, Physical
    <3>2. i = allowed
      BY <2>1
    <3> HIDE DEF i, allowed
    <3> QED
      BY <3>1, <3>2 DEF InstallResult, Origins, Physical
  <2>2. CASE d.disp = "DENY"
    <3>1. i = Fail(m, "DENIED")
      BY <2>2
    <3> HIDE DEF i
    <3>2. Grown(m, i) /\ ~Ok(i)
      BY <1>3, <3>1, GrownSelf, GrownFail DEF Ok
    <3> QED
      BY <3>2 DEF InstallResult
  <2>3. CASE d.disp = "VIRTUAL_OVERRIDE"
    <3>1. Installed(m, virtual, want)
      BY <1>3, <1>4, <2>3, InnerVirtual
    <3>2. i = Overridden(virtual)
      BY <2>3
    <3> HIDE DEF i, virtual
    <3>3. Installed(m, i, want) /\ ~Ok(i)
      BY <1>3, <3>1, <3>2, OverriddenEffect
    <3> QED
      BY <3>3 DEF InstallResult, Installed
  <2>4. CASE d.disp \notin {"ALLOW", "DENY", "VIRTUAL_OVERRIDE"}
    <3>1. Installed(m, physical, want)
      BY <1>3, <1>4, <2>4, InnerHost
    <3>2. i = Overridden(physical)
      BY <2>4
    <3> HIDE DEF i, physical
    <3>3. Installed(m, i, want) /\ ~Ok(i)
      BY <1>3, <3>1, <3>2, OverriddenEffect
    <3> QED
      BY <3>3 DEF InstallResult, Installed
  <2> QED
    BY <2>1, <2>2, <2>3, <2>4
<1> HIDE DEF i
<1> QED
  BY <1>1, <1>2, <1>3, <1>5, ConcludedValue

\* initialize_fadt gives nobody a table.
LEMMA FadtEffect ==
    ASSUME Setting, NEW s, IsCall(s), NEW addr \in Addrs,
           NEW r, r = initialize_fadt(s, addr)
    PROVE  Grown(s, r) /\ (Ok(r) => Ok(s))
<1> DEFINE q == [s EXCEPT !.fadt = addr]
<1>1. CASE ~Ok(s)
  BY <1>1, GrownSelf DEF initialize_fadt
<1>2. CASE Ok(s)
  <2>1. /\ q.tables = s.tables /\ q.cap = s.cap /\ q.home = s.home
        /\ q.maps = s.maps /\ q.fadt = addr /\ q.early = s.early
        /\ q.flags = s.flags /\ q.open = s.open /\ q.out = s.out
        /\ q.plan = s.plan /\ q.calls = s.calls /\ q.ret = s.ret
        /\ DOMAIN q = Fields
    BY DEF IsCall, Fields
  <2>2. \/ r = q
        \/ /\ r = install_firmware(q, Memory[addr].dsdt, "DSDT", FALSE, NoFadt)
           /\ Memory[addr].dsdt # NULL
    BY <1>2 DEF initialize_fadt
  <2> HIDE DEF q
  <2>3. IsCall(q) /\ Frame(s, q)
    BY <2>1 DEF IsCall, BackedIn, Frame
  <2>4. OthersKept(s, q, 0)
    <3>1. Len(s.tables) \in Nat
      BY TablesLength
    <3> QED
      BY <2>1, <3>1 DEF OthersKept, Ungiven
  <2>5. Grown(s, q)
    BY <2>1, <2>3, <2>4 DEF Grown
  <2>6. CASE r = q
    BY <1>2, <2>5, <2>6
  <2>7. CASE /\ r = install_firmware(q, Memory[addr].dsdt, "DSDT", FALSE, NoFadt)
             /\ Memory[addr].dsdt # NULL
    <3>1. Memory[addr].dsdt \in Addrs
      BY <2>7, MemoryAssumption
    <3>2. Installed(q, r, FALSE)
      BY <2>3, <2>7, <3>1, InnerFirmware
    <3> QED
      BY <1>2, <2>5, <3>2, GrownTrans DEF Installed
  <2> QED
    BY <2>2, <2>6, <2>7
<1> QED
  BY <1>1, <1>2

\* ... and then as everybody else does.
LEMMA OuterVerified ==
    ASSUME Setting, NEW s, IsCall(s), NEW addr \in Addrs, NEW virt \in Nat,
           NEW origin \in Origins, ~Physical(origin) => virt # NULL,
           NEW want \in BOOLEAN,
           NEW r, r = verified_install(s, addr, virt, origin, want,
                                       initialize_fadt)
    PROVE  VerifiedResult(s, r, addr, virt, origin, want)
<1> DEFINE sig == Memory[addr].sig
           m == IF virt = NULL THEN uacpi_kernel_map(s, addr) ELSE s
           c == uacpi_verify_table_checksum(m, Memory[addr].good)
           f == initialize_fadt(c, addr)
           g == CASE ~CheckNow(s, sig, want) -> s
                  [] sig = "FACP" -> f
                  [] OTHER -> c
<1>1. r = AddTable(Unmapped(g, s.open),
                   NewEntry(s, addr, virt, origin, want), want)
  BY DEF verified_install
<1>2. IsCall(c)
  <2>1. IsCall(m)
    BY MapEffect, MemoryAssumption
  <2> QED
    BY <2>1, ChecksumEffect DEF Judged
<1>3. Grown(c, f) /\ (Ok(f) => Ok(c))
  <2> HIDE DEF c
  <2> QED
    BY <1>2, FadtEffect
<1>4. CASE CheckNow(s, sig, want)
  <2>1. Grown(c, g) /\ (Ok(g) => Ok(c))
    <3> HIDE DEF c, f, sig
    <3>1. CASE sig = "FACP"
      BY <1>3, <1>4, <3>1
    <3>2. CASE sig # "FACP"
      <4>1. g = c
        BY <1>4, <3>2
      <4> HIDE DEF g
      <4> QED
        BY <1>2, <4>1, GrownSelf
    <3> QED
      BY <3>1, <3>2
  <2> HIDE DEF g
  <2> QED
    BY <1>1, <1>4, <2>1, VerifiedValue
<1>5. CASE ~CheckNow(s, sig, want)
  <2>1. g = s
    <3>1. sig # "FACP"
      BY <1>5 DEF CheckNow
    <3> HIDE DEF c, f, sig
    <3> QED
      BY <1>5, <3>1
  <2> HIDE DEF g
  <2> QED
    BY <1>1, <1>5, <2>1, VerifiedValue
<1> QED
  BY <1>4, <1>5

\* A table of the host at an address of its own.
LEMMA OuterVirtual ==
    ASSUME Setting, NEW s, IsCall(s), NEW addr \in Addrs, NEW want \in BOOLEAN,
           NEW r, r = install_virtual(s, addr, want, initialize_fadt)
    PROVE  Installed(s, r, want)
<1>1. CASE ~Memory[addr].long
  BY <1>1, GrownSelf, GrownFail DEF install_virtual, Installed
<1>2. CASE Memory[addr].long
  <2>1. addr \in Nat /\ addr # NULL
    BY MemoryAssumption
  <2>2. r = verified_install(s, addr, addr, "HOST_VIRTUAL", want, initialize_fadt)
    BY <1>2 DEF install_virtual
  <2>3. VerifiedResult(s, r, addr, addr, "HOST_VIRTUAL", want)
    BY <2>1, <2>2, OuterVerified DEF Origins
  <2> QED
    BY <2>3, HandedVirtual DEF Installed
<1> QED
  BY <1>1, <1>2

\* A table of the host in physical memory.
LEMMA OuterHost ==
    ASSUME Setting, NEW s, IsCall(s), NEW addr \in Addrs, NEW want \in BOOLEAN,
           NEW r, r = install_host_physical(s, addr, want, initialize_fadt)
    PROVE  Installed(s, r, want)
<1> DEFINE look == handler # NoHandler \/ want
           h == uacpi_check_table_signature(get_external_table_header(s, addr),
                                            Memory[addr].sig, "any")
           m == IF look THEN uacpi_kernel_map(h, addr) ELSE h
           virt == IF look THEN Head(m.open) ELSE NULL
           i == verified_install(m, addr, virt, "HOST_PHYSICAL", want, initialize_fadt)
<1>1. r = IF ~Ok(m) THEN m ELSE Concluded(i, s.open, want)
  BY DEF install_host_physical, install_mapped
<1>2. look \in BOOLEAN /\ (want => look)
  OBVIOUS
<1> HIDE DEF look
<1>3. /\ IsCall(m) /\ Looked(s, m) /\ (Ok(m) => virt \in Nat)
      /\ look /\ Ok(m) => NewMapping(s, m, virt, addr)
      /\ ~look \/ ~Ok(m) => m.open = s.open /\ m.maps = s.maps
  BY <1>2, MappedFirst
<1> HIDE DEF m, virt
<1>4. ASSUME Ok(m) PROVE VerifiedResult(m, i, addr, virt, "HOST_PHYSICAL", want)
  BY <1>3, <1>4, OuterVerified DEF Origins, Physical
<1> HIDE DEF i
<1>5. Ok(m) => InstallResult(m, i, addr, virt, want)
  BY <1>4 DEF InstallResult, Origins, Physical
<1> QED
  BY <1>1, <1>2, <1>3, <1>5, ConcludedValue

\* A table of firmware, which may be a FADT.
LEMMA OuterFirmware ==
    ASSUME Setting, NEW s, IsCall(s), NEW addr \in Addrs, NEW expected,
           NEW want \in BOOLEAN,
           NEW r, r = install_firmware(s, addr, expected, want, initialize_fadt)
    PROVE  Installed(s, r, want)
<1> DEFINE look == handler # NoHandler \/ want
           h == uacpi_check_table_signature(get_external_table_header(s, addr),
                                            Memory[addr].sig, expected)
           m == IF look THEN uacpi_kernel_map(h, addr) ELSE h
           virt == IF look THEN Head(m.open) ELSE NULL
           d == IF handler = NoHandler THEN [disp |-> "ALLOW"] ELSE handler[addr]
           allowed == verified_install(m, addr, virt, "FIRMWARE_PHYSICAL", want,
                                       initialize_fadt)
           virtual == install_virtual(m, d.with, want, initialize_fadt)
           physical == install_host_physical(m, d.with, want, initialize_fadt)
           i == CASE d.disp = "ALLOW" -> allowed
                  [] d.disp = "DENY" -> Fail(m, "DENIED")
                  [] d.disp = "VIRTUAL_OVERRIDE" -> Overridden(virtual)
                  [] OTHER -> Overridden(physical)
<1>1. r = IF ~Ok(m) THEN m ELSE Concluded(i, s.open, want)
  BY DEF install_firmware, install_mapped
<1>2. look \in BOOLEAN /\ (want => look)
  OBVIOUS
<1> HIDE DEF look
<1>3. /\ IsCall(m) /\ Looked(s, m) /\ (Ok(m) => virt \in Nat)
      /\ look /\ Ok(m) => NewMapping(s, m, virt, addr)
      /\ ~look \/ ~Ok(m) => m.open = s.open /\ m.maps = s.maps
  BY <1>2, MappedFirst
<1>4. d.disp \notin {"ALLOW", "DENY"} => d.with \in Addrs
  <2>1. CASE handler = NoHandler
    BY <2>1
  <2>2. CASE handler # NoHandler
    BY <2>2, BuildsAssumption DEF Setting
  <2> QED
    BY <2>1, <2>2
<1> HIDE DEF m, virt, d
<1>5. Ok(m) => InstallResult(m, i, addr, virt, want)
  <2>1. CASE Ok(m) /\ d.disp = "ALLOW"
    <3>1. VerifiedResult(m, allowed, addr, virt, "FIRMWARE_PHYSICAL", want)
      BY <1>3, <2>1, OuterVerified DEF Origins, Physical
    <3>2. i = allowed
      BY <2>1
    <3> HIDE DEF i, allowed
    <3> QED
      BY <3>1, <3>2 DEF InstallResult, Origins, Physical
  <2>2. CASE d.disp = "DENY"
    <3>1. i = Fail(m, "DENIED")
      BY <2>2
    <3> HIDE DEF i
    <3>2. Grown(m, i) /\ ~Ok(i)
      BY <1>3, <3>1, GrownSelf, GrownFail DEF Ok
    <3> QED
      BY <3>2 DEF InstallResult
  <2>3. CASE d.disp = "VIRTUAL_OVERRIDE"
    <3>1. Installed(m, virtual, want)
      BY <1>3, <1>4, <2>3, OuterVirtual
    <3>2. i = Overridden(virtual)
      BY <2>3
    <3> HIDE DEF i, virtual
    <3>3. Installed(m, i, want) /\ ~Ok(i)
      BY <1>3, <3>1, <3>2, OverriddenEffect
    <3> QED
      BY <3>3 DEF InstallResult, Installed
  <2>4. CASE d.disp \notin {"ALLOW", "DENY", "VIRTUAL_OVERRIDE"}
    <3>1. Installed(m, physical, want)
      BY <1>3, <1>4, <2>4, OuterHost
    <3>2. i = Overridden(physical)
      BY <2>4
    <3> HIDE DEF i, physical
    <3>3. Installed(m, i, want) /\ ~Ok(i)
      BY <1>3, <3>1, <3>2, OverriddenEffect
    <3> QED
      BY <3>3 DEF InstallResult, Installed
  <2> QED
    BY <2>1, <2>2, <2>3, <2>4
<1> HIDE DEF i
<1> QED
  BY <1>1, <1>2, <1>3, <1>5, ConcludedValue

-----------------------------------------------------------------------------
(***************************************************************************)
(* References.                                                             *)
(***************************************************************************)
\* One entry is written.
WithEntry(s, k, e) == [s EXCEPT !.tables = [@ EXCEPT ![k] = e]]

\* A written entry is the only one that changes.
LEMMA SetEffect ==
    ASSUME NEW s, IsCall(s), NEW k \in 1..Len(s.tables), NEW e \in Entry,
           EntryFine(e), NEW r, r = WithEntry(s, k, e)
    PROVE  /\ IsCall(r) /\ Frame(s, r) /\ r.maps = s.maps /\ r.open = s.open
           /\ r.out = s.out /\ r.ret = s.ret /\ r.calls = s.calls
           /\ Len(r.tables) = Len(s.tables) /\ r.tables[k] = e
           /\ \A i \in 1..Len(s.tables) : i # k => r.tables[i] = s.tables[i]
<1>1. /\ r.tables = [s.tables EXCEPT ![k] = e] /\ r.cap = s.cap
      /\ r.home = s.home /\ r.maps = s.maps /\ r.fadt = s.fadt
      /\ r.early = s.early /\ r.flags = s.flags /\ r.open = s.open
      /\ r.out = s.out /\ r.plan = s.plan /\ r.calls = s.calls
      /\ r.ret = s.ret /\ DOMAIN r = Fields
  BY DEF IsCall, Fields, WithEntry
<1>2. r.tables \in Seq(Entry) /\ Len(r.tables) = Len(s.tables)
      /\ DOMAIN s.tables = 1..Len(s.tables)
      /\ DOMAIN r.tables = 1..Len(s.tables)
  BY <1>1 DEF IsCall
<1>3. r.tables[k] = e /\ \A i \in 1..Len(s.tables) : i # k => r.tables[i] = s.tables[i]
  BY <1>1, <1>2
<1>4. \A i \in DOMAIN r.tables : EntryFine(r.tables[i])
  BY <1>2, <1>3 DEF IsCall
<1>5. IsCall(r)
  BY <1>1, <1>2, <1>4 DEF IsCall, BackedIn
<1> QED
  BY <1>1, <1>2, <1>3, <1>5 DEF Frame, IsCall

\* A mapping that is kept is no longer open, and nothing else changes.
LEMMA KeptEffect ==
    ASSUME NEW s, IsCall(s), NEW outer \in Seq(Nat), NEW r, r = Kept(s, outer)
    PROVE  /\ IsCall(r) /\ Frame(s, r) /\ Still(s, r) /\ r.open = outer
           /\ r.maps = s.maps /\ r.ret = s.ret /\ r.calls = s.calls
<1>1. r = [s EXCEPT !.open = outer]
  BY DEF Kept
<1>2. /\ r.tables = s.tables /\ r.cap = s.cap /\ r.home = s.home
      /\ r.maps = s.maps /\ r.fadt = s.fadt /\ r.early = s.early
      /\ r.flags = s.flags /\ r.open = outer /\ r.out = s.out
      /\ r.plan = s.plan /\ r.calls = s.calls /\ r.ret = s.ret
      /\ DOMAIN r = Fields
  BY <1>1 DEF IsCall, Fields
<1> QED
  BY <1>2 DEF IsCall, BackedIn, Frame, Still

\* The widths of the builds leave room for two references.
LEMMA MaxRefFine ==
    ASSUME Setting
    PROVE  MaxRef \in Nat /\ MaxRef > 1 /\ NextRef(0) = 1
<1>1. MaxRef \in Nat /\ MaxRef > 1
  BY BuildsAssumption DEF Setting, MaxRef
<1> QED
  BY <1>1 DEF NextRef

\* One reference more is within the width, and never none.
LEMMA NextRefFine ==
    ASSUME Setting, NEW n \in Nat, n <= MaxRef
    PROVE  /\ MaxRef \in Nat /\ MaxRef > 1
           /\ NextRef(n) \in Nat /\ NextRef(n) <= MaxRef /\ NextRef(n) > 0
           /\ NextRef(0) = 1
<1>1. MaxRef \in Nat /\ MaxRef > 1
  BY BuildsAssumption DEF Setting, MaxRef
<1> QED
  BY <1>1 DEF NextRef

\* table_ref_unlocked on a table that is referenced, or is in host memory.
Raised(s, k) == [s EXCEPT !.tables[k].refs = NextRef(@)]

\* The count of a referenced table goes up, and its mapping stays.
LEMMA CountRaised ==
    ASSUME Setting, NEW s, IsCall(s), NEW k \in 1..Len(s.tables),
           s.tables[k].refs # 0 \/ ~Physical(s.tables[k].origin),
           ~(s.tables[k].refs = 0 /\ s.tables[k].invalid),
           NEW r, r = Raised(s, k)
    PROVE  Given(s, r, k) /\ r.out = s.out /\ r.ret = s.ret
           /\ Len(r.tables) = Len(s.tables)
<1> DEFINE t == s.tables[k]
           e == [t EXCEPT !.refs = NextRef(@)]
<1>1. t \in Entry /\ EntryFine(t)
  BY DEF IsCall
<1>2. t.refs \in Nat /\ t.refs <= MaxRef
  BY <1>1 DEF Entry, EntryFine
<1>3. NextRef(t.refs) \in Nat /\ NextRef(t.refs) <= MaxRef /\ NextRef(0) = 1
  BY <1>2, NextRefFine
<1>4. e \in Entry /\ e.refs = NextRef(t.refs) /\ e.addr = t.addr
      /\ e.ptr = t.ptr /\ e.origin = t.origin /\ e.loaded = t.loaded
      /\ e.invalid = t.invalid
  BY <1>1, <1>3 DEF Entry
<1>5. EntryFine(e)
  BY <1>1, <1>3, <1>4 DEF EntryFine
<1>6. r = WithEntry(s, k, e)
  BY DEF IsCall, WithEntry, Raised
<1> HIDE DEF e
<1>7. /\ IsCall(r) /\ Frame(s, r) /\ r.maps = s.maps /\ r.open = s.open
      /\ r.out = s.out /\ r.ret = s.ret /\ r.calls = s.calls
      /\ Len(r.tables) = Len(s.tables) /\ r.tables[k] = e
      /\ \A i \in 1..Len(s.tables) : i # k => r.tables[i] = s.tables[i]
  <2>1. e \in Entry
    BY <1>4
  <2> QED
    BY <1>5, <1>6, <2>1, SetEffect
<1>8. OthersKept(s, r, k)
  <2>1. Len(s.tables) \in Nat
    BY TablesLength
  <2> QED
    BY <1>7, <2>1 DEF OthersKept, Ungiven
<1>9. CASE t.refs = 0
  <2>1. e.refs = 1 /\ ~Physical(e.origin)
    BY <1>3, <1>4, <1>9
  <2>2. FirstGiven(s, r, k)
    BY <1>4, <1>7, <1>8, <1>9, <2>1 DEF FirstGiven
  <2> QED
    BY <1>7, <2>2 DEF Given
<1>10. CASE t.refs # 0
  <2>1. t.refs > 0
    BY <1>2, <1>10
  <2>2. MoreGiven(s, r, k)
    BY <1>7, <1>8, <2>1 DEF MoreGiven, e
  <2> QED
    BY <1>7, <2>2 DEF Given
<1> QED
  BY <1>9, <1>10

\* The first reference to a table firmware or the host points to: its mapping
\* is kept, or the entry remembers that the checksum was bad.
FirstKept(q, k, va) ==
  [q EXCEPT !.tables[k].ptr = va, !.tables[k].verified = TRUE,
            !.tables[k].refs = NextRef(@)]
FirstEntry(t, va) ==
  [t EXCEPT !.ptr = va, !.verified = TRUE, !.refs = NextRef(@)]

\* What an entry is after its first reference.
LEMMA EntryTaken ==
    ASSUME NEW t \in Entry, NEW v \in Nat, NextRef(t.refs) \in Nat,
           NEW e, e = FirstEntry(t, v)
    PROVE  e \in Entry /\ e.refs = NextRef(t.refs) /\ e.addr = t.addr
           /\ e.ptr = v /\ e.origin = t.origin /\ e.loaded = t.loaded
           /\ e.invalid = t.invalid
<1> DEFINE a == [t EXCEPT !.ptr = v]
           b == [a EXCEPT !.verified = TRUE]
<1>1. e = [b EXCEPT !.refs = NextRef(t.refs)]
  BY DEF FirstEntry, Entry
<1>2. a \in Entry /\ a.ptr = v /\ a.refs = t.refs /\ a.addr = t.addr
      /\ a.origin = t.origin /\ a.loaded = t.loaded /\ a.invalid = t.invalid
  BY DEF Entry
<1> HIDE DEF a
<1>3. b \in Entry /\ b.ptr = v /\ b.refs = t.refs /\ b.addr = t.addr
      /\ b.origin = t.origin /\ b.loaded = t.loaded /\ b.invalid = t.invalid
  BY <1>2 DEF Entry
<1> HIDE DEF b
<1> QED
  BY <1>1, <1>3 DEF Entry

\* Table k may be referenced for the first time, has been mapped at v in c, and
\* r is what becomes of that.
ReferencedFirst(s, k, c, v, r) ==
  LET t == s.tables[k]
  IN /\ t.refs = 0 /\ ~t.invalid /\ Physical(t.origin)
     /\ t.verified \/ ChecksumRight(s, t.addr)
     /\ IsCall(c) /\ Frame(s, c) /\ Still(s, c)
     /\ NewMapping(s, c, v, t.addr)
     /\ r = FirstKept(Kept(c, s.open), k, v)

\* The first reference to a physical table gives it, and keeps its mapping.
LEMMA FirstKeptEffect ==
    ASSUME Setting, NEW s, IsCall(s), NEW k \in 1..Len(s.tables), NEW c, NEW v,
           NEW r, ReferencedFirst(s, k, c, v, r)
    PROVE  Given(s, r, k) /\ r.out = s.out /\ r.ret = c.ret
           /\ Len(r.tables) = Len(s.tables)
<1> DEFINE t == s.tables[k]
           q == Kept(c, s.open)
           e == FirstEntry(t, v)
<1>0. /\ t.refs = 0 /\ ~t.invalid /\ Physical(t.origin)
      /\ t.verified \/ ChecksumRight(s, t.addr)
      /\ IsCall(c) /\ Frame(s, c) /\ Still(s, c)
      /\ NewMapping(s, c, v, t.addr) /\ r = FirstKept(q, k, v)
  BY DEF ReferencedFirst
<1>1. /\ IsCall(q) /\ Frame(c, q) /\ Still(c, q) /\ q.open = s.open
      /\ q.maps = c.maps /\ q.ret = c.ret /\ q.calls = c.calls
  <2>1. s.open \in Seq(Nat)
    BY DEF IsCall
  <2> QED
    BY <1>0, <2>1, KeptEffect
<1> HIDE DEF q
<1>2. q.tables = s.tables /\ q.out = s.out
  BY <1>0, <1>1 DEF Still
<1>3. t \in Entry /\ EntryFine(t)
  BY DEF IsCall
<1>4. MaxRef \in Nat /\ MaxRef > 1 /\ NextRef(t.refs) = 1
  BY <1>0, MaxRefFine
<1>5. v \in Nat \ {NULL}
  BY <1>0 DEF NewMapping
<1>6. e \in Entry /\ e.refs = 1 /\ e.addr = t.addr
      /\ e.ptr = v /\ e.origin = t.origin /\ e.loaded = t.loaded
      /\ e.invalid = t.invalid
  <2>1. v \in Nat /\ NextRef(t.refs) \in Nat
    BY <1>4, <1>5
  <2> QED
    BY <1>3, <1>4, <2>1, EntryTaken
<1>7. EntryFine(e)
  BY <1>0, <1>4, <1>5, <1>6 DEF EntryFine
<1>8. r = WithEntry(q, k, e)
  BY <1>0, <1>1, <1>2 DEF IsCall, WithEntry, FirstKept, FirstEntry
<1> HIDE DEF e
<1>9. /\ IsCall(r) /\ Frame(q, r) /\ r.maps = q.maps /\ r.open = q.open
      /\ r.out = q.out /\ r.ret = q.ret /\ r.calls = q.calls
      /\ Len(r.tables) = Len(q.tables) /\ r.tables[k] = e
      /\ \A i \in 1..Len(q.tables) : i # k => r.tables[i] = q.tables[i]
  <2>1. e \in Entry /\ k \in 1..Len(q.tables)
    BY <1>2, <1>6
  <2> QED
    BY <1>1, <1>7, <1>8, <2>1, SetEffect
<1>10. Frame(s, q) /\ Frame(s, r)
  BY <1>0, <1>1, <1>9, FrameTrans
<1>11. OthersKept(s, r, k)
  <2>1. Len(s.tables) \in Nat
    BY TablesLength
  <2> QED
    BY <1>2, <1>9, <2>1 DEF OthersKept, Ungiven
<1>12. Served(r)
  BY <1>0, <1>1, <1>9, <1>10, FrameTrans, ServedMore DEF NewMapping
<1>13. MappedFor(s, r, e)
  BY <1>0, <1>1, <1>5, <1>6, <1>9, <1>12 DEF MappedFor, NewMapping
<1>14. ChecksumRight(r, e.addr) \/ s.tables[k].verified
  BY <1>0, <1>6, <1>10 DEF ChecksumRight, Frame
<1>15. FirstGiven(s, r, k)
  BY <1>0, <1>1, <1>2, <1>6, <1>9, <1>10, <1>11, <1>13, <1>14 DEF FirstGiven
<1> QED
  BY <1>1, <1>2, <1>9, <1>15 DEF Given

IdleEntry(t, b) == [t EXCEPT !.ptr = NULL, !.invalid = b]

\* An entry without a reference, whose pointer and validity may change.
LEMMA IdleChanged ==
    ASSUME NEW s, IsCall(s), NEW q, Touched(s, q), NEW k \in 1..Len(s.tables),
           NEW t, t = s.tables[k], t.refs = 0, Physical(t.origin),
           NEW b \in BOOLEAN, NEW e, e = IdleEntry(t, b),
           NEW r, r = WithEntry(q, k, e)
    PROVE  Grown(s, r) /\ r.ret = q.ret /\ Len(r.tables) = Len(s.tables)
<1>1. IsCall(q) /\ Frame(s, q) /\ q.tables = s.tables /\ q.out = s.out
      /\ q.open = s.open /\ q.maps = s.maps
  BY DEF Touched, Still
<1>2. t \in Entry /\ EntryFine(t)
  BY DEF IsCall
<1>3. e \in Entry /\ e.refs = t.refs /\ e.addr = t.addr /\ e.origin = t.origin
      /\ e.loaded = t.loaded /\ e.verified = t.verified
  BY <1>2 DEF Entry, NULL, IdleEntry
<1>4. EntryFine(e)
  BY <1>2, <1>3 DEF EntryFine
<1>5. /\ IsCall(r) /\ Frame(q, r) /\ r.maps = q.maps /\ r.open = q.open
      /\ r.out = q.out /\ r.ret = q.ret /\ r.calls = q.calls
      /\ Len(r.tables) = Len(q.tables) /\ r.tables[k] = e
      /\ \A i \in 1..Len(q.tables) : i # k => r.tables[i] = q.tables[i]
  <2>1. e \in Entry /\ k \in 1..Len(q.tables)
    BY <1>1, <1>3
  <2> QED
    BY <1>1, <1>4, <2>1, SetEffect
<1>6. Frame(s, r)
  BY <1>1, <1>5, FrameTrans
<1>7. OthersKept(s, r, 0)
  <2>1. Len(s.tables) \in Nat
    BY TablesLength
  <2>2. Ungiven(t, e)
    BY <1>3 DEF Ungiven
  <2> QED
    <3>1. \A i \in 1..Len(s.tables) : Ungiven(s.tables[i], r.tables[i])
      <4> TAKE i \in 1..Len(s.tables)
      <4>1. CASE i = k
        BY <1>5, <2>2, <4>1
      <4>2. CASE i # k
        BY <1>1, <1>5, <4>2 DEF Ungiven
      <4> QED
        BY <4>1, <4>2
    <3> QED
      BY <1>1, <1>5, <2>1, <3>1 DEF OthersKept
<1> QED
  BY <1>1, <1>5, <1>6, <1>7 DEF Grown

\* A table found bad is an idle entry marked invalid.
LEMMA InvalidatedIs ==
    ASSUME NEW q, IsCall(q), NEW k \in 1..Len(q.tables)
    PROVE  Invalidated(q, k) = WithEntry(q, k, IdleEntry(q.tables[k], TRUE))
<1> DEFINE t == q.tables[k]
<1>1. t \in Entry
  BY DEF IsCall
<1>2. [t EXCEPT !.invalid = TRUE, !.ptr = NULL] = IdleEntry(t, TRUE)
  BY <1>1 DEF Entry, IdleEntry
<1>3. Invalidated(q, k)
        = [q EXCEPT !.tables = [@ EXCEPT ![k] =
             [t EXCEPT !.invalid = TRUE, !.ptr = NULL]]]
  BY <1>1 DEF Invalidated, IsCall
<1> HIDE DEF t
<1> QED
  BY <1>2, <1>3 DEF WithEntry, t

\* table_ref_unlocked gives a reference or an error.
LEMMA RefEffect ==
    ASSUME Setting, NEW s, IsCall(s), Ok(s), NEW k \in 1..Len(s.tables),
           NEW r, r = table_ref_unlocked(s, k)
    PROVE  /\ Len(r.tables) = Len(s.tables)
           /\ IF Ok(r) THEN Given(s, r, k) /\ r.out = s.out ELSE Grown(s, r)
<1> DEFINE t == s.tables[k]
           addr == t.addr
           m == uacpi_kernel_map(s, addr)
           good == t.verified \/ Memory[t.addr].good
           c == uacpi_verify_table_checksum(m, good)
<1>1. t \in Entry /\ t.addr \in Addrs /\ t.addr \in Nat /\ t.refs \in Nat
  <2>1. t \in Entry
    BY DEF IsCall
  <2>2. t.addr \in Addrs /\ t.refs \in Nat
    BY <2>1 DEF Entry
  <2> QED
    BY <2>1, <2>2, MemoryAssumption
<1>0. t = s.tables[k]
  OBVIOUS
<1>2. CASE t.refs = 0 /\ t.invalid
  <2>1. r = Fail(s, "INVALID_ARGUMENT")
    BY <1>2 DEF table_ref_unlocked
  <2>2. Grown(s, r) /\ ~Ok(r)
    BY <2>1, GrownSelf, GrownFail DEF Ok
  <2>3. r.tables = s.tables
    BY <2>1, FailEffect DEF Still
  <2> QED
    BY <2>2, <2>3
<1>3. CASE ~(t.refs = 0 /\ t.invalid) /\ (t.refs # 0 \/ ~Physical(t.origin))
  <2>1. r = Raised(s, k)
    BY <1>3 DEF table_ref_unlocked, Raised
  <2>2. Given(s, r, k) /\ r.out = s.out /\ r.ret = s.ret
        /\ Len(r.tables) = Len(s.tables)
    BY <1>3, <2>1, CountRaised
  <2> QED
    BY <2>2 DEF Ok
<1>4. CASE t.refs = 0 /\ ~t.invalid /\ Physical(t.origin)
  <2>1. r = FirstRef(c, k, s.open)
    BY <1>4 DEF table_ref_unlocked
  <2>2. /\ IsCall(m) /\ Frame(s, m) /\ Still(s, m)
        /\ Ok(m) => \E v \in Nat : NewMapping(s, m, v, addr)
        /\ ~Ok(m) => m.open = s.open /\ m.maps = s.maps
        /\ ~Ok(m) => m.ret = "MAPPING_FAILED"
    <3>1. addr \in Nat
      BY <1>1
    <3> HIDE DEF addr
    <3> QED
      BY <3>1, MapEffect
  <2> HIDE DEF m
  <2>3. /\ Judged(m, c) /\ (c = m \/ c.ret = "BAD_CHECKSUM")
        /\ Ok(c) /\ "BAD_CSUM_FATAL" \in c.flags => good
    BY <2>2, ChecksumEffect
  <2>4. c.ret = "BAD_CHECKSUM" => Ok(m)
    <3>1. ASSUME ~Ok(m) PROVE c = m
      BY <3>1 DEF uacpi_verify_table_checksum
    <3> QED
      BY <2>2, <3>1 DEF Ok
  <2> HIDE DEF c
  <2>5. IsCall(c) /\ Frame(s, c) /\ Still(s, c) /\ c.open = m.open
        /\ c.maps = m.maps
    BY <2>2, <2>3, FrameTrans DEF Judged, Still
  <2>6. ASSUME NEW v \in Nat, NewMapping(s, m, v, addr)
        PROVE  NewMapping(s, c, v, addr)
    BY <2>2, <2>3, <2>5, <2>6 DEF NewMapping, Judged, Served, Frame
  <2>7. CASE Ok(c)
    <3>1. Ok(m) /\ c = m
      BY <2>3, <2>7 DEF Ok
    <3>2. PICK v \in Nat : NewMapping(s, c, v, addr)
      BY <2>2, <2>6, <3>1
    <3>3. Head(c.open) = v
      BY <3>2 DEF NewMapping, IsCall
    <3> DEFINE q == Kept(c, s.open)
    <3>4. r = FirstKept(q, k, v)
      BY <2>1, <2>7, <3>3 DEF FirstRef, FirstKept, Ok
    <3>5. t.verified \/ ChecksumRight(s, t.addr)
      BY <2>3, <2>5, <2>7 DEF ChecksumRight, Frame
    <3>6. ReferencedFirst(s, k, c, v, r)
      BY <1>4, <2>5, <3>2, <3>4, <3>5 DEF ReferencedFirst
    <3>7. Given(s, r, k) /\ r.out = s.out /\ r.ret = c.ret
          /\ Len(r.tables) = Len(s.tables)
      BY <3>6, FirstKeptEffect
    <3> QED
      BY <2>7, <3>7 DEF Ok
  <2>8. CASE c.ret = "BAD_CHECKSUM"
    <3> DEFINE q == Unmapped(c, s.open)
               b == TRUE
               e == IdleEntry(t, b)
    <3>1. \E v, a \in Nat : NewMapping(s, c, v, a)
      BY <1>1, <2>2, <2>4, <2>6, <2>8
    <3>2. /\ IsCall(q) /\ Frame(c, q) /\ Still(c, q) /\ q.open = s.open
          /\ q.ret = c.ret /\ q.calls = c.calls /\ q.maps = s.maps
      BY <2>5, <3>1, CloseEffect
    <3>3. r = Invalidated(q, k)
      BY <2>1, <2>8 DEF FirstRef, Ok
    <3> HIDE DEF q
    <3>4. Touched(s, q)
      BY <2>5, <3>2, FrameTrans DEF Touched, Still
    <3>5. q.tables = s.tables
      BY <3>4 DEF Touched, Still
    <3>6. r = WithEntry(q, k, e)
      BY <1>1, <3>2, <3>3, <3>5, InvalidatedIs DEF IsCall
    <3>7. b \in BOOLEAN
      OBVIOUS
    <3> HIDE DEF t, b
    <3>8. Grown(s, r) /\ r.ret = q.ret /\ Len(r.tables) = Len(s.tables)
      BY <1>0, <1>4, <3>4, <3>6, <3>7, IdleChanged
    <3> QED
      BY <2>8, <3>2, <3>8 DEF Ok
  <2>9. CASE ~Ok(c) /\ c.ret # "BAD_CHECKSUM"
    <3> DEFINE e == IdleEntry(t, t.invalid)
    <3>1. c = m /\ ~Ok(m)
      BY <2>3, <2>9
    <3>2. Touched(s, c)
      BY <2>2, <2>5, <3>1 DEF Touched
    <3>3. r = [c EXCEPT !.tables[k].ptr = NULL]
      BY <2>1, <2>9 DEF FirstRef
    <3>4. e = [t EXCEPT !.ptr = NULL]
      BY <1>1 DEF Entry, IdleEntry
    <3>5. r = WithEntry(c, k, e)
      BY <2>5, <3>2, <3>3, <3>4 DEF WithEntry, IsCall, Touched, Still
    <3>6. t.invalid \in BOOLEAN
      BY <1>1 DEF Entry
    <3> HIDE DEF t
    <3>7. Grown(s, r) /\ r.ret = c.ret /\ Len(r.tables) = Len(s.tables)
      BY <1>0, <1>4, <3>2, <3>5, <3>6, IdleChanged
    <3> QED
      BY <2>9, <3>7 DEF Ok
  <2> QED
    BY <2>7, <2>8, <2>9
<1> QED
  BY <1>1, <1>2, <1>3, <1>4 DEF Entry

-----------------------------------------------------------------------------
\* Tables nobody was given, and then one somebody was; none was added.
LEMMA GrownGiven ==
    ASSUME NEW s, IsCall(s), NEW t, NEW r, NEW k \in Nat,
           Grown(s, t), Given(t, r, k), Len(t.tables) = Len(s.tables)
    PROVE  Given(s, r, k)
<1>1. IsCall(t) /\ IsCall(r) /\ Frame(s, t) /\ Frame(t, r)
  BY DEF Grown, Given, FirstGiven, MoreGiven
<1>2. Frame(s, r)
  BY <1>1, FrameTrans
<1>3. Len(s.tables) \in Nat /\ Len(t.tables) \in Nat /\ Len(r.tables) \in Nat
  BY <1>1, TablesLength
<1>4. OthersKept(s, t, 0) /\ OthersKept(t, r, k)
  BY DEF Grown, Given, FirstGiven, MoreGiven
<1>5. OthersKept(s, r, k)
  BY <1>3, <1>4, OthersTrans
<1>6. t.open = s.open /\ t.maps = s.maps
  BY DEF Grown
<1>7. k \in 1..Len(s.tables) => Ungiven(s.tables[k], t.tables[k])
  BY <1>3, <1>4 DEF OthersKept
<1>8. CASE FirstGiven(t, r, k)
  <2>1. k <= Len(s.tables) =>
          /\ s.tables[k].refs = 0
          /\ r.tables[k].addr = s.tables[k].addr
          /\ r.tables[k].origin = s.tables[k].origin
          /\ r.tables[k].loaded = s.tables[k].loaded
          /\ t.tables[k].verified = s.tables[k].verified
    BY <1>3, <1>7, <1>8 DEF FirstGiven, Ungiven
  <2>2. Physical(r.tables[k].origin) => MappedFor(s, r, r.tables[k])
    BY <1>6, <1>8 DEF FirstGiven, MappedFor
  <2>3. FirstGiven(s, r, k)
    BY <1>2, <1>5, <1>6, <1>8, <2>1, <2>2 DEF FirstGiven
  <2> QED
    BY <2>3 DEF Given
<1>9. CASE MoreGiven(t, r, k)
  <2>1. k \in 1..Len(s.tables) /\ t.tables[k].refs > 0
    BY <1>9 DEF MoreGiven
  <2>2. t.tables[k] = s.tables[k]
    BY <1>7, <2>1 DEF Ungiven
  <2>3. MoreGiven(s, r, k)
    BY <1>1, <1>2, <1>5, <1>6, <1>9, <2>1, <2>2 DEF MoreGiven
  <2> QED
    BY <2>3 DEF Given
<1> QED
  BY <1>8, <1>9 DEF Given

\* Another status, and the answer filled in.
Told(t, j) == [t EXCEPT !.out = HandleOf(t, j)]

\* Telling the caller where the table is changes no table.
LEMMA ToldEffect ==
    ASSUME NEW s, NEW t, NEW j \in Nat, Given(s, t, j), NEW r, r = Told(t, j)
    PROVE  Given(s, r, j) /\ r.out = HandleOf(r, j) /\ r.ret = t.ret
           /\ r.tables = t.tables
<1>1. IsCall(t) /\ Frame(s, t)
  BY DEF Given, FirstGiven, MoreGiven
<1>2. /\ r.tables = t.tables /\ r.cap = t.cap /\ r.home = t.home
      /\ r.maps = t.maps /\ r.fadt = t.fadt /\ r.early = t.early
      /\ r.flags = t.flags /\ r.open = t.open /\ r.out = HandleOf(t, j)
      /\ r.plan = t.plan /\ r.calls = t.calls /\ r.ret = t.ret
      /\ DOMAIN r = Fields
  BY <1>1 DEF IsCall, Fields, Told
<1>3. IsCall(r) /\ Frame(s, r)
  BY <1>1, <1>2 DEF IsCall, BackedIn, Frame
<1>4. OthersKept(s, t, j) => OthersKept(s, r, j)
  BY <1>2 DEF OthersKept
<1>5. FirstGiven(s, t, j) => FirstGiven(s, r, j)
  BY <1>2, <1>3, <1>4
     DEF FirstGiven, MappedFor, Served, ChecksumRight
<1>6. MoreGiven(s, t, j) => MoreGiven(s, r, j)
  BY <1>2, <1>3, <1>4 DEF MoreGiven
<1> QED
  BY <1>2, <1>5, <1>6 DEF Given, HandleOf

\* A search that has found nothing so far, or has found and given a table.
Sought(s, f) ==
  /\ Len(f.tables) = Len(s.tables)
  /\ \/ Grown(s, f) /\ ~Ok(f)
     \/ Ok(f) /\ \E j \in Nat : Given(s, f, j) /\ f.out = HandleOf(f, j)

\* One table more is compared, and perhaps referenced.
LEMMA VisitEffect ==
    ASSUME Setting, NEW s, IsCall(s), NEW f, Sought(s, f),
           NEW k \in 1..Len(s.tables), NEW base, NEW sig,
           NEW r, r = Visit(f, k, base, sig)
    PROVE  Sought(s, r)
<1> DEFINE q == Fail(f, "OK")
           x == table_ref_unlocked(q, k)
<1>1. CASE r = f
  BY <1>1
<1>2. CASE r # f
  <2>1. f.ret = "NOT_FOUND" /\ r = Visited(x, k)
    BY <1>2 DEF Visit
  <2>2. Grown(s, f)
    BY <2>1 DEF Sought, Ok
  <2>3. Grown(s, q) /\ q.ret = "OK"
    BY <2>2, GrownFail
  <2>4. q.tables = f.tables
    BY <2>2, FailEffect DEF Grown, Still
  <2> HIDE DEF q
  <2>5. Len(q.tables) = Len(s.tables) /\ IsCall(q) /\ Ok(q)
    BY <2>3, <2>4 DEF Grown, Sought, Ok
  <2>6. /\ Len(x.tables) = Len(q.tables)
        /\ IF Ok(x) THEN Given(q, x, k) /\ x.out = q.out ELSE Grown(q, x)
    BY <2>5, RefEffect
  <2> HIDE DEF x
  <2>7. CASE Ok(x)
    <3>1. Given(s, x, k)
      BY <2>3, <2>5, <2>6, <2>7, GrownGiven
    <3>2. r = Told(x, k)
      BY <2>1, <2>7 DEF Visited, Told, HandleOf, Ok
    <3>3. Given(s, r, k) /\ r.out = HandleOf(r, k) /\ r.ret = x.ret
          /\ r.tables = x.tables
      <4>1. k \in Nat
        OBVIOUS
      <4> QED
        BY <3>1, <3>2, <4>1, ToldEffect
    <3> QED
      BY <2>5, <2>6, <2>7, <3>3 DEF Sought, Ok
  <2>8. CASE ~Ok(x)
    <3>1. Grown(s, x)
      BY <2>3, <2>6, <2>8, GrownTrans
    <3>2. r = x \/ r = Fail(x, "NOT_FOUND")
      BY <2>1, <2>8 DEF Visited, Ok
    <3>3. Grown(s, r) /\ ~Ok(r)
      BY <2>8, <3>1, <3>2, GrownFail DEF Ok
    <3>4. r.tables = x.tables
      BY <3>1, <3>2, FailEffect DEF Grown, Still
    <3> QED
      BY <2>5, <2>6, <3>3, <3>4 DEF Sought
  <2> QED
    BY <2>7, <2>8
<1> QED
  BY <1>1, <1>2

\* The recursion of find_table: f is that function up to n.
Searching(s, base, sig, f, n) ==
  f = [k \in 0..n |-> IF k = 0 THEN Fail(s, "NOT_FOUND")
                      ELSE Visit(f[k - 1], k, base, sig)]

\* There is such a function for every number of tables.
LEMMA SearchingExists ==
    ASSUME NEW s, NEW base, NEW sig, NEW n \in Nat
    PROVE  \E f : Searching(s, base, sig, f, n)
<1> DEFINE T == {k \in Nat : ~\E f : Searching(s, base, sig, f, k)}
           First == Fail(s, "NOT_FOUND")
<1> SUFFICES ASSUME T # {} PROVE FALSE
  OBVIOUS
<1>1. PICK k \in T : \A j \in T : k <= j
  BY LeastExists
<1>2. k # 0
  <2>1. Searching(s, base, sig, [j \in 0..0 |-> First], 0)
    BY DEF Searching
  <2> QED
    BY <2>1
<1>3. k - 1 \in Nat /\ k - 1 \notin T
  BY <1>1, <1>2
<1>4. PICK f : Searching(s, base, sig, f, k - 1)
  BY <1>3
<1> DEFINE g == [j \in 0..k |-> IF j < k THEN f[j]
                                ELSE Visit(f[k - 1], k, base, sig)]
<1>5. /\ DOMAIN f = 0..(k - 1) /\ f[0] = First
      /\ \A j \in 1..(k - 1) : f[j] = Visit(f[j - 1], j, base, sig)
  BY <1>3, <1>4 DEF Searching
<1> HIDE DEF First
<1>6. \A j \in 0..k : g[j] = IF j = 0 THEN First
                             ELSE Visit(g[j - 1], j, base, sig)
  <2> SUFFICES ASSUME NEW j \in 0..k
               PROVE  g[j] = IF j = 0 THEN First
                             ELSE Visit(g[j - 1], j, base, sig)
    OBVIOUS
  <2>1. CASE j = 0
    BY <1>2, <1>5, <2>1
  <2>2. CASE j \in 1..(k - 1)
    BY <1>5, <2>2
  <2>3. CASE j = k
    BY <1>2, <1>3, <2>3
  <2> QED
    BY <1>3, <2>1, <2>2, <2>3
<1>7. Searching(s, base, sig, g, k)
  BY <1>6 DEF Searching, First
<1> QED
  BY <1>1, <1>7

\* find_table gives the table it has found, or none.
LEMMA FindEffect ==
    ASSUME Setting, NEW s, IsCall(s), NEW base, NEW sig,
           NEW r, r = find_table(s, base, sig)
    PROVE  Sought(s, r)
<1> DEFINE n == Len(s.tables)
           f == CHOOSE f : Searching(s, base, sig, f, n)
<1>1. n \in Nat
  BY DEF IsCall
<1>2. Searching(s, base, sig, f, n)
  BY <1>1, SearchingExists
<1>3. r = f[n]
  BY DEF find_table, Searching
<1> HIDE DEF f
<1>4. f[0] = Fail(s, "NOT_FOUND")
      /\ \A k \in 1..n : f[k] = Visit(f[k - 1], k, base, sig)
  <2> HIDE DEF n
  <2>1. 0 \in 0..n /\ \A k \in 1..n : k \in 0..n /\ k # 0
    BY <1>1
  <2>2. \A k \in 0..n : f[k] = IF k = 0 THEN Fail(s, "NOT_FOUND")
                                ELSE Visit(f[k - 1], k, base, sig)
    BY <1>2 DEF Searching
  <2> QED
    BY <2>1, <2>2
<1> DEFINE T == {k \in 0..n : ~Sought(s, f[k])}
<1>5. T = {}
  <2> SUFFICES ASSUME T # {} PROVE FALSE
    OBVIOUS
  <2>1. PICK k \in T : \A j \in T : k <= j
    <3>1. T \in SUBSET Nat
      BY <1>1
    <3> HIDE DEF T
    <3> QED
      BY <3>1, LeastExists
  <2>2. k # 0
    <3>1. Grown(s, f[0]) /\ ~Ok(f[0]) /\ f[0].tables = s.tables
      BY <1>4, GrownSelf, GrownFail, FailEffect DEF Ok, Still
    <3> QED
      BY <3>1 DEF Sought
  <2>3. k \in 1..n /\ k - 1 \in 0..n /\ Sought(s, f[k - 1])
    BY <1>1, <2>1, <2>2
  <2>4. Sought(s, f[k])
    BY <1>4, <2>3, VisitEffect
  <2> QED
    BY <2>1, <2>4
<1> QED
  BY <1>1, <1>3, <1>5

-----------------------------------------------------------------------------
(***************************************************************************)
(* The tables firmware names.                                              *)
(***************************************************************************)
Firmware ==
  /\ Setting
  /\ root \notin {NoRsdp, NoRoot} => root.entries \in Seq(Addrs \cup {NULL})

\* A mapping that is only looked at.
LEMMA ReadEffect ==
    ASSUME NEW s, IsCall(s), NEW addr \in Nat, NEW sig, NEW expect,
           NEW r, r = Unmapped(uacpi_check_table_signature(
                                 uacpi_kernel_map(s, addr), sig, expect), s.open)
    PROVE  Touched(s, r)
<1> DEFINE m == uacpi_kernel_map(s, addr)
           c == uacpi_check_table_signature(m, sig, expect)
<1>1. /\ IsCall(m) /\ Frame(s, m) /\ Still(s, m)
      /\ Ok(m) => \E v \in Nat : NewMapping(s, m, v, addr)
      /\ ~Ok(m) => m.open = s.open /\ m.maps = s.maps
  BY MapEffect
<1>2. r = Unmapped(c, s.open)
  OBVIOUS
<1> HIDE DEF m
<1>3. Judged(m, c)
  BY <1>1, SignatureEffect
<1> HIDE DEF c
<1>4. IsCall(c) /\ Frame(s, c) /\ Still(s, c)
  BY <1>1, <1>3, FrameTrans DEF Judged, Still
<1>5. \/ c.open = s.open /\ c.maps = s.maps
      \/ \E v, a \in Nat : NewMapping(s, c, v, a)
  <2>1. ASSUME NEW v \in Nat, NewMapping(s, m, v, addr)
        PROVE  NewMapping(s, c, v, addr)
    BY <1>1, <1>3, <2>1 DEF NewMapping, Judged, Served, Frame
  <2> QED
    BY <1>1, <1>3, <2>1 DEF Judged
<1>6. /\ IsCall(r) /\ Frame(c, r) /\ Still(c, r) /\ r.open = s.open
      /\ r.ret = c.ret /\ r.calls = c.calls /\ r.maps = s.maps
  BY <1>2, <1>4, <1>5, CloseEffect
<1> QED
  BY <1>4, <1>6, FrameTrans DEF Touched, Still

\* The RSDP is looked at and unmapped.
LEMMA RsdpEffect ==
    ASSUME NEW s, IsCall(s), NEW r, r = RsdpRead(s)
    PROVE  Touched(s, r)
<1> DEFINE m == uacpi_kernel_map(s, RsdpAddr)
<1>1. RsdpAddr \in Nat
  BY DEF RsdpAddr
<1>2. /\ IsCall(m) /\ Frame(s, m) /\ Still(s, m)
      /\ Ok(m) => \E v \in Nat : NewMapping(s, m, v, RsdpAddr)
      /\ ~Ok(m) => m.open = s.open /\ m.maps = s.maps
  BY <1>1, MapEffect
<1>3. r = Unmapped(m, s.open)
  BY DEF RsdpRead
<1> HIDE DEF m
<1>4. /\ IsCall(r) /\ Frame(m, r) /\ Still(m, r) /\ r.open = s.open
      /\ r.ret = m.ret /\ r.calls = m.calls /\ r.maps = s.maps
  BY <1>1, <1>2, <1>3, CloseEffect
<1> QED
  BY <1>2, <1>4, FrameTrans DEF Touched, Still

\* One entry of the RSDT is installed, and given to nobody.
LEMMA EntryEffect ==
    ASSUME Setting, NEW s, IsCall(s), NEW addr \in Addrs \cup {NULL},
           NEW r, r = EntryInstalled(s, addr)
    PROVE  Grown(s, r)
<1>1. CASE ~Ok(s) \/ addr = NULL
  BY <1>1, GrownSelf DEF EntryInstalled
<1>2. CASE Ok(s) /\ addr # NULL
  <2>1. r = install_firmware(s, addr, "any", FALSE, initialize_fadt)
    BY <1>2 DEF EntryInstalled, table_install_physical_with_origin_unlocked
  <2>2. Installed(s, r, FALSE)
    BY <1>2, <2>1, OuterFirmware
  <2> QED
    BY <2>2 DEF Installed
<1> QED
  BY <1>1, <1>2

\* The recursion of initialize_from_rxsdt: f is that function up to n.
Installing(first, f, n) ==
  f = [k \in 0..n |-> IF k = 0 THEN first
                      ELSE EntryInstalled(f[k - 1], root.entries[k])]

\* There is such a function for every number of entries.
LEMMA InstallingExists ==
    ASSUME NEW first, NEW n \in Nat
    PROVE  \E f : Installing(first, f, n)
<1> DEFINE T == {k \in Nat : ~\E f : Installing(first, f, k)}
<1> SUFFICES ASSUME T # {} PROVE FALSE
  OBVIOUS
<1>1. PICK k \in T : \A j \in T : k <= j
  BY LeastExists
<1>2. k # 0
  <2>1. Installing(first, [j \in 0..0 |-> first], 0)
    BY DEF Installing
  <2> QED
    BY <2>1
<1>3. k - 1 \in Nat /\ k - 1 \notin T
  BY <1>1, <1>2
<1>4. PICK f : Installing(first, f, k - 1)
  BY <1>3
<1> DEFINE g == [j \in 0..k |-> IF j < k THEN f[j]
                                ELSE EntryInstalled(f[k - 1], root.entries[k])]
<1>5. /\ DOMAIN f = 0..(k - 1) /\ f[0] = first
      /\ \A j \in 1..(k - 1) : f[j] = EntryInstalled(f[j - 1], root.entries[j])
  BY <1>3, <1>4 DEF Installing
<1>6. \A j \in 0..k : g[j] = IF j = 0 THEN first
                             ELSE EntryInstalled(g[j - 1], root.entries[j])
  <2> SUFFICES ASSUME NEW j \in 0..k
               PROVE  g[j] = IF j = 0 THEN first
                             ELSE EntryInstalled(g[j - 1], root.entries[j])
    OBVIOUS
  <2>1. CASE j = 0
    BY <1>2, <1>5, <2>1
  <2>2. CASE j \in 1..(k - 1)
    BY <1>5, <2>2
  <2>3. CASE j = k
    BY <1>2, <1>3, <2>3
  <2> QED
    BY <1>3, <2>1, <2>2, <2>3
<1>7. Installing(first, g, k)
  BY <1>6 DEF Installing
<1> QED
  BY <1>1, <1>7

\* The tables the RSDT names are added, and given to nobody.
LEMMA EntriesEffect ==
    ASSUME Setting, root.entries \in Seq(Addrs \cup {NULL}),
           NEW s, IsCall(s), NEW f, Installing(s, f, Len(root.entries))
    PROVE  Grown(s, f[Len(root.entries)])
<1> DEFINE n == Len(root.entries)
           T == {k \in 0..n : ~Grown(s, f[k])}
<1>1. n \in Nat /\ \A k \in 1..n : root.entries[k] \in Addrs \cup {NULL}
  OBVIOUS
<1>2. f[0] = s /\ \A k \in 1..n : f[k] = EntryInstalled(f[k - 1], root.entries[k])
  <2> HIDE DEF n
  <2>1. 0 \in 0..n /\ \A k \in 1..n : k \in 0..n /\ k # 0
    BY <1>1
  <2>2. \A k \in 0..n : f[k] = IF k = 0 THEN s
                                ELSE EntryInstalled(f[k - 1], root.entries[k])
    BY DEF Installing, n
  <2> QED
    BY <2>1, <2>2
<1>3. T = {}
  <2> SUFFICES ASSUME T # {} PROVE FALSE
    OBVIOUS
  <2>1. PICK k \in T : \A j \in T : k <= j
    <3>1. T \in SUBSET Nat
      BY <1>1
    <3> HIDE DEF T
    <3> QED
      BY <3>1, LeastExists
  <2>2. k # 0
    BY <1>2, GrownSelf
  <2>3. k \in 1..n /\ k - 1 \in 0..n /\ Grown(s, f[k - 1])
    BY <1>1, <2>1, <2>2
  <2>4. Grown(f[k - 1], f[k])
    BY <1>1, <1>2, <2>3, EntryEffect DEF Grown
  <2>5. Grown(s, f[k])
    BY <2>3, <2>4, GrownTrans
  <2> QED
    BY <2>1, <2>5
<1> QED
  BY <1>1, <1>3

\* initialize_from_rxsdt adds tables and gives nobody one.
LEMMA RxsdtEffect ==
    ASSUME Firmware, root \notin {NoRsdp, NoRoot}, NEW s, IsCall(s),
           NEW r, r = initialize_from_rxsdt(s)
    PROVE  Grown(s, r)
<1> DEFINE h == RxsdtHeader(s)
           l == LongEnough(h)
           m == uacpi_kernel_map(l, RootAddr)
           c == uacpi_verify_table_checksum(m, root.good)
           n == Len(root.entries)
           f == CHOOSE f : Installing(c, f, n)
<1>1. RootAddr \in Nat /\ Setting /\ root.entries \in Seq(Addrs \cup {NULL})
  BY DEF RootAddr, Firmware
<1>2. Touched(s, h)
  BY <1>1, ReadEffect DEF RxsdtHeader
<1> HIDE DEF h
<1>3. Touched(s, l)
  <2>1. l = h \/ l = Fail(h, "INVALID_TABLE_LENGTH")
    BY DEF LongEnough
  <2> HIDE DEF l
  <2>2. Touched(h, l)
    BY <1>2, <2>1, FailEffect DEF Touched, Frame, Still, IsCall
  <2> QED
    BY <1>2, <2>2, TouchedTrans
<1>4. IsCall(l) /\ l.open = s.open
  BY <1>3 DEF Touched
<1> HIDE DEF l
<1>5. Looked(l, m)
  <2>1. /\ IsCall(m) /\ Frame(l, m) /\ Still(l, m)
        /\ Ok(m) => \E v \in Nat : NewMapping(l, m, v, RootAddr)
        /\ ~Ok(m) => m.open = l.open /\ m.maps = l.maps
    BY <1>1, <1>4, MapEffect
  <2> QED
    BY <1>1, <2>1 DEF Looked
<1> HIDE DEF m
<1>6. Grown(m, c)
  <2>1. IsCall(m)
    BY <1>5 DEF Looked
  <2>2. Judged(m, c)
    BY <2>1, ChecksumEffect
  <2> QED
    BY <2>1, <2>2, JudgedTouched, TouchedGrown
<1> HIDE DEF c
<1>7. Installing(c, f, n)
  <2>1. n \in Nat
    BY <1>1
  <2> QED
    BY <2>1, InstallingExists
<1>8. r = Unmapped(f[n], s.open)
  BY DEF initialize_from_rxsdt, Installing, c, m, l, h
<1> HIDE DEF f
<1>9. Grown(c, f[n])
  BY <1>1, <1>6, <1>7, EntriesEffect DEF Grown
<1>10. IsCall(m)
  BY <1>5 DEF Looked
<1>11. Grown(m, f[n])
  BY <1>6, <1>9, <1>10, GrownTrans
<1>12. Grown(l, r)
  BY <1>4, <1>5, <1>8, <1>11, LookedClosed
<1>13. Grown(s, l)
  BY <1>3, TouchedGrown
<1> QED
  BY <1>12, <1>13, GrownTrans

\* initialize_from_rsdp adds tables and gives nobody one.
LEMMA RootEffect ==
    ASSUME Firmware, NEW s, IsCall(s), NEW r, r = initialize_from_rsdp(s)
    PROVE  Grown(s, r)
<1> DEFINE q == [s EXCEPT !.is_rev1 = TRUE]
           p == RsdpRead(q)
<1>1. /\ q.tables = s.tables /\ q.cap = s.cap /\ q.home = s.home
      /\ q.maps = s.maps /\ q.fadt = s.fadt /\ q.early = s.early
      /\ q.flags = s.flags /\ q.open = s.open /\ q.out = s.out
      /\ q.plan = s.plan /\ q.calls = s.calls /\ q.ret = s.ret
      /\ DOMAIN q = Fields
  BY DEF IsCall, Fields
<1>2. \/ r = Fail(q, "NOT_FOUND")
      \/ root \notin {NoRsdp, NoRoot} /\ r = initialize_from_rxsdt(p)
      \/ r = Fail(p, "INVALID_ARGUMENT")
      \/ r = p
  BY DEF initialize_from_rsdp
<1> HIDE DEF q
<1>3. IsCall(q) /\ Grown(s, q)
  <2>1. IsCall(q) /\ Touched(s, q)
    BY <1>1 DEF IsCall, BackedIn, Touched, Frame, Still
  <2> QED
    BY <2>1, TouchedGrown
<1>4. Grown(s, p) /\ IsCall(p)
  <2>1. Touched(q, p)
    BY <1>3, RsdpEffect
  <2> HIDE DEF p
  <2> QED
    BY <1>3, <2>1, TouchedGrown, GrownTrans DEF Touched
<1> HIDE DEF p
<1> QED
  BY <1>2, <1>3, <1>4, GrownFail, RxsdtEffect, GrownTrans

-----------------------------------------------------------------------------
(***************************************************************************)
(* uacpi_initialize_tables.                                                *)
(***************************************************************************)
\* b is s before any table is added, its array perhaps moved to the heap.
Started(s, b) ==
  /\ IsCall(b) /\ b.tables = s.tables /\ b.maps = s.maps
  /\ b.open = s.open /\ b.out = s.out /\ b.flags = s.flags

\* The FACS, if the FADT names one, is installed and kept.
LEMMA FacsEffect ==
    ASSUME Setting, NEW s, IsCall(s), NEW r, r = FacsInstalled(s)
    PROVE  Installed(s, r, TRUE)
<1>1. CASE ~Ok(s) \/ ~FacsWanted(s)
  BY <1>1, GrownSelf DEF FacsInstalled, Installed
<1>2. CASE Ok(s) /\ FacsWanted(s)
  <2> DEFINE addr == Memory[s.fadt].facs
  <2>1. addr \in Addrs
    BY <1>2, MemoryAssumption DEF FacsWanted, IsCall
  <2>2. r = install_firmware(s, addr, "FACS", TRUE, initialize_fadt)
    BY <1>2 DEF FacsInstalled, table_install_physical_with_origin_unlocked
  <2> HIDE DEF addr
  <2>3. Installed(s, r, TRUE)
    BY <2>1, <2>2, OuterFirmware
  <2> QED
    BY <2>3
<1> QED
  BY <1>1, <1>2

\* Looking after an installation changes nothing of it.
LEMMA InstalledTouched ==
    ASSUME NEW s, IsCall(s), NEW t, Installed(s, t, TRUE), NEW r, Touched(t, r)
    PROVE  Installed(s, r, TRUE)
<1>1. CASE Grown(s, t)
  BY <1>1, TouchedGrown, GrownTrans DEF Installed, Grown
<1>2. ASSUME NEW j \in Nat, j > Len(s.tables), Received(s, t, j)
      PROVE  Installed(s, r, TRUE)
  <2>1. IsCall(t) /\ IsCall(r) /\ Frame(t, r) /\ Still(t, r)
        /\ r.open = t.open /\ r.maps = t.maps
    BY <1>2 DEF Touched, Received, FirstGiven
  <2>2. Frame(s, r)
    BY <1>2, <2>1, FrameTrans DEF Received, FirstGiven
  <2>3. OthersKept(s, r, j)
    BY <1>2, <2>1 DEF Received, FirstGiven, OthersKept, Still
  <2>4. Physical(t.tables[j].origin) => MappedFor(s, r, t.tables[j])
    BY <1>2, <2>1, ServedMore DEF Received, FirstGiven, MappedFor
  <2>5. FirstGiven(s, r, j)
    BY <1>2, <2>1, <2>2, <2>3, <2>4
       DEF Received, FirstGiven, Still, ChecksumRight, Frame
  <2>6. r.out = HandleOf(r, j)
    BY <1>2, <2>1 DEF Received, HandleOf, Still
  <2> QED
    BY <1>2, <2>5, <2>6 DEF Received, Installed
<1> QED
  BY <1>1, <1>2 DEF Installed

\* The mutex is created or not, and no table changes.
LEMMA MutexEffect ==
    ASSUME NEW s, IsCall(s), NEW r, r = MutexCreated(s)
    PROVE  Touched(s, r) /\ (Ok(r) => Ok(s))
<1>1. CASE ~Ok(s)
  BY <1>1 DEF MutexCreated, Touched, Frame, Still, IsCall
<1>2. CASE Ok(s)
  <2>1. \/ r = [s EXCEPT !.calls = @ + 1, !.ret = "OUT_OF_MEMORY"]
        \/ r = [s EXCEPT !.calls = @ + 1]
    BY <1>2 DEF MutexCreated
  <2>2. /\ r.tables = s.tables /\ r.cap = s.cap /\ r.home = s.home
        /\ r.maps = s.maps /\ r.fadt = s.fadt /\ r.early = s.early
        /\ r.flags = s.flags /\ r.open = s.open /\ r.out = s.out
        /\ r.plan = s.plan /\ r.calls = s.calls + 1
        /\ DOMAIN r = Fields
    BY <2>1 DEF IsCall, Fields
  <2> QED
    BY <1>2, <2>2 DEF IsCall, BackedIn, Touched, Frame, Still
<1> QED
  BY <1>1, <1>2

\* The array moves from the early buffer to the heap, with all its tables.
LEMMA MovedEffect ==
    ASSUME Setting, NEW s, IsCall(s),
           NEW r, r = MovedToHeap(s, Len(s.tables) - InlineCap)
    PROVE  Started(s, r) /\ ~r.early
<1> DEFINE used == Len(s.tables) - InlineCap
<1>1. InlineCap \in Nat /\ Len(s.tables) \in Nat /\ used \in Int
  BY BuildsAssumption DEF Setting, InlineCap, IsCall
<1>2. /\ r.tables = s.tables /\ r.cap = (IF used > 0 THEN used ELSE 0)
      /\ r.home = (IF used > 0 THEN "heap" ELSE "none")
      /\ r.maps = s.maps /\ r.fadt = s.fadt /\ r.early = FALSE
      /\ r.flags = s.flags /\ r.open = s.open /\ r.out = s.out
      /\ r.plan = s.plan /\ r.calls = (IF used > 0 THEN s.calls + 1 ELSE s.calls)
      /\ DOMAIN r = Fields
  BY DEF IsCall, Fields, MovedToHeap
<1>3. BackedIn(r) /\ r.cap \in Nat
  <2>1. CASE used > 0
    BY <1>1, <1>2, <2>1 DEF BackedIn
  <2>2. CASE ~(used > 0)
    BY <1>1, <1>2, <2>2 DEF BackedIn
  <2> QED
    BY <2>1, <2>2
<1>4. r.calls \in Nat
  BY <1>2 DEF IsCall
<1>5. IsCall(r)
  BY <1>2, <1>3, <1>4 DEF IsCall
<1> QED
  BY <1>2, <1>5 DEF Started

\* Tables nobody was given, and then another one.
LEMMA GrownInstalled ==
    ASSUME NEW s, IsCall(s), NEW t, Grown(s, t), NEW r, Installed(t, r, TRUE)
    PROVE  Installed(s, r, TRUE)
<1>1. CASE Grown(t, r)
  BY <1>1, GrownTrans DEF Installed
<1>2. ASSUME NEW j \in Nat, j > Len(t.tables), Received(t, r, j)
      PROVE  Installed(s, r, TRUE)
  <2>1. IsCall(t) /\ IsCall(r) /\ Frame(s, t) /\ Frame(t, r)
        /\ t.open = s.open /\ t.maps = s.maps
    BY <1>2 DEF Grown, Received, FirstGiven
  <2>2. Frame(s, r)
    BY <2>1, FrameTrans
  <2>3. Len(s.tables) \in Nat /\ Len(t.tables) \in Nat /\ Len(r.tables) \in Nat
    BY <2>1, TablesLength
  <2>4. OthersKept(s, t, 0) /\ OthersKept(t, r, j)
    BY <1>2 DEF Grown, Received, FirstGiven
  <2>5. OthersKept(s, r, j)
    BY <2>3, <2>4, OthersTrans
  <2>6. j > Len(s.tables) /\ ~(j <= Len(s.tables)) /\ ~(j <= Len(t.tables))
    BY <1>2, <2>3, <2>4 DEF OthersKept
  <2>7. Physical(r.tables[j].origin) =>
          MappedFor(s, r, r.tables[j]) /\ ChecksumRight(r, r.tables[j].addr)
    BY <1>2, <2>1, <2>6 DEF Received, FirstGiven, MappedFor
  <2>8. FirstGiven(s, r, j)
    BY <1>2, <2>1, <2>2, <2>5, <2>6, <2>7 DEF Received, FirstGiven
  <2> QED
    BY <1>2, <2>6, <2>8 DEF Received, Installed
<1> QED
  BY <1>1, <1>2 DEF Installed

\* uacpi_initialize_tables moves the array and keeps the FACS at most.
LEMMA StartupEffect ==
    ASSUME Firmware, NEW s, IsCall(s), NEW r, r = uacpi_initialize_tables(s)
    PROVE  \E b : /\ Started(s, b) /\ Installed(b, r, TRUE)
                  /\ Ok(r) => ~b.early
<1> DEFINE used == Len(s.tables) - InlineCap
           moved == MovedToHeap(s, used)
           first == initialize_from_rsdp(s)
           x == IF ~s.early THEN first
                ELSE IF used > 0 /\ HostFails(s) THEN Fail(s, "OUT_OF_MEMORY")
                ELSE moved
           y == FacsInstalled(x)
<1>1. r = MutexCreated(y) /\ Setting
  BY DEF uacpi_initialize_tables, Firmware
<1>2. Started(s, s)
  BY DEF Started
<1>3. \E b : Started(s, b) /\ Grown(b, x) /\ (Ok(x) => ~b.early)
  <2>1. CASE ~s.early
    <3>1. x = first
      BY <2>1
    <3> HIDE DEF x
    <3>2. Grown(s, x)
      BY <3>1, RootEffect
    <3> QED
      BY <1>2, <2>1, <3>2
  <2>2. CASE s.early /\ used > 0 /\ HostFails(s)
    <3>1. x = Fail(s, "OUT_OF_MEMORY")
      BY <2>2
    <3> HIDE DEF x
    <3>2. Grown(s, x) /\ ~Ok(x)
      BY <3>1, GrownSelf, GrownFail DEF Ok
    <3> QED
      BY <1>2, <3>2
  <2>3. CASE s.early /\ ~(used > 0 /\ HostFails(s))
    <3>1. x = moved
      BY <2>3
    <3>2. Started(s, moved) /\ ~moved.early
      BY <1>1, MovedEffect
    <3> HIDE DEF x, moved
    <3>3. Grown(moved, x)
      BY <3>1, <3>2, GrownSelf DEF Started
    <3> QED
      BY <3>2, <3>3
  <2> QED
    BY <2>1, <2>2, <2>3
<1>4. PICK b : Started(s, b) /\ Grown(b, x) /\ (Ok(x) => ~b.early)
  BY <1>3
<1>5. IsCall(b) /\ IsCall(x)
  BY <1>4 DEF Started, Grown
<1> HIDE DEF x
<1>6. Installed(x, y, TRUE)
  BY <1>1, <1>5, FacsEffect
<1>7. Installed(b, y, TRUE)
  BY <1>4, <1>5, <1>6, GrownInstalled
<1>8. IsCall(y)
  BY <1>6 DEF Installed, Grown, Received, FirstGiven
<1>9. Ok(y) => Ok(x)
  BY DEF FacsInstalled
<1> HIDE DEF y
<1>10. Touched(y, r) /\ (Ok(r) => Ok(y))
  BY <1>1, <1>8, MutexEffect
<1>11. Installed(b, r, TRUE)
  BY <1>5, <1>7, <1>10, InstalledTouched
<1> QED
  BY <1>4, <1>9, <1>10, <1>11

-----------------------------------------------------------------------------
(***************************************************************************)
(* The mappings of a record are those of its referenced tables.            *)
(***************************************************************************)
RefIn(s) == {k \in 1..Len(s.tables) : s.tables[k].refs > 0
                                      /\ Physical(s.tables[k].origin)}

MappedRight(s) ==
  /\ \A k \in RefIn(s) : [va |-> s.tables[k].ptr, addr |-> s.tables[k].addr] \in s.maps
  /\ \A m \in s.maps : \E k \in RefIn(s) : s.tables[k].ptr = m.va
  /\ \A j, k \in RefIn(s) : s.tables[j].ptr = s.tables[k].ptr => j = k

\* Tables nobody was given leave the mappings right.
LEMMA GrownMapped ==
    ASSUME NEW s, IsCall(s), MappedRight(s), NEW r, Grown(s, r)
    PROVE  MappedRight(r)
<1>1. Len(s.tables) \in Nat /\ Len(r.tables) \in Nat
      /\ Len(s.tables) <= Len(r.tables) /\ r.maps = s.maps
  BY TablesLength DEF Grown, OthersKept
<1>2. \A k \in 1..Len(s.tables) : Ungiven(s.tables[k], r.tables[k])
  BY <1>1 DEF Grown, OthersKept
<1>3. \A k \in (Len(s.tables) + 1)..Len(r.tables) : r.tables[k].refs = 0
  BY <1>1 DEF Grown, OthersKept
<1>4. \A k \in 1..Len(s.tables) : s.tables[k].refs > 0 => r.tables[k] = s.tables[k]
  BY <1>2 DEF Ungiven
<1>5. RefIn(r) = RefIn(s) /\ \A k \in RefIn(s) : r.tables[k] = s.tables[k]
  <2>1. \A k \in RefIn(s) : r.tables[k] = s.tables[k]
    BY <1>4 DEF RefIn
  <2>2. RefIn(s) \subseteq RefIn(r)
    BY <1>1, <2>1 DEF RefIn
  <2>3. ASSUME NEW k \in RefIn(r) PROVE k \in RefIn(s)
    <3>1. k \in 1..Len(s.tables)
      BY <1>1, <1>3, <2>3 DEF RefIn
    <3> QED
      BY <1>2, <2>3, <3>1 DEF RefIn, Ungiven
  <2> QED
    BY <2>1, <2>2, <2>3
<1> QED
  BY <1>1, <1>5 DEF MappedRight

\* A table somebody is given has its mapping, and no other table has it.
LEMMA GivenMapped ==
    ASSUME Setting, NEW s, IsCall(s), MappedRight(s), NEW r, NEW j, Given(s, r, j)
    PROVE  MappedRight(r)
<1>1. IsCall(r) /\ OthersKept(s, r, j) /\ j \in 1..Len(r.tables)
  BY DEF Given, FirstGiven, MoreGiven, OthersKept, IsCall
<1>2. Len(s.tables) \in Nat /\ Len(r.tables) \in Nat
      /\ Len(s.tables) <= Len(r.tables)
  BY <1>1 DEF IsCall, OthersKept
<1>3. \A k \in 1..Len(s.tables) : k # j => Ungiven(s.tables[k], r.tables[k])
  BY <1>1 DEF OthersKept
<1>4. \A k \in (Len(s.tables) + 1)..Len(r.tables) : k # j => r.tables[k].refs = 0
  BY <1>1 DEF OthersKept
<1>5. \A k \in RefIn(s) : k # j => k \in RefIn(r) /\ r.tables[k] = s.tables[k]
  BY <1>2, <1>3 DEF RefIn, Ungiven
<1>6. ASSUME NEW k \in RefIn(r), k # j PROVE k \in RefIn(s)
  <2>1. k \in 1..Len(s.tables)
    BY <1>2, <1>4, <1>6 DEF RefIn
  <2> QED
    BY <1>3, <1>6, <2>1 DEF RefIn, Ungiven
<1>7. CASE FirstGiven(s, r, j)
  <2>1. j \notin RefIn(s)
    <3>1. ASSUME j \in RefIn(s) PROVE FALSE
      BY <1>7, <3>1 DEF RefIn, FirstGiven
    <3> QED
      BY <3>1
  <2>2. CASE Physical(r.tables[j].origin)
    <3>1. MappedFor(s, r, r.tables[j]) /\ r.tables[j].refs = 1
      BY <1>7, <2>2 DEF FirstGiven
    <3>2. RefIn(r) = RefIn(s) \cup {j}
      BY <1>1, <1>5, <1>6, <2>1, <2>2, <3>1 DEF RefIn
    <3> DEFINE p == r.tables[j].ptr
    <3>3. r.maps = s.maps \cup {[va |-> p, addr |-> r.tables[j].addr]}
          /\ \A m \in s.maps : m.va # p
      BY <3>1 DEF MappedFor
    <3>4. \A k \in RefIn(s) : r.tables[k] = s.tables[k] /\ s.tables[k].ptr # p
      <4>1. \A k \in RefIn(s) : r.tables[k] = s.tables[k]
        BY <1>5, <2>1
      <4>2. \A k \in RefIn(s) : s.tables[k].ptr # p
        BY <3>3 DEF MappedRight
      <4> QED
        BY <4>1, <4>2
    <3> QED
      BY <3>2, <3>3, <3>4 DEF MappedRight
  <2>3. CASE ~Physical(r.tables[j].origin)
    <3>1. r.maps = s.maps /\ j \notin RefIn(r)
      BY <1>7, <2>3 DEF FirstGiven, RefIn
    <3>2. RefIn(r) = RefIn(s) /\ \A k \in RefIn(s) : r.tables[k] = s.tables[k]
      BY <1>5, <1>6, <2>1, <3>1
    <3> QED
      BY <3>1, <3>2 DEF MappedRight
  <2> QED
    BY <2>2, <2>3
<1>8. CASE MoreGiven(s, r, j)
  <2> DEFINE e == s.tables[j]
             f == r.tables[j]
  <2>1. j \in 1..Len(s.tables) /\ e \in Entry /\ EntryFine(e) /\ e.refs > 0
        /\ r.maps = s.maps /\ f = [e EXCEPT !.refs = NextRef(@)]
    BY <1>8 DEF MoreGiven, IsCall
  <2>2. NextRef(e.refs) > 0
    BY <2>1, NextRefFine, MaxRefFine DEF Entry, EntryFine
  <2>3. f.refs > 0 /\ f.ptr = e.ptr /\ f.addr = e.addr /\ f.origin = e.origin
    BY <2>1, <2>2 DEF Entry
  <2>4. j \in RefIn(s) <=> j \in RefIn(r)
    BY <1>1, <2>1, <2>3 DEF RefIn
  <2>5. RefIn(r) = RefIn(s)
    BY <1>5, <1>6, <2>4
  <2>6. \A k \in RefIn(s) : r.tables[k].ptr = s.tables[k].ptr
                            /\ r.tables[k].addr = s.tables[k].addr
    BY <1>5, <2>3
  <2> QED
    BY <2>1, <2>5, <2>6 DEF MappedRight
<1> QED
  BY <1>7, <1>8 DEF Given

\* An installation leaves the mappings right.
LEMMA InstalledMapped ==
    ASSUME Setting, NEW s, IsCall(s), MappedRight(s), NEW r, Installed(s, r, TRUE)
    PROVE  IsCall(r) /\ MappedRight(r)
<1>1. CASE Grown(s, r)
  BY <1>1, GrownMapped DEF Grown
<1>2. ASSUME NEW j \in Nat, FirstGiven(s, r, j)
      PROVE  IsCall(r) /\ MappedRight(r)
  <2>1. Given(s, r, j)
    BY <1>2 DEF Given
  <2> QED
    BY <1>2, <2>1, GivenMapped DEF FirstGiven
<1> QED
  BY <1>1, <1>2 DEF Installed, Received

\* So nothing is mapped when all that is referenced has been unmapped.
LEMMA DeinitEffect ==
    ASSUME NEW s, IsCall(s), MappedRight(s),
           NEW r, r = uacpi_deinitialize_tables(s)
    PROVE  r.tables = <<>> /\ r.cap = 0 /\ r.home = "none" /\ r.maps = {}
           /\ r.early = s.early /\ r.fadt = s.fadt /\ DOMAIN r = Fields
<1> DEFINE live == {s.tables[k].ptr : k \in
                      {n \in DOMAIN s.tables : s.tables[n].refs # 0
                                               /\ Physical(s.tables[n].origin)}}
<1>1. r = [s EXCEPT !.maps = {m \in @ : m.va \notin live},
                    !.tables = <<>>, !.cap = 0, !.home = "none"]
  BY DEF uacpi_deinitialize_tables
<1>2. \A k \in RefIn(s) : s.tables[k].ptr \in live
  <2>1. \A k \in RefIn(s) : k \in DOMAIN s.tables /\ s.tables[k].refs # 0
                            /\ Physical(s.tables[k].origin)
    BY DEF RefIn, IsCall
  <2> QED
    BY <2>1
<1> HIDE DEF live
<1>3. {m \in s.maps : m.va \notin live} = {}
  BY <1>2 DEF MappedRight
<1> QED
  BY <1>1, <1>3 DEF IsCall, Fields

-----------------------------------------------------------------------------
(***************************************************************************)
(* From the record of a call to the state and back.                        *)
(***************************************************************************)
ArrayRight ==
  /\ tables \in Seq(Entry) /\ cap \in Nat
  /\ maps \subseteq Mapping /\ IsFiniteSet(maps)
  /\ fadt \in Addrs \cup {NULL}
  /\ EntriesSound /\ StorageBacked /\ OneMappingEach

Begun(s) ==
  /\ IsCall(s) /\ MappedRight(s)
  /\ s.tables = tables /\ s.maps = maps /\ s.open = <<>> /\ s.out = NoTable

\* What the invariant says of the array and of the firmware.
LEMMA InvArray ==
    ASSUME TablesInv
    PROVE  ArrayRight /\ Setting /\ Firmware
<1>1. ArrayRight
  BY DEF TablesInv, TypeOK, ArrayRight
<1>2. Setting
  BY DEF TablesInv, TypeOK, Setting
<1>3. Firmware
  BY <1>2, BuildsAssumption DEF TablesInv, TypeOK, Firmware, Setting
<1> QED
  BY <1>1, <1>2, <1>3

\* The fields of the record that a call begins with.
LEMMA BeginFields ==
    ASSUME NEW plan, NEW s, s = Begin(plan)
    PROVE  /\ DOMAIN s = Fields /\ s.tables = tables /\ s.cap = cap
           /\ s.home = home /\ s.maps = maps /\ s.fadt = fadt
           /\ (s.early <=> phase = "early") /\ s.flags = flags /\ s.ret = "OK"
           /\ s.open = <<>> /\ s.out = NoTable /\ s.calls = 0 /\ s.plan = plan
BY DEF Begin, Fields

\* A record with the tables and the mappings of the state has them right.
LEMMA StateMapped ==
    ASSUME ArrayRight, NEW s, s.tables = tables, s.maps = maps
    PROVE  MappedRight(s)
<1>1. RefIn(s) = Referenced
  BY DEF ArrayRight, RefIn, Referenced
<1> QED
  BY <1>1 DEF ArrayRight, OneMappingEach, MappedRight

\* A call begins with the array as it is.
LEMMA BegunPlain ==
    ASSUME ArrayRight, NEW plan, NEW s, s = Begin(plan)
    PROVE  Begun(s)
<1>1. /\ DOMAIN s = Fields /\ s.tables = tables /\ s.cap = cap
      /\ s.home = home /\ s.maps = maps /\ s.fadt = fadt
      /\ (s.early <=> phase = "early") /\ s.flags = flags /\ s.ret = "OK"
      /\ s.open = <<>> /\ s.out = NoTable /\ s.calls = 0 /\ s.plan = plan
  BY BeginFields
<1>2. \A k \in DOMAIN s.tables : EntryFine(s.tables[k])
  BY <1>1 DEF ArrayRight, EntriesSound, EntryFine
<1>3. BackedIn(s)
  BY <1>1 DEF ArrayRight, StorageBacked, BackedIn
<1>4. IsCall(s)
  BY <1>1, <1>2, <1>3 DEF ArrayRight, IsCall
<1> QED
  BY <1>1, <1>4, StateMapped DEF Begun

\* uacpi_initialize begins with the array as it is and with new flags.
LEMMA BegunFlags ==
    ASSUME ArrayRight, NEW plan, NEW fl,
           NEW s, s = [Begin(plan) EXCEPT !.flags = fl]
    PROVE  Begun(s) /\ (s.early <=> phase = "early") /\ s.flags = fl
<1> DEFINE b == Begin(plan)
<1>1. /\ DOMAIN b = Fields /\ (b.early <=> phase = "early") /\ Begun(b)
  BY BeginFields, BegunPlain
<1>2. s = [b EXCEPT !.flags = fl]
  OBVIOUS
<1> HIDE DEF b
<1>3. /\ s.tables = b.tables /\ s.cap = b.cap /\ s.home = b.home
      /\ s.maps = b.maps /\ s.fadt = b.fadt /\ s.early = b.early
      /\ s.flags = fl /\ s.open = b.open /\ s.out = b.out
      /\ s.plan = b.plan /\ s.calls = b.calls /\ s.ret = b.ret
      /\ DOMAIN s = Fields
  BY <1>1, <1>2 DEF Fields
<1>4. IsCall(s)
  BY <1>1, <1>3 DEF Begun, IsCall, BackedIn
<1> QED
  BY <1>1, <1>3, <1>4, StateMapped DEF Begun

\* uacpi_setup_early_table_access begins with the caller's buffer.
LEMMA BegunEarly ==
    ASSUME Setting, ArrayRight, tables = <<>>, NEW plan, NEW buf \in Nat,
           NEW s, s = [Begin(plan) EXCEPT !.cap = buf, !.home = "buffer",
                                          !.early = TRUE]
    PROVE  Begun(s) /\ s.early /\ s.flags = flags /\ s.plan = plan
<1> DEFINE b == Begin(plan)
<1>1. /\ DOMAIN b = Fields /\ b.flags = flags /\ b.plan = plan /\ Begun(b)
  BY BeginFields, BegunPlain
<1>2. s = [b EXCEPT !.cap = buf, !.home = "buffer", !.early = TRUE]
  OBVIOUS
<1> HIDE DEF b
<1>3. /\ s.tables = b.tables /\ s.cap = buf /\ s.home = "buffer"
      /\ s.maps = b.maps /\ s.fadt = b.fadt /\ s.early = TRUE
      /\ s.flags = b.flags /\ s.open = b.open /\ s.out = b.out
      /\ s.plan = b.plan /\ s.calls = b.calls /\ s.ret = b.ret
      /\ DOMAIN s = Fields
  <2>1. DOMAIN s = Fields
    BY <1>1, <1>2
  <2>2. s.cap = buf /\ s.home = "buffer" /\ s.early = TRUE
    BY <1>1, <1>2 DEF Fields
  <2>3. s.tables = b.tables /\ s.maps = b.maps /\ s.fadt = b.fadt
        /\ s.flags = b.flags /\ s.open = b.open
    BY <1>1, <1>2 DEF Fields
  <2>4. s.out = b.out /\ s.plan = b.plan /\ s.calls = b.calls /\ s.ret = b.ret
    BY <1>1, <1>2 DEF Fields
  <2> QED
    BY <2>1, <2>2, <2>3, <2>4
<1>4. BackedIn(s)
  <2>1. InlineCap \in Nat
    BY BuildsAssumption DEF Setting, InlineCap
  <2>2. Len(s.tables) = 0
    BY <1>1, <1>3 DEF Begun
  <2>3. s.cap = buf /\ s.home = "buffer" /\ s.early = TRUE
    BY <1>3
  <2> QED
    BY <2>1, <2>2, <2>3 DEF BackedIn
<1>5. IsCall(s)
  BY <1>1, <1>3, <1>4 DEF Begun, IsCall
<1> QED
  BY <1>1, <1>3, <1>5, StateMapped DEF Begun

\* The record of a call written back leaves the array right.
LEMMA Committed ==
    ASSUME NEW r, IsCall(r), MappedRight(r), Commit(r),
           r.early <=> phase' = "early"
    PROVE  ArrayRight'
<1>1. /\ tables' = r.tables /\ cap' = r.cap /\ home' = r.home
      /\ maps' = r.maps /\ fadt' = r.fadt /\ build' = build
  BY DEF Commit
<1>2. tables' \in Seq(Entry) /\ cap' \in Nat /\ maps' \subseteq Mapping
      /\ IsFiniteSet(maps') /\ fadt' \in Addrs \cup {NULL}
  BY <1>1 DEF IsCall
<1>3. EntriesSound'
  BY <1>1 DEF IsCall, EntryFine, EntriesSound, MaxRef
<1>4. StorageBacked'
  BY <1>1 DEF IsCall, BackedIn, StorageBacked, InlineCap
<1>5. Referenced' = RefIn(r)
  BY <1>1 DEF Referenced, RefIn, IsCall
<1>6. OneMappingEach'
  BY <1>1, <1>5 DEF OneMappingEach, MappedRight
<1> QED
  BY <1>2, <1>3, <1>4, <1>6 DEF ArrayRight

-----------------------------------------------------------------------------
(***************************************************************************)
(* Two tables arrays: what a call does to the references in them.          *)
(***************************************************************************)
LiveIn(T, t) ==
  /\ t.index \in 1..Len(T)
  /\ T[t.index].refs > 0
  /\ T[t.index].ptr = t.ptr /\ t.ptr # NULL

CountsBounded(T) == \A k \in 1..Len(T) : T[k].refs <= MaxRef

\* No reference is lost from T to U, and there is one more to table j, if any.
Gained(T, U, j) ==
  /\ U \in Seq(Entry) /\ Len(T) <= Len(U)
  /\ \A k \in 1..Len(T) : /\ T[k].loaded => U[k].loaded
                          /\ T[k].refs > 0 => U[k].ptr = T[k].ptr
                          /\ k # j => U[k].refs = T[k].refs
  /\ \A k \in (Len(T) + 1)..Len(U) : k # j => U[k].refs = 0
  /\ j # 0 => /\ j \in 1..Len(U) /\ U[j].ptr # NULL
              /\ U[j].refs = IF j <= Len(T) THEN NextRef(T[j].refs) ELSE 1

\* One reference to table k is given back.
Lost(T, U, k) ==
  /\ U \in Seq(Entry) /\ Len(U) = Len(T) /\ k \in 1..Len(T)
  /\ \A i \in 1..Len(T) : i # k => U[i] = T[i]
  /\ U[k].loaded = T[k].loaded
  /\ T[k].refs > 0 /\ U[k].refs = PrevRef(T[k].refs)
  /\ U[k].refs > 0 => U[k].ptr = T[k].ptr

\* A record whose mappings are right has its referenced tables mapped.
LEMMA ReferencedPtr ==
    ASSUME NEW r, IsCall(r), MappedRight(r), NEW k \in 1..Len(r.tables),
           r.tables[k].refs > 0
    PROVE  r.tables[k].ptr # NULL
<1>1. CASE Physical(r.tables[k].origin)
  <2>1. [va |-> r.tables[k].ptr, addr |-> r.tables[k].addr] \in Mapping
    BY <1>1 DEF MappedRight, RefIn, IsCall
  <2> QED
    BY <2>1 DEF Mapping
<1>2. CASE ~Physical(r.tables[k].origin)
  BY <1>2 DEF IsCall, EntryFine
<1> QED
  BY <1>1, <1>2

\* Nobody has gained a reference where nobody was given a table.
LEMMA GrownGained ==
    ASSUME NEW s, IsCall(s), NEW r, Grown(s, r)
    PROVE  Gained(s.tables, r.tables, 0)
<1> DEFINE T == s.tables
           U == r.tables
<1>1. T \in Seq(Entry) /\ U \in Seq(Entry)
  BY DEF IsCall, Grown
<1>2. OthersKept(s, r, 0)
  BY DEF Grown
<1>3. \A k \in 1..Len(T) : Ungiven(T[k], U[k])
  BY <1>2 DEF OthersKept
<1>4. \A k \in 1..Len(T) : T[k].refs > 0 => U[k].ptr = T[k].ptr
  BY <1>1, <1>3 DEF Ungiven
<1> QED
  BY <1>1, <1>2, <1>3, <1>4 DEF Gained, OthersKept, Ungiven

\* The table somebody is given has gained one reference.
LEMMA GivenGained ==
    ASSUME Setting, NEW s, IsCall(s), MappedRight(s), NEW r, NEW j, Given(s, r, j)
    PROVE  j \in Nat \ {0} /\ Gained(s.tables, r.tables, j)
<1> DEFINE T == s.tables
           U == r.tables
<1>1. IsCall(r) /\ MappedRight(r) /\ OthersKept(s, r, j)
  BY GivenMapped DEF Given, FirstGiven, MoreGiven
<1>2. T \in Seq(Entry) /\ U \in Seq(Entry) /\ Len(T) <= Len(U)
  BY <1>1 DEF IsCall, OthersKept
<1>3. j \in 1..Len(U)
  BY <1>2 DEF Given, FirstGiven, MoreGiven
<1>4. \A k \in 1..Len(T) : k # j => Ungiven(T[k], U[k])
  BY <1>1 DEF OthersKept
<1>5. U[j].refs = IF j <= Len(T) THEN NextRef(T[j].refs) ELSE 1
  <2>1. CASE FirstGiven(s, r, j)
    BY <2>1, MaxRefFine DEF FirstGiven
  <2>2. CASE MoreGiven(s, r, j)
    <3>1. T[j] \in Entry /\ U[j] = [T[j] EXCEPT !.refs = NextRef(@)]
          /\ j \in 1..Len(T)
      BY <1>2, <2>2 DEF MoreGiven
    <3> QED
      BY <1>2, <3>1 DEF Entry
  <2> QED
    BY <2>1, <2>2 DEF Given
<1>6. U[j].refs > 0
  <2>1. CASE j <= Len(T)
    <3>1. T[j].refs \in Nat /\ T[j].refs <= MaxRef
      <4>1. j \in 1..Len(T) /\ T[j] \in Entry
        BY <1>2, <1>3, <2>1
      <4> QED
        BY <4>1 DEF IsCall, EntryFine, Entry
    <3> QED
      BY <1>5, <2>1, <3>1, NextRefFine
  <2> QED
    BY <1>5, <2>1
<1>7. U[j].ptr # NULL
  BY <1>1, <1>3, <1>6, ReferencedPtr
<1>8. \A k \in 1..Len(T) : /\ T[k].loaded => U[k].loaded
                           /\ T[k].refs > 0 => U[k].ptr = T[k].ptr
  <2> TAKE k \in 1..Len(T)
  <2>1. CASE k # j
    BY <1>4, <2>1 DEF Ungiven
  <2>2. CASE k = j /\ FirstGiven(s, r, j)
    BY <1>2, <2>2 DEF FirstGiven
  <2>3. CASE k = j /\ MoreGiven(s, r, j)
    <3>1. T[j] \in Entry /\ U[j] = [T[j] EXCEPT !.refs = NextRef(@)]
      BY <1>2, <2>3 DEF MoreGiven
    <3> QED
      BY <2>3, <3>1 DEF Entry
  <2> QED
    BY <2>1, <2>2, <2>3 DEF Given
<1> HIDE DEF T, U
<1>9. \A k \in (Len(T) + 1)..Len(U) : k # j => U[k].refs = 0
  BY <1>1 DEF OthersKept, T, U
<1>10. \A k \in 1..Len(T) : k # j => U[k].refs = T[k].refs
  BY <1>4 DEF Ungiven
<1>11. j \in Nat \ {0}
  BY <1>2, <1>3
<1>12. Gained(T, U, j)
  BY <1>2, <1>3, <1>5, <1>7, <1>8, <1>9, <1>10 DEF Gained
<1> QED
  BY <1>11, <1>12 DEF T, U

\* A handle stays good while no reference is lost, and a new one is good.
LEMMA GainedLive ==
    ASSUME Setting, NEW T \in Seq(Entry), CountsBounded(T), NEW U, NEW j \in Nat,
           Gained(T, U, j), NEW t \in Handle, LiveIn(T, t)
    PROVE  LiveIn(U, t)
<1> DEFINE k == t.index
<1>1. k \in 1..Len(T) /\ T[k].refs > 0 /\ U[k].ptr = t.ptr /\ t.ptr # NULL
  BY DEF LiveIn, Gained
<1>2. k \in 1..Len(U)
  BY <1>1 DEF Gained
<1>3. U[k].refs > 0
  <2>1. CASE k # j
    BY <1>1, <2>1 DEF Gained
  <2>2. CASE k = j
    <3>1. T[k].refs \in Nat /\ T[k].refs <= MaxRef
      <4>1. k \in 1..Len(T) /\ T[k] \in Entry
        BY <1>1
      <4> HIDE DEF k
      <4> QED
        BY <4>1 DEF CountsBounded, Entry
    <3>2. NextRef(T[k].refs) > 0
      BY <3>1, NextRefFine
    <3> QED
      BY <1>1, <2>2, <3>2 DEF Gained
  <2> QED
    BY <2>1, <2>2
<1> QED
  BY <1>1, <1>2, <1>3 DEF LiveIn

\* The handle of the table that has gained a reference is live.
LEMMA NewLive ==
    ASSUME Setting, NEW T \in Seq(Entry), CountsBounded(T), NEW U,
           NEW j \in Nat \ {0}, Gained(T, U, j)
    PROVE  LET t == [index |-> j, ptr |-> U[j].ptr]
           IN t \in Handle /\ LiveIn(U, t)
<1> DEFINE t == [index |-> j, ptr |-> U[j].ptr]
<1>1. j \in 1..Len(U) /\ U[j].ptr # NULL /\ U[j] \in Entry
  BY DEF Gained
<1>2. U[j].refs > 0
  <2>1. CASE j <= Len(T)
    <3>1. T[j].refs \in Nat /\ T[j].refs <= MaxRef
      <4>1. j \in 1..Len(T) /\ T[j] \in Entry
        BY <2>1
      <4> QED
        BY <4>1 DEF CountsBounded, Entry
    <3>2. NextRef(T[j].refs) > 0
      BY <3>1, NextRefFine
    <3> QED
      BY <2>1, <3>2 DEF Gained
  <2> QED
    BY <2>1 DEF Gained
<1>3. t \in Handle /\ t.index = j /\ t.ptr = U[j].ptr
  BY <1>1 DEF Handle, Entry
<1> QED
  BY <1>1, <1>2, <1>3 DEF LiveIn

\* A handle stays live while the table it names has references left.
LEMMA LostLive ==
    ASSUME NEW T \in Seq(Entry), NEW U, NEW k, Lost(T, U, k),
           NEW t \in Handle, LiveIn(T, t), t.index = k => U[k].refs > 0
    PROVE  LiveIn(U, t)
<1>1. CASE t.index = k
  BY <1>1 DEF Lost, LiveIn
<1>2. CASE t.index # k
  BY <1>2 DEF Lost, LiveIn
<1> QED
  BY <1>1, <1>2

-----------------------------------------------------------------------------
(***************************************************************************)
(* Counting who holds a reference.                                         *)
(***************************************************************************)
One(b) == IF b THEN 1 ELSE 0

HandlesTo(h, k) == {c \in Clients : h[c].index = k}
LoadsOf(h, l, k) == {c \in l : h[c].index = k}
HoldersIn(h, l, f, k) ==
  Cardinality(HandlesTo(h, k)) + Cardinality(LoadsOf(h, l, k)) + One(f.index = k)

\* The handles and the loads of a table can be counted.
LEMMA HoldersFinite ==
    ASSUME NEW h, NEW l \in SUBSET Clients, NEW k
    PROVE  /\ IsFiniteSet(HandlesTo(h, k)) /\ IsFiniteSet(LoadsOf(h, l, k))
           /\ Cardinality(HandlesTo(h, k)) \in Nat
           /\ Cardinality(LoadsOf(h, l, k)) \in Nat
<1>1. HandlesTo(h, k) \subseteq Clients /\ LoadsOf(h, l, k) \subseteq Clients
  BY DEF HandlesTo, LoadsOf
<1> QED
  BY <1>1, ClientsAssumption, FS_Subset, FS_CardinalityType

\* Only caller c holds something else.
OnlyHeld(h, g, c) == \A d \in Clients \ {c} : g[d] = h[d]

\* Caller c, who held nothing, holds something.
LEMMA HeldMore ==
    ASSUME NEW h, NEW g, NEW l \in SUBSET Clients, NEW f,
           NEW c \in Clients, c \notin l, OnlyHeld(h, g, c), h[c].index = 0,
           NEW k \in Nat \ {0}
    PROVE  HoldersIn(g, l, f, k) = HoldersIn(h, l, f, k) + One(g[c].index = k)
<1>1. LoadsOf(g, l, k) = LoadsOf(h, l, k)
  BY DEF LoadsOf, OnlyHeld
<1>2. Cardinality(HandlesTo(g, k)) = Cardinality(HandlesTo(h, k)) + One(g[c].index = k)
  <2>1. CASE g[c].index = k
    <3>1. HandlesTo(g, k) = HandlesTo(h, k) \cup {c} /\ c \notin HandlesTo(h, k)
      BY <2>1 DEF HandlesTo, OnlyHeld
    <3>2. IsFiniteSet(HandlesTo(h, k))
      BY HoldersFinite
    <3>3. Cardinality(HandlesTo(h, k) \cup {c}) = Cardinality(HandlesTo(h, k)) + 1
      BY <3>1, <3>2, FS_AddElement
    <3> QED
      BY <2>1, <3>1, <3>3 DEF One
  <2>2. CASE g[c].index # k
    <3>1. HandlesTo(g, k) = HandlesTo(h, k)
      BY <2>2 DEF HandlesTo, OnlyHeld
    <3> QED
      BY <2>2, <3>1, HoldersFinite DEF One
  <2> QED
    BY <2>1, <2>2
<1> QED
  BY <1>1, <1>2, HoldersFinite DEF HoldersIn, One

\* Caller c, who held something, holds nothing.
LEMMA HeldLess ==
    ASSUME NEW h, NEW g, NEW l \in SUBSET Clients, NEW f,
           NEW c \in Clients, c \notin l, OnlyHeld(h, g, c), g[c].index = 0,
           NEW k \in Nat \ {0}
    PROVE  HoldersIn(h, l, f, k) = HoldersIn(g, l, f, k) + One(h[c].index = k)
<1>1. OnlyHeld(g, h, c)
  BY DEF OnlyHeld
<1> QED
  BY <1>1, HeldMore

\* Caller c loads what it holds.
LEMMA LoadsMore ==
    ASSUME NEW h \in [Clients -> Handle], NEW l \in SUBSET Clients, NEW f,
           NEW c \in Clients, c \notin l, NEW m, m = l \cup {c}, NEW k
    PROVE  HoldersIn(h, m, f, k) = HoldersIn(h, l, f, k) + One(h[c].index = k)
<1>1. CASE h[c].index = k
  <2>1. LoadsOf(h, m, k) = LoadsOf(h, l, k) \cup {c}
        /\ c \notin LoadsOf(h, l, k)
    BY <1>1 DEF LoadsOf
  <2>2. IsFiniteSet(LoadsOf(h, l, k))
    BY HoldersFinite
  <2>3. Cardinality(LoadsOf(h, l, k) \cup {c}) = Cardinality(LoadsOf(h, l, k)) + 1
    BY <2>1, <2>2, FS_AddElement
  <2>4. /\ Cardinality(HandlesTo(h, k)) \in Nat
        /\ Cardinality(LoadsOf(h, l, k)) \in Nat
    BY HoldersFinite
  <2>5. Cardinality(LoadsOf(h, m, k)) = Cardinality(LoadsOf(h, l, k)) + 1
    BY <2>1, <2>3
  <2> QED
    BY <1>1, <2>4, <2>5 DEF HoldersIn, One
<1>2. CASE h[c].index # k
  <2>1. LoadsOf(h, m, k) = LoadsOf(h, l, k)
    BY <1>2 DEF LoadsOf
  <2> QED
    BY <1>2, <2>1, HoldersFinite DEF HoldersIn, One
<1> QED
  BY <1>1, <1>2

\* Who holds table k is counted.
LEMMA HolderCounts ==
    ASSUME NEW h \in [Clients -> Handle], NEW l \in SUBSET Clients, NEW f, NEW k,
           (\E c \in Clients : h[c].index = k) \/ f.index = k
    PROVE  HoldersIn(h, l, f, k) \in Nat /\ HoldersIn(h, l, f, k) > 0
<1>1. CASE f.index = k
  BY <1>1, HoldersFinite DEF HoldersIn, One
<1>2. CASE \E c \in Clients : h[c].index = k
  <2>1. HandlesTo(h, k) # {}
    BY <1>2 DEF HandlesTo
  <2>2. Cardinality(HandlesTo(h, k)) # 0
    BY <2>1, HoldersFinite, FS_EmptySet
  <2> QED
    BY <2>2, HoldersFinite DEF HoldersIn, One
<1> QED
  BY <1>1, <1>2

\* Nobody holds a table that is not there.
LEMMA NoHolders ==
    ASSUME NEW h \in [Clients -> Handle], NEW l \in SUBSET Clients, NEW f, NEW k,
           \A c \in Clients : h[c].index # k, f.index # k
    PROVE  HoldersIn(h, l, f, k) = 0
<1>1. HandlesTo(h, k) = {} /\ LoadsOf(h, l, k) = {}
  BY DEF HandlesTo, LoadsOf
<1> QED
  BY <1>1, FS_EmptySet DEF HoldersIn, One

\* Holders, as a function of who holds what.
LEMMA HoldersIs ==
    ASSUME NEW k
    PROVE  Holders(k) = HoldersIn(held, loading, facs, k)
BY DEF Holders, HoldersIn, HandlesTo, LoadsOf, One

\* The counts stay exact when a reference is given ...
ExactIn(T, h, l, f) ==
  \A k \in 1..Len(T) : T[k].refs # MaxRef => T[k].refs = HoldersIn(h, l, f, k)

\* The counts are exact again when the table and its holders gain one each.
LEMMA GainedCounts ==
    ASSUME Setting, NEW T \in Seq(Entry), CountsBounded(T), NEW U, NEW j \in Nat,
           Gained(T, U, j), NEW h, NEW l, NEW f, NEW g, NEW m, NEW e,
           ExactIn(T, h, l, f),
           \A k \in Nat \ {0} : k > Len(T) => HoldersIn(h, l, f, k) = 0,
           \A k \in Nat \ {0} :
             HoldersIn(g, m, e, k) = HoldersIn(h, l, f, k) + One(j = k)
    PROVE  ExactIn(U, g, m, e)
<1> SUFFICES ASSUME NEW k \in 1..Len(U), U[k].refs # MaxRef
             PROVE  U[k].refs = HoldersIn(g, m, e, k)
  BY DEF ExactIn
<1>1. Len(U) \in Nat /\ Len(T) \in Nat /\ k \in Nat \ {0}
  BY DEF Gained
<1>2. HoldersIn(g, m, e, k) = HoldersIn(h, l, f, k) + One(j = k)
  BY <1>1
<1>3. CASE k <= Len(T)
  <2>1. k \in 1..Len(T) /\ T[k] \in Entry
    BY <1>1, <1>3
  <2>2. T[k].refs \in Nat /\ T[k].refs <= MaxRef
    BY <2>1 DEF CountsBounded, Entry
  <2>3. U[k].refs = IF k = j THEN NextRef(T[k].refs) ELSE T[k].refs
    BY <1>3, <2>1 DEF Gained
  <2>4. T[k].refs # MaxRef
    BY <2>3 DEF NextRef
  <2>5. T[k].refs = HoldersIn(h, l, f, k)
    BY <2>1, <2>4 DEF ExactIn
  <2> QED
    BY <1>2, <2>2, <2>3, <2>4, <2>5 DEF NextRef, One
<1>4. CASE k > Len(T)
  <2>1. U[k].refs = IF k = j THEN 1 ELSE 0
    BY <1>1, <1>4 DEF Gained
  <2> QED
    BY <1>1, <1>2, <1>4, <2>1 DEF One
<1> QED
  BY <1>1, <1>3, <1>4

\* ... and when one is given back.
LEMMA LostCounts ==
    ASSUME Setting, NEW T \in Seq(Entry), CountsBounded(T), NEW U, NEW j \in Nat,
           Lost(T, U, j), NEW h, NEW l, NEW f, NEW g, NEW m,
           ExactIn(T, h, l, f),
           \A k \in Nat \ {0} : /\ HoldersIn(g, m, f, k) \in Nat
                                /\ HoldersIn(h, l, f, k)
                                     = HoldersIn(g, m, f, k) + One(j = k)
    PROVE  ExactIn(U, g, m, f)
<1> SUFFICES ASSUME NEW k \in 1..Len(U), U[k].refs # MaxRef
             PROVE  U[k].refs = HoldersIn(g, m, f, k)
  BY DEF ExactIn
<1>1. k \in 1..Len(T) /\ T[k] \in Entry /\ k \in Nat \ {0}
  BY DEF Lost
<1>2. /\ HoldersIn(g, m, f, k) \in Nat
      /\ HoldersIn(h, l, f, k) = HoldersIn(g, m, f, k) + One(j = k)
  BY <1>1
<1>3. T[k].refs \in Nat
  BY <1>1 DEF Entry
<1>4. U[k].refs = IF k = j THEN PrevRef(T[k].refs) ELSE T[k].refs
  BY <1>1 DEF Lost
<1>5. T[k].refs # MaxRef
  BY <1>4 DEF PrevRef
<1>6. T[k].refs = HoldersIn(h, l, f, k)
  BY <1>1, <1>5 DEF ExactIn
<1> QED
  BY <1>2, <1>3, <1>4, <1>5, <1>6 DEF PrevRef, One

-----------------------------------------------------------------------------
(***************************************************************************)
(* The invariant across a call that gives a reference, or takes one back.  *)
(***************************************************************************)
Rest ==
  /\ build \in DOMAIN Builds
  /\ phase \in {"offline", "early", "full"}
  /\ handler \in {NoHandler} \cup Builds[build].handlers
  /\ root \in Builds[build].roots
  /\ held \in [Clients -> Handle] /\ facs \in Handle
  /\ search \in [Clients -> Nat]
  /\ loading \subseteq Clients

HandlesIn(T, h, f) ==
  /\ \A c \in Clients : h[c] # NoTable => LiveIn(T, h[c])
  /\ f \notin {NoTable, JunkTable} => LiveIn(T, f)

\* The invariant, taken apart.
LEMMA InvParts ==
    ASSUME IInv
    PROVE  /\ Rest /\ HandlesIn(tables, held, facs) /\ CallersFit
           /\ ExecutedMarked /\ ~mutex /\ CountsBounded(tables)
           /\ tables \in Seq(Entry) /\ ArrayRight /\ Setting /\ Firmware
           /\ ExactIn(tables, held, loading, facs)
<1>1. TablesInv /\ Counted(0)
  BY DEF IInv
<1>2. ArrayRight /\ Setting /\ Firmware /\ tables \in Seq(Entry)
  BY <1>1, InvArray DEF TablesInv, TypeOK
<1>3. Rest /\ CallersFit /\ ExecutedMarked /\ ~mutex
  BY <1>1 DEF TablesInv, TypeOK, Rest
<1>4. HandlesIn(tables, held, facs)
  BY <1>1, <1>2 DEF TablesInv, HandlesLive, HandlesIn, Live, LiveIn
<1>5. CountsBounded(tables)
  BY <1>1, <1>2 DEF TablesInv, EntriesSound, CountsBounded
<1>6. ExactIn(tables, held, loading, facs)
  <2> SUFFICES ASSUME NEW k \in 1..Len(tables), tables[k].refs # MaxRef
               PROVE  tables[k].refs = HoldersIn(held, loading, facs, k)
    BY DEF ExactIn
  <2>1. k \in DOMAIN tables /\ k # 0 /\ tables[k] \in Entry
    BY <1>2
  <2>2. tables[k].refs = Holders(k) + (IF 0 = k THEN 1 ELSE 0)
    BY <1>1, <2>1 DEF Counted
  <2>3. HoldersIn(held, loading, facs, k) \in Nat
    BY <1>3, HoldersFinite DEF HoldersIn, One, Rest
  <2> QED
    BY <2>1, <2>2, <2>3, HoldersIs
<1> QED
  BY <1>2, <1>3, <1>4, <1>5, <1>6

\* TablesInv, put together.
LEMMA TablesMade ==
    ASSUME ArrayRight', Rest', HandlesIn(tables', held', facs'), CallersFit',
           ExecutedMarked', ~mutex'
    PROVE  TablesInv'
<1>1. TypeOK'
  BY DEF ArrayRight, Rest, TypeOK
<1>2. HandlesLive'
  BY DEF ArrayRight, HandlesIn, HandlesLive, Live, LiveIn
<1> QED
  BY <1>1, <1>2 DEF ArrayRight, TablesInv

\* IInv, put together.
LEMMA InvMade ==
    ASSUME ArrayRight', Rest', HandlesIn(tables', held', facs'), CallersFit',
           ExecutedMarked', ~mutex', build' = build,
           ExactIn(tables', held', loading', facs')
    PROVE  IInv'
<1>3. TablesInv'
  BY TablesMade
<1>4. Counted(0)'
  <2> SUFFICES ASSUME NEW k \in DOMAIN tables', tables'[k].refs # MaxRef'
               PROVE  tables'[k].refs = Holders(k)' + (IF 0 = k THEN 1 ELSE 0)
    BY DEF Counted
  <2>1. k \in 1..Len(tables') /\ k # 0 /\ MaxRef' = MaxRef
    BY DEF ArrayRight, MaxRef
  <2>2. tables'[k].refs = HoldersIn(held', loading', facs', k)
    BY <2>1 DEF ExactIn
  <2>3. Holders(k)' = HoldersIn(held', loading', facs', k)
    BY DEF Holders, HoldersIn, HandlesTo, LoadsOf, One
  <2>4. HoldersIn(held', loading', facs', k) \in Nat
    BY HoldersFinite DEF HoldersIn, One, Rest
  <2> QED
    BY <2>1, <2>2, <2>3, <2>4
<1> QED
  BY <1>3, <1>4 DEF IInv

\* The handle of a reference just given to table j.
NewHandle(j) == [index |-> j, ptr |-> tables'[j].ptr]

GivenStep(j) ==
  /\ ArrayRight' /\ Rest' /\ CallersFit' /\ ~mutex' /\ build' = build
  /\ Gained(tables, tables', j)
  /\ \A c \in Clients : \/ held'[c] \in {NoTable, held[c]}
                        \/ j # 0 /\ held'[c] = NewHandle(j)
  /\ \/ facs' \in {NoTable, JunkTable, facs}
     \/ j # 0 /\ facs' = NewHandle(j)
  /\ \A k \in Nat \ {0} : HoldersIn(held', loading', facs', k)
                            = HoldersIn(held, loading, facs, k) + One(j = k)
  /\ \A k \in executed' : \/ k \in executed
                          \/ k \in DOMAIN tables' /\ tables'[k].loaded

\* A step that gives one reference, to one holder, preserves the invariant.
LEMMA GivenInv ==
    ASSUME IInv, NEW j \in Nat, GivenStep(j)
    PROVE  IInv'
<1>1. /\ Rest /\ HandlesIn(tables, held, facs) /\ CallersFit
      /\ ExecutedMarked /\ CountsBounded(tables)
      /\ tables \in Seq(Entry) /\ Setting
      /\ ExactIn(tables, held, loading, facs)
  BY InvParts
<1>2. /\ ArrayRight' /\ Rest' /\ CallersFit' /\ ~mutex' /\ build' = build
      /\ Gained(tables, tables', j)
  BY DEF GivenStep
<1>3. \A t \in Handle : LiveIn(tables, t) => LiveIn(tables', t)
  BY <1>1, <1>2, GainedLive
<1>4. j # 0 => LiveIn(tables', NewHandle(j))
  <2> SUFFICES ASSUME j # 0 PROVE LiveIn(tables', NewHandle(j))
    OBVIOUS
  <2>1. j \in Nat \ {0}
    OBVIOUS
  <2> QED
    BY <1>1, <1>2, <2>1, NewLive DEF NewHandle
<1>5. HandlesIn(tables', held', facs')
  <2>1. \A c \in Clients : held'[c] # NoTable => LiveIn(tables', held'[c])
    <3> SUFFICES ASSUME NEW c \in Clients, held'[c] # NoTable
                 PROVE  LiveIn(tables', held'[c])
      OBVIOUS
    <3>1. held'[c] = held[c] \/ (j # 0 /\ held'[c] = NewHandle(j))
      BY DEF GivenStep
    <3>2. held[c] \in Handle /\ (held[c] # NoTable => LiveIn(tables, held[c]))
      BY <1>1 DEF Rest, HandlesIn
    <3> QED
      BY <1>3, <1>4, <3>1, <3>2
  <2>2. facs' \notin {NoTable, JunkTable} => LiveIn(tables', facs')
    <3>1. facs \in Handle /\ (facs \notin {NoTable, JunkTable} => LiveIn(tables, facs))
      BY <1>1 DEF Rest, HandlesIn
    <3> QED
      BY <1>3, <1>4, <3>1 DEF GivenStep
  <2> QED
    BY <2>1, <2>2 DEF HandlesIn
<1>6. \A k \in Nat \ {0} : k > Len(tables) => HoldersIn(held, loading, facs, k) = 0
  <2> SUFFICES ASSUME NEW k \in Nat \ {0}, k > Len(tables)
               PROVE  HoldersIn(held, loading, facs, k) = 0
    OBVIOUS
  <2>1. NoTable.index = 0 /\ JunkTable.index = 0 /\ Len(tables) \in Nat
    BY <1>1 DEF NoTable, JunkTable
  <2>2. \A t : LiveIn(tables, t) => t.index # k
    BY <2>1 DEF LiveIn
  <2>3. facs.index # k /\ \A c \in Clients : held[c].index # k
    BY <1>1, <2>1, <2>2 DEF HandlesIn
  <2> QED
    BY <1>1, <2>3, NoHolders DEF Rest
<1>7. ExactIn(tables', held', loading', facs')
  <2>1. \A k \in Nat \ {0} : HoldersIn(held', loading', facs', k)
                               = HoldersIn(held, loading, facs, k) + One(j = k)
    BY DEF GivenStep
  <2> QED
    BY <1>1, <1>2, <1>6, <2>1, GainedCounts
<1>8. ExecutedMarked'
  BY <1>1, <1>2 DEF GivenStep, ExecutedMarked, Gained
<1> QED
  BY <1>2, <1>5, <1>7, <1>8, InvMade

LostStep(j) ==
  /\ ArrayRight' /\ Rest' /\ CallersFit' /\ ~mutex' /\ build' = build
  /\ Lost(tables, tables', j)
  /\ \A c \in Clients : held'[c] \in {NoTable, held[c]}
  /\ facs' = facs /\ executed' = executed
  /\ \A k \in Nat \ {0} : HoldersIn(held, loading, facs, k)
                            = HoldersIn(held', loading', facs', k) + One(j = k)

\* A step that takes one reference from one holder preserves the invariant.
LEMMA LostInv ==
    ASSUME IInv, NEW j \in Nat, LostStep(j)
    PROVE  IInv'
<1>1. /\ Rest /\ HandlesIn(tables, held, facs) /\ CallersFit
      /\ ExecutedMarked /\ CountsBounded(tables)
      /\ tables \in Seq(Entry) /\ Setting
      /\ ExactIn(tables, held, loading, facs)
  BY InvParts
<1>2. /\ ArrayRight' /\ Rest' /\ CallersFit' /\ ~mutex' /\ build' = build
      /\ Lost(tables, tables', j) /\ facs' = facs
  BY DEF LostStep
<1>3. held' \in [Clients -> Handle] /\ loading' \in SUBSET Clients /\ facs \in Handle
  BY <1>1, <1>2 DEF Rest
<1>4. ExactIn(tables', held', loading', facs')
  <2>1. \A k \in Nat \ {0} : HoldersIn(held, loading, facs, k)
                               = HoldersIn(held', loading', facs, k) + One(j = k)
    BY DEF LostStep
  <2>2. \A k \in Nat \ {0} : HoldersIn(held', loading', facs, k) \in Nat
    BY <1>3, HoldersFinite DEF HoldersIn, One
  <2> QED
    BY <1>1, <1>2, <2>1, <2>2, LostCounts
<1>5. ASSUME NEW t \in Handle, LiveIn(tables, t),
             (\E c \in Clients : held'[c].index = t.index) \/ facs.index = t.index
      PROVE  LiveIn(tables', t)
  <2>1. ASSUME t.index = j PROVE tables'[j].refs > 0
    <3>1. HoldersIn(held', loading', facs', j) \in Nat
          /\ HoldersIn(held', loading', facs', j) > 0
      BY <1>2, <1>3, <1>5, <2>1, HolderCounts
    <3>2. j \in 1..Len(tables')
      BY <1>2 DEF Lost
    <3>3. tables'[j].refs = MaxRef \/ tables'[j].refs = HoldersIn(held', loading', facs', j)
      BY <1>4, <3>2 DEF ExactIn
    <3> QED
      BY <1>1, <3>1, <3>3, MaxRefFine
  <2> QED
    BY <1>1, <1>2, <1>5, <2>1, LostLive
<1>6. HandlesIn(tables', held', facs')
  <2>1. \A c \in Clients : held'[c] # NoTable => LiveIn(tables', held'[c])
    <3> SUFFICES ASSUME NEW c \in Clients, held'[c] # NoTable
                 PROVE  LiveIn(tables', held'[c])
      OBVIOUS
    <3>1. held'[c] = held[c] /\ held'[c] \in Handle
      BY <1>3 DEF LostStep
    <3>2. LiveIn(tables, held'[c])
      BY <1>1, <3>1 DEF HandlesIn
    <3> QED
      BY <1>5, <3>1, <3>2
  <2>2. facs' \notin {NoTable, JunkTable} => LiveIn(tables', facs')
    BY <1>1, <1>2, <1>3, <1>5 DEF HandlesIn
  <2> QED
    BY <2>1, <2>2 DEF HandlesIn
<1>7. ExecutedMarked'
  <2>1. tables' \in Seq(Entry) /\ Len(tables') = Len(tables)
    BY <1>2 DEF Lost
  <2>2. DOMAIN tables' = DOMAIN tables
    BY <1>1, <2>1
  <2>3. \A k \in DOMAIN tables : tables'[k].loaded = tables[k].loaded
    BY <1>1, <1>2 DEF Lost
  <2> QED
    BY <1>1, <2>2, <2>3 DEF LostStep, ExecutedMarked
<1> QED
  BY <1>2, <1>4, <1>6, <1>7, InvMade

-----------------------------------------------------------------------------
\* An answer either fills in no uacpi_table or the one of a reference given.
Answered(s, r) ==
  \/ Grown(s, r)
  \/ \E j \in Nat : Given(s, r, j) /\ r.out = HandleOf(r, j)

\* An installation is an answer to the caller.
LEMMA InstalledAnswered ==
    ASSUME NEW s, NEW r, NEW want, Installed(s, r, want)
    PROVE  Answered(s, r)
BY DEF Installed, Received, Given, Answered

\* A search is an answer to the caller.
LEMMA SoughtAnswered ==
    ASSUME NEW s, NEW r, Sought(s, r)
    PROVE  Answered(s, r)
BY DEF Sought, Answered

\* The table given by an answer, or 0.
LEMMA AnsweredGained ==
    ASSUME Setting, NEW s, Begun(s), NEW r, Answered(s, r)
    PROVE  /\ IsCall(r) /\ MappedRight(r) /\ Frame(s, r)
           /\ \E j \in Nat : /\ Gained(tables, r.tables, j)
                             /\ r.out = IF j = 0 THEN NoTable ELSE HandleOf(r, j)
<1>1. IsCall(s) /\ MappedRight(s) /\ s.tables = tables /\ s.out = NoTable
  BY DEF Begun
<1>2. CASE Grown(s, r)
  <2>1. IsCall(r) /\ Frame(s, r) /\ MappedRight(r) /\ r.out = NoTable
    BY <1>1, <1>2, GrownMapped DEF Grown
  <2>2. Gained(tables, r.tables, 0)
    BY <1>1, <1>2, GrownGained
  <2> QED
    BY <2>1, <2>2
<1>3. ASSUME NEW j \in Nat, Given(s, r, j), r.out = HandleOf(r, j)
      PROVE  /\ IsCall(r) /\ MappedRight(r) /\ Frame(s, r)
             /\ \E i \in Nat : /\ Gained(tables, r.tables, i)
                               /\ r.out = IF i = 0 THEN NoTable ELSE HandleOf(r, i)
  <2>1. IsCall(r) /\ Frame(s, r) /\ MappedRight(r)
    BY <1>1, <1>3, GivenMapped DEF Given, FirstGiven, MoreGiven
  <2>2. j # 0 /\ Gained(tables, r.tables, j)
    BY <1>1, <1>3, GivenGained
  <2> QED
    BY <1>3, <2>1, <2>2
<1> QED
  BY <1>2, <1>3 DEF Answered

\* Giving the caller the answer of a call preserves the invariant.
LEMMA AnswerInv ==
    ASSUME IInv, Online, NEW c \in Clients, held[c] = NoTable,
           NEW s, Begun(s), s.early <=> phase = "early",
           NEW r, Answered(s, r), Answer(c, r)
    PROVE  IInv'
<1>1. /\ Rest /\ HandlesIn(tables, held, facs) /\ CallersFit
      /\ ExecutedMarked /\ ~mutex /\ tables \in Seq(Entry)
      /\ ArrayRight /\ Setting
  BY InvParts
<1>2. IsCall(r) /\ MappedRight(r) /\ Frame(s, r)
  BY <1>1, AnsweredGained
<1>3. PICK j \in Nat : /\ Gained(tables, r.tables, j)
                       /\ r.out = IF j = 0 THEN NoTable ELSE HandleOf(r, j)
  BY <1>1, AnsweredGained
<1>4. /\ Commit(r) /\ tables' = r.tables /\ build' = build
      /\ held' = [held EXCEPT ![c] = r.out]
      /\ search' = [search EXCEPT ![c] = NULL]
      /\ UNCHANGED <<phase, handler, flags, facs, mutex, root, loading, executed>>
  BY DEF Answer, Commit
<1>5. ArrayRight'
  BY <1>2, <1>4, Committed DEF Frame
<1>6. r.out \in Handle /\ r.out = (IF j = 0 THEN NoTable ELSE NewHandle(j))
  <2>1. j # 0 => j \in 1..Len(r.tables) /\ r.tables \in Seq(Entry)
    BY <1>3 DEF Gained
  <2>2. j # 0 => r.tables[j].ptr \in Nat
    <3>1. j # 0 => r.tables[j] \in Entry
      BY <2>1
    <3> QED
      BY <3>1 DEF Entry
  <2> QED
    BY <1>3, <1>4, <2>2 DEF Handle, HandleOf, NewHandle, NoTable, NULL
<1>7. held' \in [Clients -> Handle] /\ held'[c] = r.out /\ OnlyHeld(held, held', c)
  BY <1>1, <1>4, <1>6 DEF Rest, OnlyHeld
<1>8. Rest'
  BY <1>1, <1>4, <1>7 DEF Rest, NULL
<1>9. c \notin loading /\ held[c].index = 0
  BY <1>1 DEF CallersFit, NoTable
<1>10. r.out.index = j
  BY <1>6 DEF NewHandle, NoTable
<1>11. CallersFit'
  <2>1. \A d \in Clients : held'[d].index = 0 => held'[d] = NoTable
    <3> TAKE d \in Clients
    <3>1. CASE d = c
      BY <1>6, <1>7, <1>10, <3>1
    <3>2. CASE d # c
      BY <1>1, <1>7, <3>2 DEF CallersFit, OnlyHeld
    <3> QED
      BY <3>1, <3>2
  <2>2. \A d \in Clients : search'[d] # NULL => held'[d] = NoTable
    BY <1>1, <1>4, <1>7 DEF CallersFit, OnlyHeld, Rest
  <2>3. \A d \in loading' : held'[d] # NoTable
    BY <1>1, <1>4, <1>7, <1>9 DEF CallersFit, OnlyHeld, Rest
  <2> QED
    BY <1>1, <1>4, <2>1, <2>2, <2>3 DEF CallersFit, Online
<1>12. \A k \in Nat \ {0} : HoldersIn(held', loading', facs', k)
                              = HoldersIn(held, loading, facs, k) + One(j = k)
  <2> TAKE k \in Nat \ {0}
  <2>1. HoldersIn(held', loading, facs, k)
          = HoldersIn(held, loading, facs, k) + One(held'[c].index = k)
    <3>1. loading \in SUBSET Clients
      BY <1>1 DEF Rest
    <3> QED
      BY <1>7, <1>9, <3>1, HeldMore
  <2>2. held'[c].index = j
    BY <1>7, <1>10
  <2> QED
    BY <1>4, <2>1, <2>2
<1>13. GivenStep(j)
  <2>1. \A d \in Clients : \/ held'[d] \in {NoTable, held[d]}
                           \/ j # 0 /\ held'[d] = NewHandle(j)
    BY <1>6, <1>7 DEF OnlyHeld
  <2>2. Gained(tables, tables', j) /\ facs' = facs /\ executed' = executed
        /\ ~mutex' /\ build' = build
    BY <1>1, <1>3, <1>4
  <2>3. facs' \in {NoTable, JunkTable, facs} /\ \A k \in executed' : k \in executed
    BY <2>2
  <2> QED
    BY <1>5, <1>8, <1>11, <1>12, <2>1, <2>2, <2>3, Zenon DEF GivenStep
<1> QED
  BY <1>13, GivenInv

-----------------------------------------------------------------------------
(***************************************************************************)
(* The calls that give a reference back.                                   *)
(***************************************************************************)
\* An entry with one reference less is an entry, idle after its last one.
LEMMA LessFine ==
    ASSUME Setting, NEW t \in Entry, EntryFine(t), t.refs > 0,
           NEW e, e = LessReferenced(t)
    PROVE  /\ e \in Entry /\ EntryFine(e) /\ e.refs = PrevRef(t.refs)
           /\ e.addr = t.addr /\ e.origin = t.origin /\ e.loaded = t.loaded
           /\ e.ptr = IF LastRef(t) THEN NULL ELSE t.ptr
           /\ LastRef(t) => e.refs = 0
           /\ ~LastRef(t) /\ Physical(t.origin) => e.refs > 0
           /\ LastRef(t) => Physical(t.origin)
<1>1. /\ t.refs \in Nat /\ t.refs <= MaxRef /\ MaxRef \in Nat /\ MaxRef > 1
      /\ ~t.invalid
  BY MaxRefFine DEF Entry, EntryFine
<1>2. PrevRef(t.refs) \in Nat /\ PrevRef(t.refs) <= MaxRef
  BY <1>1 DEF PrevRef
<1>3. LastRef(t) => PrevRef(t.refs) = 0 /\ Physical(t.origin)
  BY <1>1 DEF PrevRef, LastRef
<1>4. ~LastRef(t) /\ Physical(t.origin) => PrevRef(t.refs) > 0
  BY <1>1 DEF PrevRef, LastRef
<1>5. /\ e.refs = PrevRef(t.refs) /\ e.addr = t.addr /\ e.origin = t.origin
      /\ e.loaded = t.loaded /\ e.invalid = t.invalid /\ e.verified = t.verified
      /\ e.ptr = IF LastRef(t) THEN NULL ELSE t.ptr
  BY DEF LessReferenced, Entry
<1>6. e \in Entry
  <2> DEFINE p == IF LastRef(t) THEN NULL ELSE t.ptr
             n == PrevRef(t.refs)
  <2>1. p \in Nat /\ n \in Nat
    BY <1>2 DEF Entry, NULL
  <2>2. e = [t EXCEPT !.ptr = p, !.refs = n]
    BY DEF LessReferenced
  <2> HIDE DEF p, n
  <2> QED
    BY <2>1, <2>2 DEF Entry
<1>7. EntryFine(e)
  BY <1>1, <1>2, <1>3, <1>5 DEF EntryFine
<1> QED
  BY <1>3, <1>4, <1>5, <1>6, <1>7

\* The mappings left when entry t gives a reference back.
MapsLess(s, t) ==
  IF LastRef(t) THEN {m \in s.maps : m.va # t.ptr} ELSE s.maps

\* The fields of the record after table_unref_unlocked.
LEMMA UnrefFields ==
    ASSUME NEW s, IsCall(s), NEW k \in 1..Len(s.tables), s.tables[k].refs > 0,
           NEW r, r = table_unref_unlocked(s, k)
    PROVE  /\ DOMAIN r = Fields /\ r.maps = MapsLess(s, s.tables[k])
           /\ r.tables = [s.tables EXCEPT ![k] = LessReferenced(s.tables[k])]
           /\ r.cap = s.cap /\ r.home = s.home /\ r.fadt = s.fadt
           /\ r.early = s.early /\ r.flags = s.flags /\ r.open = s.open
           /\ r.calls = s.calls /\ r.plan = s.plan
<1> DEFINE t == s.tables[k]
<1>1. t.refs # 0 /\ t \in Entry
  BY DEF IsCall
<1> DEFINE M == MapsLess(s, t)
           e == LessReferenced(t)
<1>2. r = [s EXCEPT !.maps = M, !.tables = [@ EXCEPT ![k] = e]]
  BY <1>1 DEF table_unref_unlocked, MapsLess
<1> HIDE DEF M, e
<1>3. /\ DOMAIN r = Fields /\ r.maps = M /\ r.tables = [s.tables EXCEPT ![k] = e]
      /\ r.cap = s.cap /\ r.home = s.home /\ r.fadt = s.fadt
      /\ r.early = s.early /\ r.flags = s.flags /\ r.open = s.open
      /\ r.calls = s.calls /\ r.plan = s.plan
  BY <1>2 DEF IsCall, Fields
<1> QED
  BY <1>3 DEF M, e

\* table_unref_unlocked takes one reference, and the last one's mapping.
LEMMA UnrefEffect ==
    ASSUME Setting, NEW s, IsCall(s), MappedRight(s), NEW k \in 1..Len(s.tables),
           s.tables[k].refs > 0, NEW r, r = table_unref_unlocked(s, k)
    PROVE  /\ IsCall(r) /\ MappedRight(r) /\ Frame(s, r)
           /\ Lost(s.tables, r.tables, k)
<1> DEFINE t == s.tables[k]
           e == LessReferenced(t)
<1>1. /\ DOMAIN r = Fields /\ r.maps = MapsLess(s, t)
      /\ r.tables = [s.tables EXCEPT ![k] = e]
      /\ r.cap = s.cap /\ r.home = s.home /\ r.fadt = s.fadt
      /\ r.early = s.early /\ r.flags = s.flags /\ r.open = s.open
      /\ r.calls = s.calls /\ r.plan = s.plan
  BY UnrefFields
<1>2. t \in Entry /\ EntryFine(t) /\ t.refs > 0 /\ s.tables \in Seq(Entry)
  BY DEF IsCall
<1>3. /\ e \in Entry /\ EntryFine(e) /\ e.refs = PrevRef(t.refs)
      /\ e.addr = t.addr /\ e.origin = t.origin /\ e.loaded = t.loaded
      /\ e.ptr = IF LastRef(t) THEN NULL ELSE t.ptr
      /\ LastRef(t) => e.refs = 0
      /\ ~LastRef(t) /\ Physical(t.origin) => e.refs > 0
      /\ LastRef(t) => Physical(t.origin)
  BY <1>2, LessFine
<1> HIDE DEF e
<1>4. /\ r.tables \in Seq(Entry) /\ Len(r.tables) = Len(s.tables)
      /\ r.tables[k] = e
      /\ \A i \in 1..Len(s.tables) : i # k => r.tables[i] = s.tables[i]
  BY <1>1, <1>2, <1>3
<1>5. r.maps \subseteq s.maps /\ IsFiniteSet(r.maps)
  <2>1. r.maps \subseteq s.maps /\ IsFiniteSet(s.maps)
    BY <1>1 DEF MapsLess, IsCall
  <2> QED
    BY <2>1, FS_Subset
<1>6. IsCall(r)
  <2>1. \A i \in DOMAIN r.tables : EntryFine(r.tables[i])
    <3>1. \A i \in 1..Len(s.tables) : EntryFine(s.tables[i])
      BY DEF IsCall
    <3>2. DOMAIN r.tables = 1..Len(s.tables)
      BY <1>4
    <3> QED
      BY <1>3, <1>4, <3>1, <3>2
  <2>2. BackedIn(r)
    BY <1>1, <1>4 DEF IsCall, BackedIn
  <2> QED
    BY <1>1, <1>4, <1>5, <2>1, <2>2 DEF IsCall
<1>7. Frame(s, r)
  BY <1>1 DEF Frame, IsCall
<1>8. Lost(s.tables, r.tables, k)
  BY <1>2, <1>3, <1>4 DEF Lost
<1>9. k \in RefIn(s) <=> Physical(t.origin)
  BY DEF RefIn
<1>10. MappedRight(r)
  <2>1. CASE LastRef(t)
    <3>1. RefIn(r) = RefIn(s) \ {k} /\ k \in RefIn(s)
      BY <1>3, <1>4, <1>9, <2>1 DEF RefIn
    <3>2. r.maps = {m \in s.maps : m.va # t.ptr}
      BY <1>1, <2>1 DEF MapsLess
    <3>3. \A i \in RefIn(r) : r.tables[i] = s.tables[i] /\ i # k
      BY <1>4, <3>1 DEF RefIn
    <3>4. \A i, j \in RefIn(s) : s.tables[i].ptr = s.tables[j].ptr => i = j
      BY DEF MappedRight
    <3>5. \A i \in RefIn(r) : s.tables[i].ptr # t.ptr
      BY <3>1, <3>4
    <3>6. \A i \in RefIn(r) :
            [va |-> r.tables[i].ptr, addr |-> r.tables[i].addr] \in r.maps
      BY <3>1, <3>2, <3>3, <3>5 DEF MappedRight
    <3>7. \A m \in r.maps : \E i \in RefIn(r) : r.tables[i].ptr = m.va
      <4> TAKE m \in r.maps
      <4>1. m \in s.maps /\ m.va # t.ptr
        BY <3>2
      <4>2. PICK i \in RefIn(s) : s.tables[i].ptr = m.va
        BY <4>1 DEF MappedRight
      <4> QED
        BY <3>1, <3>3, <4>1, <4>2
    <3> QED
      BY <3>1, <3>3, <3>4, <3>6, <3>7 DEF MappedRight
  <2>2. CASE ~LastRef(t)
    <3>1. RefIn(r) = RefIn(s)
      BY <1>2, <1>3, <1>4, <2>2 DEF RefIn
    <3>2. r.maps = s.maps
      BY <1>1, <2>2 DEF MapsLess
    <3>3. \A i \in RefIn(r) : r.tables[i].ptr = s.tables[i].ptr
                              /\ r.tables[i].addr = s.tables[i].addr
      BY <1>3, <1>4, <2>2, <3>1 DEF RefIn
    <3> QED
      BY <3>1, <3>2, <3>3 DEF MappedRight
  <2> QED
    BY <2>1, <2>2
<1> QED
  BY <1>6, <1>7, <1>8, <1>10

-----------------------------------------------------------------------------
\* A uacpi_table somebody holds names a table that is referenced and valid.
LEMMA HeldTable ==
    ASSUME IInv, NEW c \in Clients, held[c] # NoTable
    PROVE  /\ held[c] \in Handle /\ held[c].index \in 1..Len(tables)
           /\ held[c].index \in Nat \ {0}
           /\ tables[held[c].index].refs > 0 /\ ~tables[held[c].index].invalid
           /\ tables[held[c].index].ptr = held[c].ptr
           /\ phase # "offline"
<1>1. /\ Rest /\ HandlesIn(tables, held, facs) /\ CallersFit /\ EntriesSound
      /\ tables \in Seq(Entry)
  BY InvParts DEF ArrayRight
<1>2. LiveIn(tables, held[c])
  BY <1>1 DEF HandlesIn
<1>3. held[c].index \in 1..Len(tables) /\ tables[held[c].index].refs > 0
      /\ tables[held[c].index].ptr = held[c].ptr
  BY <1>2 DEF LiveIn
<1>4. held[c].index \in DOMAIN tables /\ held[c].index \in Nat \ {0}
      /\ tables[held[c].index] \in Entry
  BY <1>1, <1>3
<1>5. ~tables[held[c].index].invalid
  <2> DEFINE k == held[c].index
  <2>1. k \in DOMAIN tables /\ tables[k].refs > 0
    BY <1>3, <1>4
  <2> HIDE DEF k
  <2>2. tables[k].invalid => tables[k].refs = 0
    BY <1>1, <2>1 DEF EntriesSound
  <2>3. ~tables[k].invalid
    BY <2>1, <2>2
  <2> QED
    BY <2>3 DEF k
<1>6. held[c] \in Handle /\ phase # "offline"
  BY <1>1 DEF Rest, CallersFit
<1> QED
  BY <1>3, <1>4, <1>5, <1>6

\* ... and so it does to the state.
LEMMA UnrefStep ==
    ASSUME IInv, NEW c \in Clients, held[c] # NoTable, phase' = phase,
           Commit(table_unref_unlocked(Begin({}), held[c].index))
    PROVE  ArrayRight' /\ Lost(tables, tables', held[c].index) /\ build' = build
<1> DEFINE s == Begin({})
           r == table_unref_unlocked(s, held[c].index)
           k == held[c].index
<1>1. ArrayRight /\ Setting /\ k \in 1..Len(tables) /\ tables[k].refs > 0
  BY InvParts, HeldTable
<1>2. Begun(s) /\ (s.early <=> phase = "early") /\ s.tables = tables
  BY <1>1, BegunPlain, BeginFields
<1>3. r = table_unref_unlocked(s, k) /\ Commit(r)
  OBVIOUS
<1> HIDE DEF s, r, k
<1>4. /\ IsCall(r) /\ MappedRight(r) /\ Frame(s, r)
      /\ Lost(tables, r.tables, k)
  BY <1>1, <1>2, <1>3, UnrefEffect DEF Begun
<1>5. ArrayRight'
  BY <1>2, <1>3, <1>4, Committed DEF Frame
<1>6. tables' = r.tables /\ build' = build
  BY <1>3 DEF Commit
<1> QED
  BY <1>4, <1>5, <1>6 DEF k

\* uacpi_table_unref, and the first half of the search for the next table.
Released(c) ==
  /\ Commit(table_unref_unlocked(Begin({}), held[c].index))
  /\ held' = [held EXCEPT ![c] = NoTable]
  /\ search' \in {search, [search EXCEPT ![c] = held[c].index]}
  /\ UNCHANGED <<phase, handler, flags, facs, mutex, root, loading, executed>>

\* A holder lets go of a table.
LEMMA ReleaseInv ==
    ASSUME IInv, NEW c \in Clients, held[c] # NoTable, c \notin loading,
           Released(c)
    PROVE  IInv'
<1> DEFINE k == held[c].index
<1>0. UNCHANGED <<phase, handler, flags, facs, mutex, root, loading, executed>>
  BY DEF Released
<1>1. /\ Rest /\ CallersFit /\ ~mutex
      /\ k \in Nat \ {0} /\ phase # "offline"
  BY InvParts, HeldTable
<1>2. ArrayRight' /\ Lost(tables, tables', k) /\ build' = build
  BY UnrefStep DEF Released
<1>3. /\ held' \in [Clients -> Handle] /\ held'[c] = NoTable
      /\ OnlyHeld(held, held', c) /\ NoTable.index = 0
  BY <1>1 DEF Rest, OnlyHeld, NoTable, NULL, Handle, Released
<1>4. search' \in [Clients -> Nat]
      /\ \A d \in Clients : d # c => search'[d] = search[d]
  BY <1>1 DEF Rest, Released
<1>5. Rest'
  BY <1>0, <1>1, <1>2, <1>3, <1>4 DEF Rest
<1>6. CallersFit'
  <2>1. \A d \in Clients : held'[d].index = 0 => held'[d] = NoTable
    BY <1>1, <1>3 DEF CallersFit, OnlyHeld
  <2>2. \A d \in Clients : search'[d] # NULL => held'[d] = NoTable
    BY <1>1, <1>3, <1>4 DEF CallersFit, OnlyHeld
  <2>3. \A d \in loading' : held'[d] # NoTable
    BY <1>0, <1>1, <1>3 DEF CallersFit, OnlyHeld, Rest
  <2> QED
    BY <1>0, <1>1, <2>1, <2>2, <2>3 DEF CallersFit
<1>7. \A i \in Nat \ {0} : HoldersIn(held, loading, facs, i)
                             = HoldersIn(held', loading', facs', i) + One(k = i)
  <2> TAKE i \in Nat \ {0}
  <2>1. loading \in SUBSET Clients /\ c \notin loading
    BY <1>1 DEF Rest
  <2>2. held'[c].index = 0 /\ OnlyHeld(held, held', c)
    BY <1>3
  <2>3. HoldersIn(held, loading, facs, i)
          = HoldersIn(held', loading, facs, i) + One(held[c].index = i)
    BY <2>1, <2>2, HeldLess
  <2> QED
    BY <1>0, <2>3
<1>8. \A d \in Clients : held'[d] \in {NoTable, held[d]}
  BY <1>3 DEF OnlyHeld
<1>9. LostStep(k)
  BY <1>0, <1>1, <1>2, <1>5, <1>6, <1>7, <1>8 DEF LostStep
<1> QED
  BY <1>1, <1>9, LostInv

\* uacpi_table_unref preserves the invariant.
LEMMA UnrefInv ==
    ASSUME IInv, NEW c \in Clients, uacpi_table_unref(c)
    PROVE  IInv'
<1>1. held[c] # NoTable /\ c \notin loading
  BY DEF uacpi_table_unref
<1>2. ~tables[held[c].index].invalid
  BY <1>1, HeldTable
<1> QED
  BY <1>1, <1>2, ReleaseInv DEF Released, uacpi_table_unref, table_ctl

\* uacpi_table_find_next_with_same_signature preserves the invariant.
LEMMA FindNextInv ==
    ASSUME IInv, NEW c \in Clients, uacpi_table_find_next_with_same_signature(c)
    PROVE  IInv'
<1>1. held[c] # NoTable /\ c \notin loading
  BY DEF uacpi_table_find_next_with_same_signature
<1>2. ~tables[held[c].index].invalid
  BY <1>1, HeldTable
<1> QED
  BY <1>1, <1>2, ReleaseInv DEF Released, uacpi_table_find_next_with_same_signature, table_ctl

\* The end of a table's load preserves the invariant.
LEMMA LoadedInv ==
    ASSUME IInv, NEW c \in Clients, TableLoaded(c)
    PROVE  IInv'
<1> DEFINE k == held[c].index
<1>1. /\ Rest /\ CallersFit /\ ~mutex /\ c \in loading /\ held[c] # NoTable
  BY InvParts DEF TableLoaded, CallersFit
<1>2. ~tables[k].invalid /\ k \in Nat \ {0} /\ phase # "offline"
  BY <1>1, HeldTable
<1>3. /\ Commit(table_unref_unlocked(Begin({}), held[c].index))
      /\ loading' = loading \ {c}
      /\ UNCHANGED <<held, search, executed, mutex, phase, handler, flags, facs, root>>
  BY <1>2 DEF TableLoaded, table_ctl
<1>4. ArrayRight' /\ Lost(tables, tables', k) /\ build' = build
  BY <1>1, <1>3, UnrefStep
<1>5. Rest' /\ CallersFit'
  BY <1>1, <1>3, <1>4 DEF Rest, CallersFit
<1>6. \A i \in Nat \ {0} : HoldersIn(held, loading, facs, i)
                             = HoldersIn(held', loading', facs', i) + One(k = i)
  <2>1. loading = loading' \cup {c} /\ c \notin loading' /\ loading' \in SUBSET Clients
    BY <1>1, <1>3 DEF Rest
  <2>2. \A i \in Nat \ {0} : HoldersIn(held, loading, facs, i)
                               = HoldersIn(held, loading', facs, i) + One(held[c].index = i)
    BY <1>1, <2>1, LoadsMore DEF Rest
  <2> QED
    BY <1>3, <2>2
<1>7. LostStep(k)
  BY <1>1, <1>3, <1>4, <1>5, <1>6 DEF LostStep
<1> QED
  BY <1>2, <1>7, LostInv

-----------------------------------------------------------------------------
(***************************************************************************)
(* uacpi_table_ref, uacpi_table_load and uacpi_table_mark_as_loaded.       *)
(***************************************************************************)
\* Marking a table as loaded changes only that mark.
LEMMA MarkEffect ==
    ASSUME NEW r, IsCall(r), MappedRight(r), NEW k \in 1..Len(r.tables),
           NEW q, q = MarkLoaded(r, k)
    PROVE  /\ IsCall(q) /\ MappedRight(q) /\ Frame(r, q)
           /\ Gained(r.tables, q.tables, 0) /\ q.tables[k].loaded
           /\ Len(q.tables) = Len(r.tables)
           /\ q.flags = r.flags
           /\ \A i \in 1..Len(r.tables) : /\ q.tables[i].refs = r.tables[i].refs
                                          /\ q.tables[i].ptr = r.tables[i].ptr
                                          /\ q.tables[i].addr = r.tables[i].addr
                                          /\ q.tables[i].origin = r.tables[i].origin
                                          /\ r.tables[i].loaded => q.tables[i].loaded
<1> DEFINE t == r.tables[k]
           yes == TRUE
           e == [t EXCEPT !.loaded = yes]
<1>1. q = WithEntry(r, k, e)
  BY DEF MarkLoaded, WithEntry, IsCall
<1>2. t \in Entry /\ EntryFine(t) /\ yes \in BOOLEAN /\ yes
  BY DEF IsCall
<1> HIDE DEF yes
<1>3. /\ e.addr = t.addr /\ e.ptr = t.ptr /\ e.origin = t.origin
      /\ e.refs = t.refs /\ e.invalid = t.invalid /\ e.loaded /\ e \in Entry
  BY <1>2 DEF Entry
<1> HIDE DEF e
<1>4. EntryFine(e)
  BY <1>2, <1>3 DEF EntryFine
<1>5. /\ IsCall(q) /\ Frame(r, q) /\ q.maps = r.maps
      /\ Len(q.tables) = Len(r.tables) /\ q.tables[k] = e
      /\ \A i \in 1..Len(r.tables) : i # k => q.tables[i] = r.tables[i]
  BY <1>1, <1>3, <1>4, SetEffect
<1>6. \A i \in 1..Len(r.tables) :
        /\ q.tables[i].refs = r.tables[i].refs
        /\ q.tables[i].ptr = r.tables[i].ptr
        /\ q.tables[i].addr = r.tables[i].addr
        /\ q.tables[i].origin = r.tables[i].origin
        /\ r.tables[i].loaded => q.tables[i].loaded
  BY <1>3, <1>5
<1>7. RefIn(q) = RefIn(r)
  BY <1>5, <1>6 DEF RefIn
<1>8. MappedRight(q)
  <2>1. \A i \in RefIn(r) : q.tables[i].ptr = r.tables[i].ptr
                            /\ q.tables[i].addr = r.tables[i].addr
    BY <1>6 DEF RefIn
  <2> QED
    BY <1>5, <1>7, <2>1 DEF MappedRight
<1>9. Len(r.tables) \in Nat /\ q.tables \in Seq(Entry)
  BY <1>5 DEF IsCall
<1>10. Gained(r.tables, q.tables, 0)
  BY <1>5, <1>6, <1>9 DEF Gained
<1> QED
  BY <1>3, <1>5, <1>6, <1>8, <1>10 DEF Frame

\* Marking loses no reference and adds none.
LEMMA GainedMarked ==
    ASSUME NEW T, Len(T) \in Nat, NEW U, NEW j \in Nat, Gained(T, U, j),
           NEW V \in Seq(Entry), Len(V) = Len(U),
           \A i \in 1..Len(U) : V[i].refs = U[i].refs /\ V[i].ptr = U[i].ptr
                                /\ (U[i].loaded => V[i].loaded)
    PROVE  Gained(T, V, j)
<1>1. Len(T) <= Len(U) /\ Len(U) \in Nat
  BY DEF Gained
<1>2. \A k \in 1..Len(T) : /\ T[k].loaded => V[k].loaded
                           /\ T[k].refs > 0 => V[k].ptr = T[k].ptr
                           /\ k # j => V[k].refs = T[k].refs
  BY <1>1 DEF Gained
<1>3. \A k \in (Len(T) + 1)..Len(V) : k # j => V[k].refs = 0
  BY <1>1 DEF Gained
<1>4. j # 0 => /\ j \in 1..Len(V) /\ V[j].ptr # NULL
               /\ V[j].refs = IF j <= Len(T) THEN NextRef(T[j].refs) ELSE 1
  BY <1>1 DEF Gained
<1> QED
  BY <1>1, <1>2, <1>3, <1>4 DEF Gained

\* A reference to a table that somebody holds.
LEMMA RefStep ==
    ASSUME IInv, NEW c \in Clients, held[c] # NoTable, NEW plan,
           NEW s, s = Begin(plan), NEW r, r = table_ref_unlocked(s, held[c].index)
    PROVE  /\ IsCall(r) /\ MappedRight(r) /\ (r.early <=> phase = "early")
           /\ Len(r.tables) = Len(tables)
           /\ Gained(tables, r.tables, IF Ok(r) THEN held[c].index ELSE 0)
           /\ Answered(s, r) \/ Given(s, r, held[c].index)
           /\ held[c] = [index |-> held[c].index,
                         ptr |-> r.tables[held[c].index].ptr]
<1> DEFINE k == held[c].index
<1>1. /\ ArrayRight /\ Setting /\ held[c] \in Handle /\ k \in 1..Len(tables)
      /\ tables[k].refs > 0 /\ tables[k].ptr = held[c].ptr
  BY InvParts, HeldTable
<1>2. Begun(s) /\ (s.early <=> phase = "early") /\ s.tables = tables /\ s.ret = "OK"
  BY <1>1, BegunPlain, BeginFields
<1>3. r = table_ref_unlocked(s, k) /\ held[c].index = k
  OBVIOUS
<1> HIDE DEF k
<1>4. IsCall(s) /\ MappedRight(s) /\ Ok(s)
  BY <1>2 DEF Begun, Ok
<1>5. /\ Len(r.tables) = Len(tables)
      /\ IF Ok(r) THEN Given(s, r, k) ELSE Grown(s, r)
  BY <1>1, <1>2, <1>3, <1>4, RefEffect
<1>6. /\ IsCall(r) /\ MappedRight(r) /\ Frame(s, r)
      /\ Gained(tables, r.tables, IF Ok(r) THEN k ELSE 0)
  <2>1. CASE Ok(r)
    <3>1. Given(s, r, k)
      BY <1>5, <2>1
    <3>2. IsCall(r) /\ Frame(s, r)
      BY <3>1 DEF Given, FirstGiven, MoreGiven
    <3>3. MappedRight(r) /\ Gained(s.tables, r.tables, k)
      BY <1>1, <1>4, <3>1, GivenMapped, GivenGained
    <3> QED
      BY <1>2, <2>1, <3>2, <3>3
  <2>2. CASE ~Ok(r)
    <3>1. Grown(s, r)
      BY <1>5, <2>2
    <3>2. IsCall(r) /\ Frame(s, r)
      BY <3>1 DEF Grown
    <3>3. MappedRight(r) /\ Gained(s.tables, r.tables, 0)
      BY <1>4, <3>1, GrownMapped, GrownGained
    <3> QED
      BY <1>2, <2>2, <3>2, <3>3
  <2> QED
    BY <2>1, <2>2
<1>7. r.tables[k].ptr = held[c].ptr
  BY <1>1, <1>6 DEF Gained
<1>8. held[c] = [index |-> k, ptr |-> r.tables[k].ptr]
  BY <1>1, <1>3, <1>7 DEF Handle
<1>9. Answered(s, r) \/ Given(s, r, k)
  BY <1>5 DEF Answered
<1> QED
  BY <1>2, <1>3, <1>5, <1>6, <1>8, <1>9 DEF Frame

\* uacpi_table_ref preserves the invariant.
LEMMA RefInv ==
    ASSUME IInv, NEW c \in Clients, NEW d \in Clients, Empty(d), NEW plan,
           uacpi_table_ref(c, d, plan)
    PROVE  IInv'
<1> DEFINE s == Begin(plan)
           r == table_ref_unlocked(s, held[c].index)
           k == held[c].index
           j == IF Ok(r) THEN k ELSE 0
<1>1. /\ Rest /\ CallersFit /\ ~mutex /\ held[c] # NoTable
  BY InvParts DEF uacpi_table_ref
<1>2. ~tables[k].invalid /\ k \in Nat \ {0} /\ held[c] \in Handle /\ phase # "offline"
  BY <1>1, HeldTable
<1>3. /\ Commit(r) /\ tables' = r.tables /\ build' = build
      /\ held' = [held EXCEPT ![d] = IF Ok(r) THEN held[c] ELSE @]
      /\ UNCHANGED <<search, loading, executed, mutex, phase, handler, flags, facs, root>>
  BY <1>2 DEF uacpi_table_ref, table_ctl, Ok, Commit
<1>4. /\ IsCall(r) /\ MappedRight(r) /\ (r.early <=> phase = "early")
      /\ Gained(tables, r.tables, j)
      /\ held[c] = [index |-> k, ptr |-> r.tables[k].ptr]
  BY <1>1, RefStep
<1> HIDE DEF s, r
<1>5. ArrayRight'
  BY <1>3, <1>4, Committed
<1>6. d \notin loading /\ held[d] = NoTable /\ held[d].index = 0
      /\ search[d] = NULL
  BY DEF Empty, NoTable
<1>7. /\ held' \in [Clients -> Handle] /\ OnlyHeld(held, held', d)
      /\ held'[d] = IF Ok(r) THEN held[c] ELSE NoTable
      /\ held'[d].index = j
  BY <1>1, <1>2, <1>3, <1>6 DEF Rest, OnlyHeld, NoTable
<1>8. Rest'
  BY <1>1, <1>3, <1>7 DEF Rest
<1>9. CallersFit'
  <2>1. \A e \in Clients : held'[e].index = 0 => held'[e] = NoTable
    <3> TAKE e \in Clients
    <3>1. CASE e = d
      BY <1>2, <1>7, <3>1
    <3>2. CASE e # d
      BY <1>1, <1>7, <3>2 DEF CallersFit, OnlyHeld
    <3> QED
      BY <3>1, <3>2
  <2>2. \A e \in Clients : search'[e] # NULL => held'[e] = NoTable
    BY <1>1, <1>3, <1>6, <1>7 DEF CallersFit, OnlyHeld
  <2>3. \A e \in loading' : held'[e] # NoTable
    BY <1>1, <1>3, <1>6, <1>7 DEF CallersFit, OnlyHeld, Rest
  <2> QED
    BY <1>1, <1>2, <1>3, <2>1, <2>2, <2>3 DEF CallersFit
<1>10. \A i \in Nat \ {0} : HoldersIn(held', loading', facs', i)
                              = HoldersIn(held, loading, facs, i) + One(j = i)
  <2> TAKE i \in Nat \ {0}
  <2>1. loading \in SUBSET Clients /\ d \notin loading /\ held[d].index = 0
    BY <1>1, <1>6 DEF Rest
  <2>2. OnlyHeld(held, held', d)
    BY <1>7
  <2>3. HoldersIn(held', loading, facs, i)
          = HoldersIn(held, loading, facs, i) + One(held'[d].index = i)
    BY <2>1, <2>2, HeldMore
  <2> QED
    BY <1>3, <1>7, <2>3
<1>11. \A e \in Clients : \/ held'[e] \in {NoTable, held[e]}
                          \/ j # 0 /\ held'[e] = NewHandle(j)
  <2>1. Ok(r) => held[c] = NewHandle(j) /\ j # 0
    BY <1>2, <1>3, <1>4 DEF NewHandle
  <2> QED
    BY <1>7, <2>1 DEF OnlyHeld
<1>12. Gained(tables, tables', j) /\ facs' \in {NoTable, JunkTable, facs}
       /\ ~mutex' /\ build' = build /\ \A i \in executed' : i \in executed
  BY <1>1, <1>3, <1>4
<1>13. j \in Nat
  BY <1>2
<1> HIDE DEF j, k
<1>14. GivenStep(j)
  BY <1>5, <1>8, <1>9, <1>10, <1>11, <1>12 DEF GivenStep
<1> QED
  BY <1>13, <1>14, GivenInv

\* uacpi_table_load preserves the invariant.
LEMMA LoadInv ==
    ASSUME IInv, NEW c \in Clients, NEW plan, uacpi_table_load(c, plan)
    PROVE  IInv'
<1> DEFINE s == Begin(plan)
           r == table_ref_unlocked(s, held[c].index)
           k == held[c].index
           q == MarkLoaded(r, k)
<1>1. /\ Rest /\ CallersFit /\ ~mutex /\ held[c] # NoTable /\ c \notin loading
      /\ phase = "full" /\ tables \in Seq(Entry) /\ ExecutedMarked
  BY InvParts DEF uacpi_table_load
<1>2. ~tables[k].invalid /\ k \in Nat \ {0} /\ k \in 1..Len(tables)
  BY <1>1, HeldTable
<1>3. /\ Commit(q) /\ tables' = q.tables /\ build' = build /\ Ok(r)
      /\ loading' = loading \cup {c} /\ executed' = executed \cup {k}
      /\ UNCHANGED <<held, search, mutex, phase, handler, flags, facs, root>>
  BY <1>2 DEF uacpi_table_load, table_ctl, Ok, Commit
<1>4. /\ IsCall(r) /\ MappedRight(r) /\ (r.early <=> phase = "early")
      /\ Gained(tables, r.tables, k) /\ Len(r.tables) = Len(tables)
  BY <1>1, <1>3, RefStep
<1>5. q = MarkLoaded(r, k) /\ held[c].index = k
  OBVIOUS
<1> HIDE DEF s, r, q, k
<1>6. /\ IsCall(q) /\ MappedRight(q) /\ Frame(r, q) /\ q.tables[k].loaded
      /\ Len(q.tables) = Len(r.tables)
      /\ \A i \in 1..Len(r.tables) : q.tables[i].refs = r.tables[i].refs
                                     /\ q.tables[i].ptr = r.tables[i].ptr
                                     /\ (r.tables[i].loaded => q.tables[i].loaded)
  BY <1>2, <1>4, <1>5, MarkEffect
<1>7. ArrayRight'
  BY <1>3, <1>4, <1>6, Committed DEF Frame
<1>8. Gained(tables, tables', k)
  <2>1. Len(tables) \in Nat /\ q.tables \in Seq(Entry) /\ k \in Nat
    BY <1>1, <1>2, <1>6 DEF IsCall
  <2> QED
    BY <1>3, <1>4, <1>6, <2>1, GainedMarked
<1>9. Rest' /\ CallersFit'
  BY <1>1, <1>3 DEF Rest, CallersFit
<1>10. \A i \in Nat \ {0} : HoldersIn(held', loading', facs', i)
                              = HoldersIn(held, loading, facs, i) + One(k = i)
  <2> TAKE i \in Nat \ {0}
  <2>1. held \in [Clients -> Handle] /\ loading \in SUBSET Clients
    BY <1>1 DEF Rest
  <2>2. HoldersIn(held, loading', facs, i)
          = HoldersIn(held, loading, facs, i) + One(held[c].index = i)
    BY <1>1, <1>3, <2>1, LoadsMore
  <2> QED
    BY <1>3, <1>5, <2>2
<1>11. \A i \in executed' : \/ i \in executed
                            \/ i \in DOMAIN tables' /\ tables'[i].loaded
  <2>1. k \in DOMAIN tables' /\ tables'[k].loaded
    BY <1>2, <1>3, <1>4, <1>6 DEF IsCall
  <2> QED
    BY <1>3, <2>1
<1>12. GivenStep(k)
  <2>1. \A e \in Clients : held'[e] \in {NoTable, held[e]}
    BY <1>3
  <2>2. facs' \in {NoTable, JunkTable, facs} /\ ~mutex' /\ build' = build
    BY <1>1, <1>3
  <2> QED
    BY <1>7, <1>8, <1>9, <1>10, <1>11, <2>1, <2>2 DEF GivenStep
<1> QED
  BY <1>2, <1>12, GivenInv

\* uacpi_table_mark_as_loaded preserves the invariant.
LEMMA MarkInv ==
    ASSUME IInv, NEW c \in Clients, uacpi_table_mark_as_loaded(c)
    PROVE  IInv'
<1> DEFINE s == Begin({})
           k == held[c].index
           q == MarkLoaded(s, k)
<1>1. /\ Rest /\ CallersFit /\ ~mutex /\ held[c] # NoTable
      /\ ArrayRight /\ tables \in Seq(Entry)
  BY InvParts DEF uacpi_table_mark_as_loaded
<1>2. ~tables[k].invalid /\ k \in 1..Len(tables)
  BY <1>1, HeldTable
<1>3. /\ Commit(q) /\ tables' = q.tables /\ build' = build
      /\ UNCHANGED <<users, mutex, phase, handler, flags, facs, root>>
  BY <1>2 DEF uacpi_table_mark_as_loaded, table_ctl, Commit
<1>4. Begun(s) /\ (s.early <=> phase = "early") /\ s.tables = tables
  BY <1>1, BegunPlain, BeginFields
<1>5. q = MarkLoaded(s, k)
  OBVIOUS
<1> HIDE DEF s, q, k
<1>6. /\ IsCall(q) /\ MappedRight(q) /\ Frame(s, q) /\ Gained(tables, tables', 0)
  BY <1>2, <1>3, <1>4, <1>5, MarkEffect DEF Begun
<1>7. ArrayRight'
  BY <1>3, <1>4, <1>6, Committed DEF Frame
<1>8. /\ UNCHANGED <<held, search, loading, executed>>
  BY <1>3 DEF users
<1>9. Rest' /\ CallersFit'
  BY <1>1, <1>3, <1>8 DEF Rest, CallersFit
<1>10. \A i \in Nat \ {0} : HoldersIn(held', loading', facs', i)
                              = HoldersIn(held, loading, facs, i) + One(0 = i)
  BY <1>1, <1>3, <1>8, HoldersFinite DEF HoldersIn, One, Rest
<1>11. GivenStep(0)
  <2>1. \A e \in Clients : held'[e] \in {NoTable, held[e]}
    BY <1>8
  <2>2. facs' \in {NoTable, JunkTable, facs} /\ ~mutex' /\ build' = build
        /\ \A i \in executed' : i \in executed
    BY <1>1, <1>3, <1>8
  <2> QED
    BY <1>6, <1>7, <1>9, <1>10, <2>1, <2>2 DEF GivenStep
<1> QED
  BY <1>11, GivenInv

-----------------------------------------------------------------------------
(***************************************************************************)
(* The subsystem brought up and taken down.                                *)
(***************************************************************************)
\* An empty array is right.
LEMMA EmptyArray ==
    ASSUME Setting, tables' = <<>>, cap' = 0, maps' = {}, build' = build,
           fadt' \in Addrs \cup {NULL}
    PROVE  ArrayRight'
<1>1. Builds[build'].inline \in Nat
  BY BuildsAssumption DEF Setting
<1>2. tables' \in Seq(Entry) /\ DOMAIN tables' = {} /\ Len(tables') = 0
  OBVIOUS
<1>3. EntriesSound' /\ OneMappingEach'
  BY <1>2 DEF EntriesSound, OneMappingEach, Referenced
<1>4. StorageBacked'
  <2>1. Len(tables') <= Builds[build'].inline + cap' /\ ~(cap' > 0)
    BY <1>1, <1>2
  <2> QED
    BY <2>1 DEF StorageBacked, InlineCap
<1>5. IsFiniteSet(maps') /\ maps' \subseteq Mapping
  BY FS_EmptySet
<1> QED
  BY <1>2, <1>3, <1>4, <1>5 DEF ArrayRight

\* Nobody holds a table, and there is none.
LEMMA EmptyInv ==
    ASSUME ArrayRight', tables' = <<>>, cap' = 0, Rest', build' = build,
           ~mutex', facs' = NoTable, loading' = {}, executed' = {},
           \A c \in Clients : held'[c] = NoTable
    PROVE  IInv'
<1>1. HandlesIn(tables', held', facs') /\ ExecutedMarked' /\ CallersFit'
  BY DEF HandlesIn, ExecutedMarked, CallersFit
<1>2. ExactIn(tables', held', loading', facs')
  <2>1. Len(tables') = 0
    OBVIOUS
  <2> QED
    BY <2>1 DEF ExactIn
<1> QED
  BY <1>1, <1>2, InvMade

\* The array is thrown away while nobody holds a table.
LEMMA ResetInv ==
    ASSUME IInv, loading = {}, \A c \in Clients : search[c] = NULL,
           NEW s, IsCall(s), MappedRight(s), Reset(s)
    PROVE  IInv' /\ maps' = {}
<1>1. Rest /\ Setting
  BY InvParts
<1> DEFINE d == uacpi_deinitialize_tables(s)
<1>2. d.tables = <<>> /\ d.cap = 0 /\ d.home = "none" /\ d.maps = {}
      /\ DOMAIN d = Fields
  BY DeinitEffect
<1>3. /\ Commit([d EXCEPT !.is_rev1 = FALSE, !.fadt = NULL])
      /\ phase' = "offline" /\ handler' = NoHandler /\ facs' = NoTable
      /\ ~mutex' /\ held' = [c \in Clients |-> NoTable] /\ executed' = {}
      /\ UNCHANGED <<root, search, loading>>
  BY DEF Reset
<1> HIDE DEF d
<1>4. tables' = <<>> /\ cap' = 0 /\ maps' = {} /\ fadt' = NULL /\ build' = build
  BY <1>2, <1>3 DEF Commit, Fields
<1>5. ArrayRight'
  BY <1>1, <1>4, EmptyArray
<1>6. Rest'
  BY <1>1, <1>3, <1>4 DEF Rest, NoTable, NULL, Handle
<1> QED
  BY <1>3, <1>4, <1>5, <1>6, EmptyInv

\* uacpi_setup_early_table_access from the array a record has begun with.
LEMMA SetupInv ==
    ASSUME IInv, NEW buf \in Nat, NEW plan,
           uacpi_setup_early_table_access(buf, plan)
    PROVE  IInv' /\ maps' = {} /\ phase' \in {"offline", "early"}
           /\ (phase' = "offline" => home' = "none")
<1> DEFINE b == [Begin(plan) EXCEPT !.cap = buf, !.home = "buffer", !.early = TRUE]
           s == initialize_from_rsdp(b)
<1>1. /\ Rest /\ CallersFit /\ ExecutedMarked /\ ~mutex /\ ArrayRight
      /\ Setting /\ Firmware
  BY InvParts
<1>2. /\ phase = "offline" /\ tables = <<>> /\ facs = NoTable /\ loading = {}
      /\ \A c \in Clients : held[c] = NoTable
  BY <1>1 DEF CallersFit, uacpi_setup_early_table_access
<1>3. executed = {} /\ Referenced = {} /\ maps = {}
  <2>1. DOMAIN tables = {}
    BY <1>2
  <2> QED
    BY <1>1, <2>1 DEF ExecutedMarked, ArrayRight, OneMappingEach, Referenced
<1>4. /\ IF s.ret = "OK"
         THEN Commit(s) /\ phase' = "early" /\ UNCHANGED handler
         ELSE /\ Commit(uacpi_deinitialize_tables(s))
              /\ handler' = NoHandler
              /\ UNCHANGED phase
      /\ UNCHANGED <<flags, facs, mutex, root, users>>
  BY DEF uacpi_setup_early_table_access
<1>5. UNCHANGED <<held, search, loading, executed>>
  BY <1>4 DEF users
<1>6. Begun(b) /\ b.early
  BY <1>1, <1>2, BegunEarly
<1>7. s = initialize_from_rsdp(b)
  OBVIOUS
<1> HIDE DEF b, s
<1>8. Grown(b, s)
  BY <1>1, <1>6, <1>7, RootEffect DEF Begun
<1>9. /\ IsCall(s) /\ MappedRight(s) /\ s.early /\ s.maps = {}
      /\ Gained(tables, s.tables, 0)
  BY <1>3, <1>6, <1>8, GrownMapped, GrownGained DEF Begun, Grown, Frame
<1>10. CASE s.ret = "OK"
  <2>1. /\ Commit(s) /\ phase' = "early" /\ handler' = handler
        /\ tables' = s.tables /\ maps' = {} /\ build' = build
    BY <1>4, <1>9, <1>10 DEF Commit
  <2>2. ArrayRight'
    BY <1>9, <2>1, Committed
  <2>3. Rest'
    BY <1>1, <1>4, <1>5, <2>1 DEF Rest
  <2>4. CallersFit'
    BY <1>1, <1>2, <1>4, <1>5, <2>1 DEF CallersFit
  <2>5. \A k \in Nat \ {0} : HoldersIn(held', loading', facs', k)
                               = HoldersIn(held, loading, facs, k) + One(0 = k)
    BY <1>1, <1>4, <1>5, HoldersFinite DEF HoldersIn, One, Rest
  <2>6. GivenStep(0)
    <3>1. \A e \in Clients : held'[e] \in {NoTable, held[e]}
      BY <1>5
    <3>2. facs' \in {NoTable, JunkTable, facs} /\ ~mutex'
          /\ \A i \in executed' : i \in executed
      BY <1>1, <1>4, <1>5
    <3> QED
      BY <1>9, <2>1, <2>2, <2>3, <2>4, <2>5, <3>1, <3>2 DEF GivenStep
  <2> QED
    BY <2>1, <2>6, GivenInv
<1>11. CASE s.ret # "OK"
  <2> DEFINE d == uacpi_deinitialize_tables(s)
  <2>1. d.tables = <<>> /\ d.cap = 0 /\ d.home = "none" /\ d.maps = {}
        /\ d.fadt = s.fadt
    BY <1>9, DeinitEffect
  <2>2. Commit(d) /\ handler' = NoHandler /\ phase' = phase
    BY <1>4, <1>11
  <2> HIDE DEF d
  <2>3. tables' = <<>> /\ cap' = 0 /\ maps' = {} /\ build' = build
        /\ home' = "none" /\ fadt' \in Addrs \cup {NULL}
    BY <1>9, <2>1, <2>2 DEF Commit, IsCall
  <2>4. ArrayRight'
    BY <1>1, <2>3, EmptyArray
  <2>5. Rest'
    BY <1>1, <1>4, <1>5, <2>2, <2>3 DEF Rest
  <2> QED
    BY <1>1, <1>2, <1>3, <1>4, <1>5, <2>2, <2>3, <2>4, <2>5, EmptyInv
<1> QED
  BY <1>10, <1>11

\* uacpi_initialize preserves the invariant.
LEMMA InitializeInv ==
    ASSUME IInv, NEW fl, NEW plan, uacpi_initialize(fl, plan)
    PROVE  IInv'
<1> DEFINE s0 == [Begin(plan) EXCEPT !.flags = fl]
           s == uacpi_initialize_tables(s0)
<1>1. /\ Rest /\ CallersFit /\ ExecutedMarked /\ ~mutex /\ ArrayRight
      /\ Setting /\ Firmware
  BY InvParts
<1>2. phase # "full" /\ facs = NoTable /\ loading = {}
      /\ \A c \in Clients : search[c] = NULL
  BY <1>1 DEF CallersFit, uacpi_initialize, Free, HasMutex
<1>3. IF s.ret = "OK"
      THEN /\ Commit(s)
           /\ phase' = "full"
           /\ flags' = fl
           /\ IF FacsWanted(s) /\ s.out = NoTable
              THEN facs' \in {NoTable, JunkTable}
              ELSE facs' = s.out
           /\ UNCHANGED <<handler, mutex, root, held, search, loading, executed>>
      ELSE Reset(s)
  BY DEF uacpi_initialize
<1>4. Begun(s0)
  BY <1>1, BegunFlags
<1>5. s = uacpi_initialize_tables(s0)
  OBVIOUS
<1> HIDE DEF s0, s
<1>6. PICK b : Started(s0, b) /\ Installed(b, s, TRUE) /\ (Ok(s) => ~b.early)
  BY <1>1, <1>4, <1>5, StartupEffect DEF Begun
<1>7. Begun(b)
  BY <1>4, <1>6 DEF Begun, Started, MappedRight, RefIn
<1>8. Answered(b, s)
  BY <1>6, InstalledAnswered
<1>9. IsCall(s) /\ MappedRight(s) /\ Frame(b, s)
  BY <1>1, <1>7, <1>8, AnsweredGained
<1>10. CASE s.ret = "OK"
  <2>1. PICK j \in Nat : /\ Gained(tables, s.tables, j)
                         /\ s.out = IF j = 0 THEN NoTable ELSE HandleOf(s, j)
    BY <1>1, <1>7, <1>8, AnsweredGained
  <2>2. /\ Commit(s) /\ phase' = "full" /\ tables' = s.tables /\ build' = build
        /\ UNCHANGED <<handler, mutex, root, held, search, loading, executed>>
        /\ facs' \in {NoTable, JunkTable} \/ facs' = s.out
        /\ s.out # NoTable => facs' = s.out
    BY <1>3, <1>10 DEF Commit
  <2>3. ~s.early
    BY <1>6, <1>9, <1>10 DEF Frame, Ok
  <2>4. ArrayRight'
    BY <1>9, <2>2, <2>3, Committed
  <2>5. j # 0 => NewHandle(j) \in Handle /\ NewHandle(j) # NoTable /\ s.out = NewHandle(j)
    <3>1. j # 0 => j \in 1..Len(s.tables) /\ s.tables \in Seq(Entry)
      BY <2>1 DEF Gained
    <3>2. j # 0 => s.tables[j] \in Entry
      BY <3>1
    <3>3. j # 0 => s.tables[j].ptr \in Nat
      BY <3>2 DEF Entry
    <3> QED
      BY <2>1, <2>2, <3>3 DEF Handle, HandleOf, NewHandle, NoTable
  <2>6. IF j = 0 THEN facs' \in {NoTable, JunkTable} ELSE facs' = NewHandle(j)
    BY <2>1, <2>2, <2>5
  <2>7. facs' \in Handle /\ facs'.index = j
        /\ (j = 0 => facs' \in {NoTable, JunkTable})
    BY <2>5, <2>6 DEF Handle, NoTable, JunkTable, NULL, NewHandle
  <2>8. Rest'
    BY <1>1, <2>2, <2>7 DEF Rest
  <2>9. CallersFit'
    BY <1>1, <2>2, <2>7 DEF CallersFit
  <2>10. \A k \in Nat \ {0} : HoldersIn(held', loading', facs', k)
                                = HoldersIn(held, loading, facs, k) + One(j = k)
    <3> TAKE k \in Nat \ {0}
    <3>1. facs.index # k /\ loading \in SUBSET Clients
      BY <1>1, <1>2 DEF NoTable, Rest
    <3>2. HoldersIn(held, loading, facs', k) = HoldersIn(held, loading, facs, k)
                                               + One(facs'.index = k)
      BY <3>1, HoldersFinite DEF HoldersIn, One
    <3> QED
      BY <2>2, <2>7, <3>2
  <2>11. GivenStep(j)
    <3>1. \A e \in Clients : held'[e] \in {NoTable, held[e]}
      BY <2>2
    <3>2. ~mutex' /\ \A i \in executed' : i \in executed
      BY <1>1, <2>2
    <3>3. \/ facs' \in {NoTable, JunkTable, facs}
          \/ j # 0 /\ facs' = NewHandle(j)
      BY <2>6
    <3>4. Gained(tables, tables', j) /\ build' = build
      BY <2>1, <2>2
    <3> QED
      BY <2>4, <2>8, <2>9, <2>10, <3>1, <3>2, <3>3, <3>4 DEF GivenStep
  <2> QED
    BY <2>11, GivenInv
<1>11. CASE s.ret # "OK"
  BY <1>2, <1>3, <1>9, <1>11, ResetInv
<1> QED
  BY <1>10, <1>11

\* uacpi_state_reset preserves the invariant.
LEMMA StateResetInv ==
    ASSUME IInv, uacpi_state_reset
    PROVE  IInv'
<1> DEFINE s == Begin({})
<1>1. loading = {} /\ (\A c \in Clients : search[c] = NULL) /\ Reset(s)
  BY DEF uacpi_state_reset
<1>2. Begun(s)
  BY InvParts, BegunPlain
<1> HIDE DEF s
<1> QED
  BY <1>1, <1>2, ResetInv DEF Begun

\* Settings, and the steps of everybody else.
Settled ==
  UNCHANGED <<phase, build, tables, cap, home, maps, fadt, facs, mutex, root,
              held, search, loading, executed>>

\* A new table installation handler, or none.
LEMMA SettledInv ==
    ASSUME IInv, handler' \in {NoHandler} \cup Builds[build].handlers, Settled
    PROVE  IInv'
<1>1. /\ Rest /\ HandlesIn(tables, held, facs) /\ CallersFit
      /\ ExecutedMarked /\ ~mutex /\ ArrayRight
      /\ ExactIn(tables, held, loading, facs)
  BY InvParts
<1>2. ArrayRight'
  <2>1. EntriesSound'
    BY <1>1 DEF Settled, ArrayRight, EntriesSound, MaxRef
  <2>2. StorageBacked'
    BY <1>1 DEF Settled, ArrayRight, StorageBacked, InlineCap
  <2>3. OneMappingEach'
    BY <1>1 DEF Settled, ArrayRight, OneMappingEach, Referenced
  <2> QED
    BY <1>1, <2>1, <2>2, <2>3 DEF Settled, ArrayRight
<1>3. Rest' /\ CallersFit' /\ ExecutedMarked' /\ ~mutex'
  BY <1>1 DEF Settled, Rest, CallersFit, ExecutedMarked
<1>4. HandlesIn(tables', held', facs') /\ ExactIn(tables', held', loading', facs')
  BY <1>1 DEF Settled
<1> QED
  BY <1>2, <1>3, <1>4, InvMade DEF Settled

\* Every step of the table subsystem keeps the invariant.
LEMMA NextInv ==
    ASSUME IInv, Next
    PROVE  IInv'
<1> USE DEF Next
<1>1. /\ Rest /\ CallersFit /\ ~mutex /\ ArrayRight /\ Setting
  BY InvParts
<1>2. ASSUME NEW plan, NEW buf \in Builds[build].buffers,
             uacpi_setup_early_table_access(buf, plan)
      PROVE  IInv'
  <2>1. buf \in Nat
    BY <1>1, BuildsAssumption DEF Setting
  <2> QED
    BY <1>2, <2>1, SetupInv
<1>3. ASSUME NEW plan, NEW c \in Askers,
             \/ \E a \in Builds[build].hostTables, want \in BOOLEAN :
                  \/ uacpi_table_install(c, a, want, plan)
                  \/ uacpi_table_install_physical(c, a, want, plan)
             \/ \E sig \in Signatures : uacpi_table_find_by_signature(c, sig, plan)
      PROVE  IInv'
  <2> DEFINE s == Begin(plan)
  <2>1. c \in Clients /\ held[c] = NoTable
    BY DEF Askers, Empty
  <2>2. Begun(s) /\ (s.early <=> phase = "early") /\ IsCall(s)
    BY <1>1, BegunPlain, BeginFields DEF Begun
  <2>3. ASSUME NEW a \in Builds[build].hostTables, NEW want \in BOOLEAN,
               uacpi_table_install(c, a, want, plan)
        PROVE  IInv'
    <3> DEFINE r == table_install_with_origin_unlocked(s, a, want)
    <3>1. Online /\ Answer(c, r) /\ r = install_virtual(s, a, want, initialize_fadt)
      BY <2>3 DEF uacpi_table_install, table_install_with_origin_unlocked
    <3>2. a \in Addrs
      BY <1>1, BuildsAssumption DEF Setting
    <3> HIDE DEF s, r
    <3>3. Answered(s, r)
      BY <1>1, <2>2, <3>1, <3>2, OuterVirtual, InstalledAnswered
    <3> QED
      BY <2>1, <2>2, <3>1, <3>3, AnswerInv
  <2>4. ASSUME NEW a \in Builds[build].hostTables, NEW want \in BOOLEAN,
               uacpi_table_install_physical(c, a, want, plan)
        PROVE  IInv'
    <3> DEFINE r == table_install_physical_with_origin_unlocked(
                      s, a, "HOST_PHYSICAL", "any", want)
    <3>1. Online /\ Answer(c, r)
          /\ r = install_host_physical(s, a, want, initialize_fadt)
      BY <2>4 DEF uacpi_table_install_physical,
                  table_install_physical_with_origin_unlocked
    <3>2. a \in Addrs
      BY <1>1, BuildsAssumption DEF Setting
    <3> HIDE DEF s, r
    <3>3. Answered(s, r)
      BY <1>1, <2>2, <3>1, <3>2, OuterHost, InstalledAnswered
    <3> QED
      BY <2>1, <2>2, <3>1, <3>3, AnswerInv
  <2>5. ASSUME NEW sig, uacpi_table_find_by_signature(c, sig, plan)
        PROVE  IInv'
    <3> DEFINE r == find_table(s, 1, sig)
    <3>1. Online /\ Answer(c, r) /\ r = find_table(s, 1, sig)
      BY <2>5 DEF uacpi_table_find_by_signature
    <3> HIDE DEF s, r
    <3>2. Answered(s, r)
      BY <1>1, <2>2, <3>1, FindEffect, SoughtAnswered
    <3> QED
      BY <2>1, <2>2, <3>1, <3>2, AnswerInv
  <2> QED
    BY <1>3, <2>3, <2>4, <2>5
<1>4. ASSUME NEW plan, NEW c \in Clients, FindNextSearch(c, plan)
      PROVE  IInv'
  <2> DEFINE s == Begin(plan)
             base == search[c] + 1
             sig == Memory[tables[search[c]].addr].sig
             r == find_table(s, base, sig)
  <2>1. Online /\ held[c] = NoTable /\ Answer(c, r) /\ r = find_table(s, base, sig)
    BY <1>1, <1>4 DEF FindNextSearch, CallersFit
  <2>2. Begun(s) /\ (s.early <=> phase = "early") /\ IsCall(s)
    BY <1>1, BegunPlain, BeginFields DEF Begun
  <2> HIDE DEF s, r, base, sig
  <2>3. Answered(s, r)
    BY <1>1, <2>1, <2>2, FindEffect, SoughtAnswered
  <2> QED
    BY <2>1, <2>2, <2>3, AnswerInv
<1>5. ASSUME NEW plan, NEW c \in Askers, NEW d \in Clients, uacpi_table_ref(d, c, plan)
      PROVE  IInv'
  BY <1>5, RefInv DEF Askers
<1>6. ASSUME NEW h \in Builds[build].handlers \cup {NoHandler},
             uacpi_set_table_installation_handler(h)
      PROVE  IInv'
  BY <1>6, SettledInv DEF uacpi_set_table_installation_handler, Settled, array, users
<1>7. ASSUME NEW setting \in BOOLEAN,
             uacpi_context_set_proactive_table_checksum(setting)
      PROVE  IInv'
  BY <1>1, <1>7, SettledInv DEF uacpi_context_set_proactive_table_checksum,
                                Settled, array, users, Setting
<1> QED
  BY <1>2, <1>3, <1>4, <1>5, <1>6, <1>7, InitializeInv, LoadInv, FindNextInv,
     UnrefInv, LoadedInv, MarkInv, StateResetInv

\* The invariant holds before anything is set up.
LEMMA InitInv ==
    ASSUME Init
    PROVE  IInv
<1>1. Setting /\ tables = <<>> /\ cap = 0 /\ maps = {} /\ fadt = NULL
  BY DEF Init, Setting
<1>2. Builds[build].inline \in Nat
  BY <1>1, BuildsAssumption DEF Setting
<1>3. TypeOK
  BY FS_EmptySet DEF Init, TypeOK, NoTable, NULL, Handle
<1>4. DOMAIN tables = {} /\ Len(tables) <= InlineCap + cap /\ ~(cap > 0)
  BY <1>1, <1>2 DEF InlineCap
<1>5. EntriesSound /\ OneMappingEach /\ StorageBacked /\ Counted(0)
  BY <1>1, <1>4 DEF EntriesSound, OneMappingEach, Referenced, StorageBacked, Counted
<1>6. HandlesLive /\ CallersFit /\ ExecutedMarked /\ ~mutex
  BY DEF Init, HandlesLive, CallersFit, ExecutedMarked
<1> QED
  BY <1>3, <1>5, <1>6 DEF IInv, TablesInv

-----------------------------------------------------------------------------
(***************************************************************************)
(* Bad checksums, and tables loaded twice.                                 *)
(***************************************************************************)
\* What BadCsumFatal says of the arrays before and after.
CsumRight(T, U, fl) ==
  \A k \in 1..Len(U) :
    /\ "BAD_CSUM_FATAL" \in fl
    /\ k <= Len(T) => T[k].refs = 0
    /\ U[k].refs > 0 /\ Physical(U[k].origin)
    => \/ Memory[U[k].addr].good \/ Memory[U[k].addr].sig = "FACS"
       \/ k <= Len(T) /\ T[k].verified

\* Where nobody is given a table, no table has its first reference.
LEMMA GrownCsum ==
    ASSUME NEW s, IsCall(s), NEW r, Grown(s, r)
    PROVE  CsumRight(s.tables, r.tables, r.flags)
<1>1. Len(s.tables) \in Nat /\ Len(r.tables) \in Nat
  BY TablesLength DEF Grown
<1>2. \A k \in 1..Len(s.tables) : r.tables[k].refs = s.tables[k].refs
  BY DEF Grown, OthersKept, Ungiven
<1>3. \A k \in (Len(s.tables) + 1)..Len(r.tables) : r.tables[k].refs = 0
  BY <1>1 DEF Grown, OthersKept
<1> QED
  BY <1>1, <1>2, <1>3 DEF CsumRight

\* A table given for the first time has had its checksum looked at.
LEMMA GivenCsum ==
    ASSUME NEW s, IsCall(s), NEW r, NEW j, Given(s, r, j)
    PROVE  CsumRight(s.tables, r.tables, r.flags)
<1>1. Len(s.tables) \in Nat /\ Len(r.tables) \in Nat
  BY TablesLength DEF Given, FirstGiven, MoreGiven
<1>2. \A k \in 1..Len(s.tables) : k # j => r.tables[k].refs = s.tables[k].refs
  BY DEF Given, FirstGiven, MoreGiven, OthersKept, Ungiven
<1>3. \A k \in (Len(s.tables) + 1)..Len(r.tables) : k # j => r.tables[k].refs = 0
  BY <1>1 DEF Given, FirstGiven, MoreGiven, OthersKept
<1>4. CASE FirstGiven(s, r, j)
  BY <1>1, <1>2, <1>3, <1>4 DEF CsumRight, FirstGiven, ChecksumRight
<1>5. CASE MoreGiven(s, r, j)
  BY <1>1, <1>2, <1>3, <1>5 DEF CsumRight, MoreGiven
<1> QED
  BY <1>4, <1>5 DEF Given

\* So it is with whatever a call answers.
LEMMA AnsweredCsum ==
    ASSUME NEW s, Begun(s), NEW r,
           Answered(s, r) \/ \E j : Given(s, r, j)
    PROVE  CsumRight(tables, r.tables, r.flags)
BY GrownCsum, GivenCsum DEF Begun, Answered

\* A table that has lost a reference, or kept those it had, has no first one.
LEMMA LostCsum ==
    ASSUME NEW T \in Seq(Entry), NEW U, NEW k, Lost(T, U, k), NEW fl
    PROVE  CsumRight(T, U, fl)
<1>1. Len(U) = Len(T) /\ Len(T) \in Nat /\ k \in 1..Len(T)
  BY DEF Lost
<1>2. \A i \in 1..Len(T) : T[i].refs = 0 => i # k /\ U[i].refs = 0
  BY DEF Lost
<1> QED
  BY <1>1, <1>2 DEF CsumRight

\* Unchanged counts are no first references.
LEMMA SameCsum ==
    ASSUME NEW T \in Seq(Entry), NEW U, Len(U) = Len(T),
           \A i \in 1..Len(T) : U[i].refs = T[i].refs, NEW fl
    PROVE  CsumRight(T, U, fl)
BY DEF CsumRight

CsumStep == CsumRight(tables, tables', flags')

\* An answer, as AnswerInv has it.
LEMMA AnswerCsum ==
    ASSUME NEW c, NEW s, Begun(s), s.flags = flags,
           NEW r, Answered(s, r), Answer(c, r), Setting
    PROVE  CsumStep
<1>1. CsumRight(tables, r.tables, r.flags)
  BY AnsweredCsum
<1>2. r.flags = flags
  BY AnsweredGained DEF Frame
<1> QED
  BY <1>1, <1>2 DEF Answer, Commit, CsumStep

\* Letting go of a table gives none.
LEMMA UnrefCsum ==
    ASSUME IInv, NEW c \in Clients, held[c] # NoTable, phase' = phase,
           Commit(table_unref_unlocked(Begin({}), held[c].index))
    PROVE  CsumStep
<1>1. Lost(tables, tables', held[c].index) /\ tables \in Seq(Entry)
  BY UnrefStep, InvParts
<1> QED
  BY <1>1, LostCsum DEF CsumStep

\* Throwing the array away gives none.
LEMMA ResetCsum ==
    ASSUME NEW s, IsCall(s), MappedRight(s), Reset(s)
    PROVE  CsumStep
<1> DEFINE d == uacpi_deinitialize_tables(s)
<1>1. d.tables = <<>> /\ DOMAIN d = Fields
  BY DeinitEffect
<1>2. Commit([d EXCEPT !.is_rev1 = FALSE, !.fadt = NULL])
  BY DEF Reset
<1> HIDE DEF d
<1>3. tables' = <<>>
  BY <1>1, <1>2 DEF Commit, Fields
<1>4. Len(tables') = 0
  BY <1>3
<1> QED
  BY <1>4 DEF CsumStep, CsumRight

\* uacpi_setup_early_table_access gives no bad table.
LEMMA SetupCsum ==
    ASSUME IInv, NEW buf \in Nat, NEW plan,
           uacpi_setup_early_table_access(buf, plan)
    PROVE  CsumStep
<1> DEFINE b == [Begin(plan) EXCEPT !.cap = buf, !.home = "buffer", !.early = TRUE]
           s == initialize_from_rsdp(b)
<1>1. ArrayRight /\ Setting /\ Firmware /\ tables = <<>>
  BY InvParts DEF CallersFit, uacpi_setup_early_table_access
<1>2. /\ \/ Commit(s)
         \/ Commit(uacpi_deinitialize_tables(s))
      /\ flags' = flags
  BY DEF uacpi_setup_early_table_access
<1>3. Begun(b) /\ b.flags = flags
  BY <1>1, BegunEarly
<1>4. s = initialize_from_rsdp(b)
  OBVIOUS
<1> HIDE DEF b, s
<1>5. Grown(b, s)
  BY <1>1, <1>3, <1>4, RootEffect DEF Begun
<1>6. CASE Commit(s)
  <2>1. CsumRight(tables, s.tables, s.flags)
    BY <1>3, <1>5, AnsweredCsum DEF Answered
  <2>2. s.flags = flags' /\ s.tables = tables'
    BY <1>2, <1>3, <1>5, <1>6 DEF Grown, Frame, Commit
  <2> QED
    BY <2>1, <2>2 DEF CsumStep
<1>7. CASE Commit(uacpi_deinitialize_tables(s))
  <2>1. uacpi_deinitialize_tables(s).tables = <<>>
    BY <1>3, <1>5, GrownMapped, DeinitEffect DEF Begun, Grown
  <2>2. Len(tables') = 0
    BY <1>7, <2>1 DEF Commit
  <2> QED
    BY <2>2 DEF CsumStep, CsumRight
<1> QED
  BY <1>2, <1>6, <1>7

\* uacpi_initialize gives no bad table.
LEMMA InitializeCsum ==
    ASSUME IInv, NEW fl, NEW plan, uacpi_initialize(fl, plan)
    PROVE  CsumStep
<1> DEFINE s0 == [Begin(plan) EXCEPT !.flags = fl]
           s == uacpi_initialize_tables(s0)
<1>1. ArrayRight /\ Setting /\ Firmware
  BY InvParts
<1>2. Reset(s) \/ (Commit(s) /\ flags' = fl)
  BY DEF uacpi_initialize
<1>3. Begun(s0) /\ s0.flags = fl
  BY <1>1, BegunFlags
<1>4. s = uacpi_initialize_tables(s0)
  OBVIOUS
<1> HIDE DEF s0, s
<1>5. PICK b : Started(s0, b) /\ Installed(b, s, TRUE)
  BY <1>1, <1>3, <1>4, StartupEffect DEF Begun
<1>6. Begun(b) /\ b.flags = fl
  BY <1>3, <1>5 DEF Begun, Started, MappedRight, RefIn
<1>7. Answered(b, s)
  BY <1>5, InstalledAnswered
<1>8. IsCall(s) /\ MappedRight(s) /\ Frame(b, s)
  BY <1>1, <1>6, <1>7, AnsweredGained
<1>9. CASE Commit(s) /\ flags' = fl
  <2>1. CsumRight(tables, s.tables, s.flags)
    BY <1>6, <1>7, AnsweredCsum
  <2>2. s.flags = flags' /\ s.tables = tables'
    BY <1>6, <1>8, <1>9 DEF Frame, Commit
  <2> QED
    BY <2>1, <2>2 DEF CsumStep
<1> QED
  BY <1>2, <1>8, <1>9, ResetCsum

\* uacpi_table_ref gives no bad table.
LEMMA RefCsum ==
    ASSUME IInv, NEW c \in Clients, NEW d, NEW plan, uacpi_table_ref(c, d, plan)
    PROVE  CsumStep
<1> DEFINE s == Begin(plan)
           r == table_ref_unlocked(s, held[c].index)
<1>1. held[c] # NoTable /\ ~tables[held[c].index].invalid
  BY HeldTable DEF uacpi_table_ref
<1>2. Commit(r) /\ flags' = flags
  BY <1>1 DEF uacpi_table_ref, table_ctl
<1>3. IsCall(r) /\ (Answered(s, r) \/ Given(s, r, held[c].index))
  BY <1>1, RefStep
<1>4. Begun(s) /\ s.flags = flags /\ Setting
  BY InvParts, BegunPlain, BeginFields
<1> HIDE DEF s, r
<1>5. CsumRight(tables, r.tables, r.flags)
  BY <1>3, <1>4, AnsweredCsum
<1>6. r.flags = flags
  BY <1>3, <1>4 DEF Answered, Grown, Given, FirstGiven, MoreGiven, Frame
<1> QED
  BY <1>2, <1>5, <1>6 DEF CsumStep, Commit

\* uacpi_table_load gives no bad table.
LEMMA LoadCsum ==
    ASSUME IInv, NEW c \in Clients, NEW plan, uacpi_table_load(c, plan)
    PROVE  CsumStep
<1> DEFINE s == Begin(plan)
           k == held[c].index
           r == table_ref_unlocked(s, k)
           q == MarkLoaded(r, k)
<1>1. held[c] # NoTable /\ ~tables[k].invalid /\ k \in 1..Len(tables)
  BY HeldTable DEF uacpi_table_load
<1>2. Commit(q) /\ flags' = flags
  BY <1>1 DEF uacpi_table_load, table_ctl
<1>3. /\ IsCall(r) /\ MappedRight(r) /\ Len(r.tables) = Len(tables)
      /\ Answered(s, r) \/ Given(s, r, k)
  BY <1>1, RefStep
<1>4. Begun(s) /\ s.flags = flags /\ Setting /\ tables \in Seq(Entry)
  BY InvParts, BegunPlain, BeginFields
<1>5. q = MarkLoaded(r, k)
  OBVIOUS
<1> HIDE DEF s, r, q, k
<1>6. CsumRight(tables, r.tables, r.flags)
  BY <1>3, <1>4, AnsweredCsum
<1>7. r.flags = flags
  BY <1>3, <1>4 DEF Answered, Grown, Given, FirstGiven, MoreGiven, Frame
<1>8. /\ Len(q.tables) = Len(r.tables) /\ q.flags = r.flags
      /\ \A i \in 1..Len(r.tables) : /\ q.tables[i].refs = r.tables[i].refs
                                     /\ q.tables[i].addr = r.tables[i].addr
                                     /\ q.tables[i].origin = r.tables[i].origin
  BY <1>1, <1>3, <1>5, MarkEffect
<1>9. CsumRight(tables, q.tables, flags')
  BY <1>2, <1>6, <1>7, <1>8 DEF CsumRight
<1> QED
  BY <1>2, <1>9 DEF CsumStep, Commit

\* uacpi_table_mark_as_loaded gives no bad table.
LEMMA MarkCsum ==
    ASSUME IInv, NEW c \in Clients, uacpi_table_mark_as_loaded(c)
    PROVE  CsumStep
<1> DEFINE s == Begin({})
           k == held[c].index
           q == MarkLoaded(s, k)
<1>1. ~tables[k].invalid /\ k \in 1..Len(tables)
  BY HeldTable DEF uacpi_table_mark_as_loaded
<1>2. Commit(q)
  BY <1>1 DEF uacpi_table_mark_as_loaded, table_ctl
<1>3. Begun(s) /\ s.tables = tables /\ tables \in Seq(Entry)
  BY InvParts, BegunPlain, BeginFields
<1>4. q = MarkLoaded(s, k)
  OBVIOUS
<1> HIDE DEF s, q, k
<1>5. /\ Len(q.tables) = Len(tables)
      /\ \A i \in 1..Len(tables) : q.tables[i].refs = tables[i].refs
  BY <1>1, <1>3, <1>4, MarkEffect DEF Begun
<1>6. CsumRight(tables, q.tables, flags')
  BY <1>3, <1>5, SameCsum
<1> QED
  BY <1>2, <1>6 DEF CsumStep, Commit

\* No step of the table subsystem gives a bad table a first reference.
LEMMA NextCsum ==
    ASSUME IInv, Next
    PROVE  CsumStep
<1> USE DEF Next
<1>1. /\ Rest /\ CallersFit /\ ArrayRight /\ Setting /\ tables \in Seq(Entry)
  BY InvParts
<1>2. ASSUME NEW plan, NEW buf \in Builds[build].buffers,
             uacpi_setup_early_table_access(buf, plan)
      PROVE  CsumStep
  <2>1. buf \in Nat
    BY <1>1, BuildsAssumption DEF Setting
  <2> QED
    BY <1>2, <2>1, SetupCsum
<1>3. ASSUME NEW plan, NEW c \in Askers,
             \/ \E a \in Builds[build].hostTables, want \in BOOLEAN :
                  \/ uacpi_table_install(c, a, want, plan)
                  \/ uacpi_table_install_physical(c, a, want, plan)
             \/ \E sig \in Signatures : uacpi_table_find_by_signature(c, sig, plan)
      PROVE  CsumStep
  <2> DEFINE s == Begin(plan)
  <2>2. Begun(s) /\ s.flags = flags /\ IsCall(s)
    BY <1>1, BegunPlain, BeginFields DEF Begun
  <2>3. ASSUME NEW a \in Builds[build].hostTables, NEW want \in BOOLEAN,
               uacpi_table_install(c, a, want, plan)
        PROVE  CsumStep
    <3> DEFINE r == table_install_with_origin_unlocked(s, a, want)
    <3>1. Answer(c, r) /\ r = install_virtual(s, a, want, initialize_fadt)
      BY <2>3 DEF uacpi_table_install, table_install_with_origin_unlocked
    <3>2. a \in Addrs
      BY <1>1, BuildsAssumption DEF Setting
    <3> HIDE DEF s, r
    <3>3. Answered(s, r)
      BY <1>1, <2>2, <3>1, <3>2, OuterVirtual, InstalledAnswered
    <3> QED
      BY <1>1, <2>2, <3>1, <3>3, AnswerCsum
  <2>4. ASSUME NEW a \in Builds[build].hostTables, NEW want \in BOOLEAN,
               uacpi_table_install_physical(c, a, want, plan)
        PROVE  CsumStep
    <3> DEFINE r == table_install_physical_with_origin_unlocked(
                      s, a, "HOST_PHYSICAL", "any", want)
    <3>1. Answer(c, r) /\ r = install_host_physical(s, a, want, initialize_fadt)
      BY <2>4 DEF uacpi_table_install_physical,
                  table_install_physical_with_origin_unlocked
    <3>2. a \in Addrs
      BY <1>1, BuildsAssumption DEF Setting
    <3> HIDE DEF s, r
    <3>3. Answered(s, r)
      BY <1>1, <2>2, <3>1, <3>2, OuterHost, InstalledAnswered
    <3> QED
      BY <1>1, <2>2, <3>1, <3>3, AnswerCsum
  <2>5. ASSUME NEW sig, uacpi_table_find_by_signature(c, sig, plan)
        PROVE  CsumStep
    <3> DEFINE r == find_table(s, 1, sig)
    <3>1. Answer(c, r) /\ r = find_table(s, 1, sig)
      BY <2>5 DEF uacpi_table_find_by_signature
    <3> HIDE DEF s, r
    <3>2. Answered(s, r)
      BY <1>1, <2>2, <3>1, FindEffect, SoughtAnswered
    <3> QED
      BY <1>1, <2>2, <3>1, <3>2, AnswerCsum
  <2> QED
    BY <1>3, <2>3, <2>4, <2>5
<1>4. ASSUME NEW plan, NEW c \in Clients, FindNextSearch(c, plan)
      PROVE  CsumStep
  <2> DEFINE s == Begin(plan)
             base == search[c] + 1
             sig == Memory[tables[search[c]].addr].sig
             r == find_table(s, base, sig)
  <2>1. Answer(c, r) /\ r = find_table(s, base, sig)
    BY <1>4 DEF FindNextSearch
  <2>2. Begun(s) /\ s.flags = flags /\ IsCall(s)
    BY <1>1, BegunPlain, BeginFields DEF Begun
  <2> HIDE DEF s, r, base, sig
  <2>3. Answered(s, r)
    BY <1>1, <2>1, <2>2, FindEffect, SoughtAnswered
  <2> QED
    BY <1>1, <2>1, <2>2, <2>3, AnswerCsum
<1>5. ASSUME NEW plan, NEW c \in Askers, NEW d \in Clients, uacpi_table_ref(d, c, plan)
      PROVE  CsumStep
  BY <1>5, RefCsum
<1>6. ASSUME NEW c \in Clients,
             \/ uacpi_table_find_next_with_same_signature(c)
             \/ uacpi_table_unref(c) \/ TableLoaded(c)
      PROVE  CsumStep
  <2>1. held[c] # NoTable
    BY <1>1, <1>6 DEF uacpi_table_find_next_with_same_signature,
                      uacpi_table_unref, TableLoaded, CallersFit
  <2>2. ~tables[held[c].index].invalid
    BY <2>1, HeldTable
  <2> QED
    BY <1>6, <2>1, <2>2, UnrefCsum
       DEF uacpi_table_find_next_with_same_signature, uacpi_table_unref,
           TableLoaded, table_ctl
<1>7. ASSUME tables' = tables PROVE CsumStep
  BY <1>1, <1>7, SameCsum DEF CsumStep
<1>8. ASSUME uacpi_state_reset PROVE CsumStep
  <2> DEFINE s == Begin({})
  <2>1. Reset(s) /\ Begun(s)
    BY <1>1, <1>8, BegunPlain DEF uacpi_state_reset
  <2> HIDE DEF s
  <2> QED
    BY <2>1, ResetCsum DEF Begun
<1>9. ASSUME NEW h, uacpi_set_table_installation_handler(h) PROVE CsumStep
  BY <1>7, <1>9 DEF uacpi_set_table_installation_handler, array
<1>10. ASSUME NEW b, uacpi_context_set_proactive_table_checksum(b) PROVE CsumStep
  BY <1>7, <1>10 DEF uacpi_context_set_proactive_table_checksum, array
<1> QED
  BY <1>2, <1>3, <1>4, <1>5, <1>6, <1>8, <1>9, <1>10, InitializeCsum, LoadCsum,
     MarkCsum

\* Only uacpi_table_load starts to load a table.
LoadStep == \A c \in loading' \ loading : held[c].index \notin executed

\* An answer starts no load.
LEMMA AnswerLoads ==
    ASSUME NEW c, NEW r, Answer(c, r)
    PROVE  loading' = loading
BY DEF Answer

\* No table that was executed is loaded again.
LEMMA NextLoads ==
    ASSUME IInv, Next
    PROVE  LoadStep
<1> USE DEF Next
<1>1. ASSUME NEW c \in Clients, NEW plan, uacpi_table_load(c, plan)
      PROVE  LoadStep
  <2> DEFINE k == held[c].index
  <2>1. held[c] # NoTable /\ ExecutedMarked
    BY <1>1, InvParts DEF uacpi_table_load
  <2>2. ~tables[k].invalid
    BY <2>1, HeldTable
  <2>3. ~tables[k].loaded /\ loading' = loading \cup {c}
    BY <1>1, <2>2 DEF uacpi_table_load, table_ctl
  <2> QED
    BY <2>1, <2>3 DEF LoadStep, ExecutedMarked
<1>2. ASSUME loading' \subseteq loading PROVE LoadStep
  BY <1>2 DEF LoadStep
<1>3. ASSUME NEW plan, NEW buf, uacpi_setup_early_table_access(buf, plan)
      PROVE  loading' \subseteq loading
  BY <1>3 DEF uacpi_setup_early_table_access, users
<1>4. ASSUME NEW plan, NEW fl, uacpi_initialize(fl, plan)
      PROVE  loading' \subseteq loading
  BY <1>4 DEF uacpi_initialize, Reset
<1>5. ASSUME NEW plan, NEW c, NEW a, NEW want,
             \/ uacpi_table_install(c, a, want, plan)
             \/ uacpi_table_install_physical(c, a, want, plan)
      PROVE  loading' \subseteq loading
  BY <1>5, AnswerLoads DEF uacpi_table_install, uacpi_table_install_physical
<1>6. ASSUME NEW plan, NEW c, NEW sig,
             \/ uacpi_table_find_by_signature(c, sig, plan)
             \/ FindNextSearch(c, plan)
      PROVE  loading' \subseteq loading
  BY <1>6, AnswerLoads DEF uacpi_table_find_by_signature, FindNextSearch
<1>7. ASSUME NEW plan, NEW c, NEW d, uacpi_table_ref(c, d, plan)
      PROVE  loading' \subseteq loading
  BY <1>7 DEF uacpi_table_ref, table_ctl, users
<1>8. ASSUME NEW c,
             \/ uacpi_table_find_next_with_same_signature(c)
             \/ uacpi_table_unref(c) \/ TableLoaded(c)
             \/ uacpi_table_mark_as_loaded(c)
      PROVE  loading' \subseteq loading
  BY <1>8 DEF uacpi_table_find_next_with_same_signature, uacpi_table_unref,
              TableLoaded, uacpi_table_mark_as_loaded, table_ctl, users
<1>9. ASSUME NEW h, uacpi_set_table_installation_handler(h)
      PROVE  loading' \subseteq loading
  BY <1>9 DEF uacpi_set_table_installation_handler, users
<1>10. ASSUME NEW b, uacpi_context_set_proactive_table_checksum(b)
       PROVE  loading' \subseteq loading
  BY <1>10 DEF uacpi_context_set_proactive_table_checksum, users
<1>11. ASSUME uacpi_state_reset PROVE loading' \subseteq loading
  BY <1>11 DEF uacpi_state_reset, Reset
<1> QED
  BY <1>1, <1>2, <1>3, <1>4, <1>5, <1>6, <1>7, <1>8, <1>9, <1>10, <1>11

-----------------------------------------------------------------------------
(***************************************************************************)
(* The table subsystem on its own.                                         *)
(***************************************************************************)
\* The invariant says that what is referenced is mapped, and nothing else.
LEMMA InvSound ==
    ASSUME IInv
    PROVE  MappedIffReferenced
BY DEF IInv, TablesInv, MappedIffReferenced

\* A step of the kernel that leaves the table subsystem alone.
LEMMA VarsUnchanged ==
    ASSUME UNCHANGED vars
    PROVE  Settled /\ handler' = handler /\ flags' = flags
BY DEF vars, array, Settled

\* Such a step preserves the invariant.
LEMMA StutterInv ==
    ASSUME IInv, UNCHANGED vars
    PROVE  IInv'
<1>1. handler \in {NoHandler} \cup Builds[build].handlers
  BY InvParts DEF Rest
<1> QED
  BY <1>1, VarsUnchanged, SettledInv

\* The counts, the mappings and the handles of the table array fit together
\* after every call, in any order the callers make them.
THEOREM TablesSound == Spec => []IInv
<1>1. Init => IInv
  BY InitInv
<1>2. IInv /\ [Next]_vars => IInv'
  BY NextInv, StutterInv
<1> QED
  BY <1>1, <1>2, PTL DEF Spec

-----------------------------------------------------------------------------
(***************************************************************************)
(* KernelBoot: the pages behind the mappings.                              *)
(***************************************************************************)
FreePages(pages) == 1..total_pages \ pages

\* The pages taken and the pages left can be counted.
LEMMA PagesCounted ==
    ASSUME total_pages \in Nat, NEW pages \in SUBSET (1..total_pages)
    PROVE  /\ IsFiniteSet(pages) /\ IsFiniteSet(FreePages(pages))
           /\ Cardinality(pages) \in Nat /\ Cardinality(FreePages(pages)) \in Nat
           /\ Avail(pages) = Cardinality(FreePages(pages))
           /\ FreePages(pages) \in SUBSET Nat
<1> DEFINE all == 1..total_pages
<1>1. IsFiniteSet(all) /\ Cardinality(all) = total_pages
  BY FS_Interval
<1>2. IsFiniteSet(pages) /\ IsFiniteSet(FreePages(pages))
  BY <1>1, FS_Subset DEF FreePages
<1>3. Cardinality(pages) \in Nat /\ Cardinality(FreePages(pages)) \in Nat
  BY <1>2, FS_CardinalityType
<1>4. all \cap pages = pages
  OBVIOUS
<1>5. Cardinality(all \ pages) = Cardinality(all) - Cardinality(all \cap pages)
  BY <1>1, FS_Difference
<1>6. Avail(pages) = Cardinality(FreePages(pages))
  BY <1>1, <1>4, <1>5 DEF Avail, FreePages
<1> QED
  BY <1>2, <1>3, <1>6 DEF FreePages

\* alloc_page finds a page when there is one.
LEMMA FirstFreeFound ==
    ASSUME total_pages \in Nat, NEW pages \in SUBSET (1..total_pages),
           Avail(pages) # 0
    PROVE  FirstFree(pages) \in FreePages(pages)
<1>1. FreePages(pages) # {} /\ FreePages(pages) \in SUBSET Nat
  BY PagesCounted, FS_EmptySet
<1>2. PICK p \in FreePages(pages) : \A q \in FreePages(pages) : p <= q
  BY <1>1, LeastExists
<1>3. p \in 1..total_pages /\ p \notin pages /\ \A q \in 1..(p - 1) : q \in pages
  BY <1>2 DEF FreePages
<1> QED
  BY <1>3 DEF FirstFree, FreePages

\* The host calls take pages, and one that was served has taken one.
LEMMA AfterCallsGrow ==
    ASSUME total_pages \in Nat, NEW pages \in SUBSET (1..total_pages), NEW n \in Nat,
           NEW after, after = AfterCalls(pages, n)
    PROVE  /\ pages \subseteq after /\ after \in SUBSET (1..total_pages)
           /\ Cardinality(after) >= Cardinality(pages)
           /\ n > 0 /\ Avail(pages) > 0 => Cardinality(after) > Cardinality(pages)
<1> DEFINE free == FreePages(pages)
           k == IF n < Cardinality(free) THEN n ELSE Cardinality(free)
<1>1. after = pages \cup {p \in free : Cardinality({q \in free : q <= p}) <= k}
  BY DEF AfterCalls, FreePages
<1>2. free \in SUBSET (1..total_pages) /\ free \cap pages = {}
  BY DEF FreePages
<1>3. /\ IsFiniteSet(free) /\ Cardinality(free) \in Nat
      /\ Avail(pages) = Cardinality(free)
      /\ IsFiniteSet(pages) /\ Cardinality(pages) \in Nat
      /\ free \in SUBSET Nat
  BY PagesCounted
<1> HIDE DEF free
<1>4. pages \subseteq after /\ after \in SUBSET (1..total_pages)
  BY <1>1, <1>2
<1>5. IsFiniteSet(after) /\ Cardinality(after) \in Nat
  BY <1>4, PagesCounted
<1>6. Cardinality(after) >= Cardinality(pages)
  BY <1>4, <1>5, FS_Subset
<1>7. ASSUME n > 0, Avail(pages) > 0
      PROVE  Cardinality(after) > Cardinality(pages)
  <2>1. free # {} /\ k >= 1
    BY <1>3, <1>7, FS_EmptySet
  <2>2. PICK p \in free : \A q \in free : p <= q
    BY <1>3, <2>1, LeastExists
  <2>3. {q \in free : q <= p} = {p}
    <3>1. \A q \in free : q \in Nat /\ p \in Nat
      BY <1>3
    <3>2. \A q \in free : q <= p <=> q = p
      BY <2>2, <3>1
    <3> QED
      BY <2>2, <3>2
  <2>4. p \in after /\ p \notin pages
    BY <1>1, <1>2, <2>1, <2>2, <2>3, FS_Singleton
  <2>5. Cardinality(pages \cup {p}) = Cardinality(pages) + 1
    BY <1>3, <2>4, FS_AddElement
  <2>6. pages \cup {p} \subseteq after
    BY <1>4, <2>4
  <2>7. Cardinality(pages \cup {p}) <= Cardinality(after)
    BY <1>5, <2>6, FS_Subset
  <2> QED
    BY <1>3, <1>5, <2>5, <2>7
<1> QED
  BY <1>4, <1>6, <1>7

-----------------------------------------------------------------------------
(***************************************************************************)
(* kinit.                                                                  *)
(***************************************************************************)
\* The kernel has found no table yet: the counts are those of the subsystem.
LEMMA NoneFound ==
    ASSUME SystemInv, hpet_table = NoTable
    PROVE  IInv
BY DEF SystemInv, IInv, NoTable

\* ... also after a step.
LEMMA NoneFoundNext ==
    ASSUME IInv', hpet_table' = NoTable
    PROVE  TablesInv' /\ Counted(hpet_table.index)'
<1>1. hpet_table'.index = 0
  BY DEF NoTable
<1> QED
  BY <1>1 DEF IInv, Counted, Holders

\* What leaves the tables alone keeps what is said of them.
LEMMA TablesStutter ==
    ASSUME TablesInv, UNCHANGED vars
    PROVE  TablesInv'
<1>1. ArrayRight
  BY InvArray
<1>2. Settled /\ handler' = handler
  BY VarsUnchanged
<1>3. EntriesSound' /\ StorageBacked' /\ OneMappingEach'
  BY <1>1, <1>2 DEF Settled, ArrayRight, EntriesSound, MaxRef, StorageBacked,
                    InlineCap, OneMappingEach, Referenced
<1>4. TypeOK' /\ CallersFit' /\ ExecutedMarked' /\ ~mutex'
  BY <1>2 DEF Settled, TablesInv, TypeOK, CallersFit, ExecutedMarked
<1>5. HandlesLive'
  BY <1>2 DEF Settled, TablesInv, HandlesLive, Live
<1> QED
  BY <1>3, <1>4, <1>5 DEF TablesInv

\* The counts stay exact when the tables and their holders stay.
LEMMA CountedStutter ==
    ASSUME NEW x, Counted(x), UNCHANGED vars
    PROVE  \A k \in DOMAIN tables' :
             tables'[k].refs # MaxRef' =>
               tables'[k].refs = Holders(k)' + (IF x = k THEN 1 ELSE 0)
<1>1. Settled
  BY VarsUnchanged
<1> QED
  BY <1>1 DEF Settled, Counted, Holders, MaxRef

\* Steps that leave the tables and what the driver has found alone.
LEMMA KernelStutter ==
    ASSUME SystemInv, UNCHANGED vars, hpet_table' = hpet_table
    PROVE  TablesInv' /\ Counted(hpet_table.index)'
<1>1. TablesInv'
  BY TablesStutter DEF SystemInv
<1>2. Counted(hpet_table.index)'
  BY CountedStutter DEF SystemInv, Counted
<1> QED
  BY <1>1, <1>2

\* The initialisers before acpi_init, the idle kernel and the stopped one.
Elsewhere ==
  /\ UNCHANGED <<vars, taken, buffer, hpet_table>>
  /\ total_pages' \in Nat /\ (total_pages' = total_pages \/ taken = {})
  /\ \/ kpc' = kpc
     \/ kpc # "hosted" /\ kpc' \in {"idt_init", "bitmap_init", "acpi_init"}
        /\ kpc \notin {"timer_init", "idle", "fault"}
     \/ kpc = "acpi_init" /\ kpc' = "timer_init"

\* Those steps preserve the invariant of the kernel.
LEMMA ElsewhereInv ==
    ASSUME SystemInv, Elsewhere
    PROVE  SystemInv'
<1>1. TablesInv' /\ Counted(hpet_table.index)'
  BY KernelStutter DEF Elsewhere
<1>2. Settled /\ UNCHANGED <<taken, buffer, hpet_table>>
  BY VarsUnchanged DEF Elsewhere
<1>3. kpc' = "hosted" <=> kpc = "hosted"
  BY DEF Elsewhere
<1>4. KernelAlone'
  <2>1. KernelAlone
    BY DEF SystemInv
  <2>2. kpc' \notin {"timer_init", "idle", "fault"} =>
          kpc \notin {"timer_init", "idle", "fault"}
    BY DEF Elsewhere
  <2>3. kpc' \notin {"idle", "fault"} => kpc \notin {"idle", "fault"}
    BY DEF Elsewhere
  <2> QED
    BY <1>2, <1>3, <2>1, <2>2, <2>3 DEF KernelAlone, Settled
<1>5. PagesTyped'
  BY <1>2 DEF Elsewhere, SystemInv, PagesTyped
<1>6. BufferKept' /\ MappingsBacked'
  BY <1>2, <1>3 DEF Settled, SystemInv, BufferKept, MappingsBacked
<1> QED
  BY <1>1, <1>4, <1>5, <1>6 DEF SystemInv

\* acpi_init preserves the invariant of the kernel.
LEMMA AcpiInv ==
    ASSUME SystemInv, acpi_init
    PROVE  SystemInv'
<1>1. /\ kpc = "acpi_init" /\ kpc' = "timer_init"
      /\ UNCHANGED <<total_pages, hpet_table, hpet_base>>
  BY DEF acpi_init
<1>2. /\ KernelAlone /\ PagesTyped /\ hpet_table = NoTable /\ IInv
      /\ total_pages \in Nat /\ taken = {}
  BY <1>1, NoneFound DEF SystemInv, KernelAlone, PagesTyped
<1>3. CASE Avail(taken) = 0
  <2>1. UNCHANGED <<vars, taken, buffer>>
    BY <1>3 DEF acpi_init
  <2>2. Elsewhere
    BY <1>1, <1>2, <2>1 DEF Elsewhere
  <2> QED
    BY <2>2, ElsewhereInv
<1>4. CASE Avail(taken) # 0
  <2> DEFINE tmp == FirstFree(taken)
             pages == taken \cup {tmp}
             s == initialize_from_rsdp(
                    [Begin(PlanFor(pages)) EXCEPT
                       !.cap = BufferTables, !.home = "buffer", !.early = TRUE])
  <2>1. /\ uacpi_setup_early_table_access(BufferTables, PlanFor(pages))
        /\ buffer' = tmp
        /\ taken' = AfterCalls(pages, s.calls)
    BY <1>4 DEF acpi_init, free_page
  <2>2. tmp \in 1..total_pages
    BY <1>2, <1>4, FirstFreeFound DEF FreePages
  <2>3. BufferTables \in Nat
    BY PagesAssumption
  <2>4. s.calls \in Nat
    <3> DEFINE b == [Begin(PlanFor(pages)) EXCEPT
                       !.cap = BufferTables, !.home = "buffer", !.early = TRUE]
    <3>1. ArrayRight /\ Setting /\ Firmware /\ tables = <<>>
      BY <1>2, <2>1, InvParts DEF CallersFit, uacpi_setup_early_table_access
    <3>2. Begun(b)
      BY <2>3, <3>1, BegunEarly
    <3>3. s = initialize_from_rsdp(b)
      OBVIOUS
    <3> HIDE DEF b, s
    <3>4. Grown(b, s)
      BY <3>1, <3>2, <3>3, RootEffect DEF Begun
    <3> QED
      BY <3>4 DEF Grown, IsCall
  <2> HIDE DEF tmp, s
  <2>5. IInv' /\ maps' = {} /\ phase' \in {"offline", "early"}
        /\ (phase' = "offline" => home' = "none")
    BY <1>2, <2>1, <2>3, SetupInv
  <2>6. pages \in SUBSET (1..total_pages) /\ tmp \in pages
    BY <1>2, <2>2
  <2>7. pages \subseteq taken' /\ taken' \in SUBSET (1..total_pages)
    <3> DEFINE n == s.calls
    <3>1. taken' = AfterCalls(pages, n) /\ n \in Nat /\ total_pages \in Nat
          /\ pages \in SUBSET (1..total_pages)
      BY <1>2, <2>1, <2>4, <2>6
    <3> HIDE DEF pages, n
    <3> QED
      BY <3>1, AfterCallsGrow
  <2>8. tmp \in taken' /\ PagesTyped' /\ BufferKept'
    BY <1>1, <1>2, <2>1, <2>6, <2>7 DEF PagesTyped, BufferKept
  <2>9. MappingsBacked'
    <3>1. IsFiniteSet(taken') /\ Cardinality(taken') \in Nat
      BY <1>2, <2>7, PagesCounted
    <3>2. Cardinality(taken') # 0
      BY <2>8, <3>1, FS_EmptySet
    <3>3. Cardinality(maps') = 0
      BY <2>5, FS_EmptySet
    <3> QED
      BY <3>1, <3>2, <3>3 DEF MappingsBacked
  <2>10. KernelAlone'
    <3>1. UNCHANGED <<facs, held, search>>
      BY <2>1 DEF uacpi_setup_early_table_access, users
    <3> QED
      BY <1>1, <1>2, <2>1, <2>5, <2>8, <3>1 DEF KernelAlone
  <2>11. TablesInv' /\ Counted(hpet_table.index)'
    BY <1>1, <1>2, <2>5, NoneFoundNext
  <2> QED
    BY <2>8, <2>9, <2>10, <2>11 DEF SystemInv
<1> QED
  BY <1>3, <1>4

\* What the search for the HPET table maps has a page.
SearchBacked(s) ==
  /\ s.calls \in Nat /\ IsFiniteSet(s.maps) /\ Cardinality(s.maps) \in Nat
  /\ Cardinality(s.maps) <= 1
  /\ Cardinality(s.maps) > 0 => s.calls > 0 /\ Avail(taken) > 0

\* The search maps at most one table, and with a page.
LEMMA SearchMaps ==
    ASSUME ArrayRight, Setting, PagesTyped, maps = {},
           NEW s0, s0 = Begin(PlanFor(taken)), NEW s, s = find_table(s0, 1, "HPET")
    PROVE  SearchBacked(s)
<1>1. Begun(s0) /\ s0.plan = PlanFor(taken)
  BY BegunPlain, BeginFields
<1>2. Sought(s0, s)
  BY <1>1, FindEffect DEF Begun
<1>3. IsCall(s) /\ Frame(s0, s)
  BY <1>1, <1>2, SoughtAnswered, AnsweredGained
<1>4. s.maps = {} \/ (Served(s) /\ \E m : s.maps = {m})
  <2>1. CASE Grown(s0, s)
    BY <1>1, <2>1 DEF Grown, Begun
  <2>2. ASSUME NEW j, FirstGiven(s0, s, j)
        PROVE  s.maps = {} \/ (Served(s) /\ \E m : s.maps = {m})
    <3> DEFINE new == [va |-> s.tables[j].ptr, addr |-> s.tables[j].addr]
    <3>1. s0.maps = {}
      BY <1>1 DEF Begun
    <3>2. CASE Physical(s.tables[j].origin)
      <4>1. MappedFor(s0, s, s.tables[j])
        BY <2>2, <3>2 DEF FirstGiven
      <4>2. Served(s) /\ s.maps = {new}
        BY <3>1, <4>1 DEF MappedFor
      <4> QED
        BY <4>2
    <3>3. CASE ~Physical(s.tables[j].origin)
      BY <2>2, <3>1, <3>3 DEF FirstGiven
    <3> QED
      BY <3>2, <3>3
  <2>3. ASSUME NEW j, MoreGiven(s0, s, j) PROVE s.maps = {}
    BY <1>1, <2>3 DEF MoreGiven, Begun
  <2> QED
    BY <1>2, <2>1, <2>2, <2>3 DEF Sought, Given
<1>5. Served(s) => s.calls > 0 /\ Avail(taken) > 0
  <2> SUFFICES ASSUME Served(s) PROVE s.calls > 0 /\ Avail(taken) > 0
    OBVIOUS
  <2>1. PICK n \in 1..s.calls : n \notin s.plan
    BY DEF Served
  <2>2. s.calls \in Nat /\ s.plan = {k \in Nat : k > Avail(taken)}
    BY <1>1, <1>3 DEF IsCall, Frame, PlanFor
  <2>3. Avail(taken) \in Nat
    BY PagesCounted DEF PagesTyped
  <2>4. n \in Nat /\ n > 0 /\ n <= s.calls /\ ~(n > Avail(taken))
    BY <2>1, <2>2
  <2> QED
    BY <2>2, <2>3, <2>4
<1>6. IsFiniteSet(s.maps) /\ Cardinality(s.maps) \in Nat
  BY <1>3, FS_CardinalityType DEF IsCall
<1>7. CASE s.maps = {}
  <2>1. Cardinality(s.maps) = 0
    BY <1>7, FS_EmptySet
  <2> QED
    BY <1>3, <1>6, <2>1 DEF SearchBacked, IsCall
<1>8. CASE Served(s) /\ \E m : s.maps = {m}
  <2>1. Cardinality(s.maps) = 1
    BY <1>8, FS_Singleton
  <2> QED
    BY <1>3, <1>5, <1>6, <1>8, <2>1 DEF SearchBacked, IsCall
<1> QED
  BY <1>4, <1>7, <1>8

\* The search gives the driver the table it has found, and none otherwise.
LEMMA SearchTables ==
    ASSUME IInv, phase = "early", facs = NoTable,
           \A c \in Clients : held[c] = NoTable,
           NEW plan, NEW s0, s0 = Begin(plan), NEW s, s = find_table(s0, 1, "HPET"),
           Commit(s), hpet_table' = IF Ok(s) THEN s.out ELSE NoTable,
           UNCHANGED <<phase, handler, facs, mutex, root, users>>
    PROVE  TablesInv' /\ Counted(hpet_table.index)'
<1>1. /\ Rest /\ CallersFit /\ ~mutex /\ ArrayRight /\ Setting /\ ExecutedMarked
      /\ tables \in Seq(Entry) /\ CountsBounded(tables)
      /\ ExactIn(tables, held, loading, facs)
  BY InvParts
<1>2. Begun(s0) /\ (s0.early <=> phase = "early")
  BY <1>1, BegunPlain, BeginFields
<1>3. Sought(s0, s) /\ Answered(s0, s)
  BY <1>1, <1>2, FindEffect, SoughtAnswered DEF Begun
<1>4. IsCall(s) /\ MappedRight(s) /\ Frame(s0, s)
  BY <1>1, <1>2, <1>3, AnsweredGained
<1>5. PICK j \in Nat : /\ Gained(tables, s.tables, j)
                       /\ s.out = IF j = 0 THEN NoTable ELSE HandleOf(s, j)
  BY <1>1, <1>2, <1>3, AnsweredGained
<1>6. hpet_table' = s.out
  <2>1. CASE Ok(s)
    BY <2>1
  <2>2. CASE ~Ok(s)
    BY <1>2, <1>3, <2>2 DEF Sought, Grown, Begun
  <2> QED
    BY <2>1, <2>2
<1>7. hpet_table'.index = j
  BY <1>5, <1>6 DEF HandleOf, NoTable
<1>8. tables' = s.tables /\ build' = build
      /\ UNCHANGED <<phase, handler, facs, mutex, root, held, search, loading, executed>>
  BY DEF Commit, users
<1>9. ArrayRight'
  BY <1>2, <1>4, <1>8, Committed DEF Frame
<1>10. Rest' /\ CallersFit'
  BY <1>1, <1>8 DEF Rest, CallersFit
<1>11. ExecutedMarked'
  BY <1>1, <1>5, <1>8 DEF ExecutedMarked, Gained
<1>12. HandlesIn(tables', held', facs')
  BY <1>8 DEF HandlesIn
<1>13. TablesInv'
  BY <1>1, <1>8, <1>9, <1>10, <1>11, <1>12, TablesMade
<1>14. loading \in SUBSET Clients /\ held \in [Clients -> Handle]
  BY <1>1 DEF Rest
<1>15. \A k \in Nat \ {0} : HoldersIn(held, loading, facs, k) = 0
  BY <1>14, NoHolders DEF NoTable
<1>16. \A k \in Nat \ {0} : HoldersIn(held, loading, hpet_table', k)
                              = HoldersIn(held, loading, facs, k) + One(j = k)
  <2> TAKE k \in Nat \ {0}
  <2>1. facs.index # k
    BY DEF NoTable
  <2> QED
    BY <1>7, <1>14, <2>1, HoldersFinite DEF HoldersIn, One
<1>17. ExactIn(tables', held, loading, hpet_table')
  BY <1>1, <1>5, <1>8, <1>15, <1>16, GainedCounts
<1>18. Counted(hpet_table.index)'
  <2> SUFFICES ASSUME NEW k \in DOMAIN tables', tables'[k].refs # MaxRef'
               PROVE  tables'[k].refs
                        = Holders(k)' + (IF hpet_table'.index = k THEN 1 ELSE 0)
    BY DEF Counted
  <2>1. k \in 1..Len(tables') /\ k \in Nat \ {0} /\ MaxRef' = MaxRef
    BY <1>8, <1>9 DEF ArrayRight, MaxRef
  <2>2. tables'[k].refs = HoldersIn(held, loading, hpet_table', k)
    BY <1>17, <2>1 DEF ExactIn
  <2>3. Holders(k)' = HoldersIn(held, loading, facs, k)
    BY <1>8 DEF Holders, HoldersIn, HandlesTo, LoadsOf, One
  <2>4. HoldersIn(held, loading, hpet_table', k)
          = HoldersIn(held, loading, facs, k) + One(j = k)
    BY <1>16, <2>1
  <2> QED
    BY <1>7, <2>2, <2>3, <2>4 DEF One
<1> QED
  BY <1>13, <1>18

\* timer_init preserves the invariant of the kernel.
LEMMA TimerInv ==
    ASSUME SystemInv, timer_init
    PROVE  SystemInv'
<1> DEFINE s0 == Begin(PlanFor(taken))
           s == find_table(s0, 1, "HPET")
           pages == IF phase = "early" THEN AfterCalls(taken, s.calls) ELSE taken
<1>1. /\ kpc = "timer_init" /\ kpc' \in {"idle", "fault"}
      /\ IF phase = "early" THEN Commit(s) ELSE UNCHANGED array
      /\ hpet_table' = IF phase = "early" /\ Ok(s) THEN s.out ELSE NoTable
      /\ taken' = AfterCalls(pages, 1)
      /\ UNCHANGED <<phase, handler, flags, facs, mutex, root, users, total_pages,
                     buffer>>
  BY DEF timer_init, Ok
<1>2. /\ KernelAlone /\ PagesTyped /\ hpet_table = NoTable /\ IInv /\ maps = {}
      /\ phase # "full" /\ facs = NoTable
      /\ \A c \in Clients : held[c] = NoTable /\ search[c] = NULL
      /\ phase = "early" => buffer \in taken
      /\ total_pages \in Nat /\ taken \in SUBSET (1..total_pages)
  BY <1>1, NoneFound DEF SystemInv, KernelAlone, PagesTyped
<1>3. ArrayRight /\ Setting /\ Rest
  BY <1>2, InvParts
<1>4. s0 = Begin(PlanFor(taken)) /\ s = find_table(s0, 1, "HPET")
      /\ pages = IF phase = "early" THEN AfterCalls(taken, s.calls) ELSE taken
  OBVIOUS
<1> HIDE DEF s0, s, pages
<1>5. SearchBacked(s)
  BY <1>2, <1>3, <1>4, SearchMaps
<1>6. /\ taken \subseteq pages /\ pages \in SUBSET (1..total_pages)
      /\ Cardinality(pages) >= Cardinality(taken)
      /\ phase = "early" /\ s.calls > 0 /\ Avail(taken) > 0
           => Cardinality(pages) > Cardinality(taken)
  <2>1. CASE phase = "early"
    <3> DEFINE n == s.calls
    <3>1. n \in Nat /\ pages = AfterCalls(taken, n)
      BY <1>4, <1>5, <2>1 DEF SearchBacked
    <3> HIDE DEF n
    <3>2. /\ taken \subseteq pages /\ pages \in SUBSET (1..total_pages)
          /\ Cardinality(pages) >= Cardinality(taken)
          /\ n > 0 /\ Avail(taken) > 0 => Cardinality(pages) > Cardinality(taken)
      BY <1>2, <3>1, AfterCallsGrow
    <3> QED
      BY <3>2 DEF n
  <2>2. CASE phase # "early"
    <3>1. Cardinality(taken) \in Nat
      BY <1>2, PagesCounted
    <3> QED
      BY <1>2, <1>4, <2>2, <3>1
  <2> QED
    BY <2>1, <2>2
<1>7. /\ pages \subseteq taken' /\ taken' \in SUBSET (1..total_pages)
      /\ Cardinality(taken') >= Cardinality(pages)
  BY <1>1, <1>2, <1>6, AfterCallsGrow
<1>8. /\ Cardinality(taken) \in Nat /\ Cardinality(pages) \in Nat
      /\ Cardinality(taken') \in Nat /\ IsFiniteSet(taken)
  BY <1>2, <1>6, <1>7, PagesCounted
<1>9. PagesTyped' /\ (phase' = "early" => buffer' \in taken')
  BY <1>1, <1>2, <1>6, <1>7 DEF PagesTyped
<1>10. UNCHANGED <<held, search, loading, executed, phase, facs, buffer>>
  BY <1>1 DEF users
<1>11. CASE phase = "early"
  <2>1. TablesInv' /\ Counted(hpet_table.index)'
    BY <1>1, <1>2, <1>4, <1>11, SearchTables
  <2>2. KernelAlone' /\ BufferKept'
    BY <1>1, <1>2, <1>9, <1>10, <1>11 DEF KernelAlone, BufferKept
  <2>3. Cardinality(taken) # 0
    BY <1>2, <1>8, <1>11, FS_EmptySet
  <2>4. maps' = s.maps
    BY <1>1, <1>11 DEF Commit
  <2>5. MappingsBacked'
    BY <1>5, <1>6, <1>7, <1>8, <1>11, <2>3, <2>4 DEF MappingsBacked, SearchBacked
  <2> QED
    BY <1>9, <2>1, <2>2, <2>5 DEF SystemInv
<1>12. CASE phase # "early"
  <2>1. UNCHANGED vars /\ hpet_table' = hpet_table
    BY <1>1, <1>2, <1>12 DEF vars, users
  <2>2. TablesInv' /\ Counted(hpet_table.index)'
    BY <2>1, KernelStutter
  <2>3. phase = "offline" /\ home = "none"
    BY <1>1, <1>2, <1>3, <1>12 DEF Rest, KernelAlone
  <2>4. home' = "none" /\ maps' = {}
    BY <1>2, <2>1, <2>3 DEF vars, array
  <2>5. KernelAlone' /\ BufferKept'
    BY <1>1, <1>2, <1>10, <2>3, <2>4 DEF KernelAlone, BufferKept
  <2>6. MappingsBacked'
    <3>1. Cardinality(maps') = 0
      BY <2>4, FS_EmptySet
    <3> QED
      BY <1>8, <2>4, <3>1 DEF MappingsBacked
  <2> QED
    BY <1>9, <2>2, <2>5, <2>6 DEF SystemInv
<1> QED
  BY <1>11, <1>12

\* The invariant of the kernel holds at its start.
LEMMA SystemInitInv ==
    ASSUME KInit \/ HostedInit
    PROVE  SystemInv
<1>1. /\ Init /\ total_pages = 0 /\ taken = {} /\ hpet_table = NoTable
      /\ kpc \in {"gdt_init", "hosted"}
  BY DEF KInit, HostedInit
<1>2. IInv /\ Counted(hpet_table.index)
  BY <1>1, InitInv DEF IInv, NoTable
<1>3. /\ phase = "offline" /\ home = "none" /\ maps = {} /\ facs = NoTable
      /\ \A c \in Clients : held[c] = NoTable /\ search[c] = NULL
  BY <1>1 DEF Init
<1>4. KernelAlone /\ PagesTyped /\ BufferKept
  BY <1>1, <1>3 DEF KernelAlone, PagesTyped, BufferKept
<1>5. Cardinality(maps) = 0 /\ Cardinality(taken) = 0
  BY <1>1, <1>3, FS_EmptySet
<1>6. MappingsBacked
  BY <1>3, <1>5 DEF MappingsBacked
<1> QED
  BY <1>2, <1>4, <1>6 DEF SystemInv, IInv

\* uACPI under another host.
LEMMA HostedInv ==
    ASSUME SystemInv, HostedNext
    PROVE  SystemInv'
<1>1. kpc = "hosted" /\ kpc' = "hosted" /\ UNCHANGED <<total_pages, taken, hpet_table>>
  BY DEF HostedNext, kernel
<1>2. hpet_table = NoTable /\ PagesTyped
  BY <1>1 DEF SystemInv, KernelAlone
<1>3. IInv'
  BY <1>2, NoneFound, NextInv DEF HostedNext
<1>4. TablesInv' /\ Counted(hpet_table.index)'
  BY <1>1, <1>2, <1>3, NoneFoundNext
<1>5. KernelAlone' /\ PagesTyped' /\ BufferKept' /\ MappingsBacked'
  BY <1>1, <1>2 DEF KernelAlone, PagesTyped, BufferKept, MappingsBacked
<1> QED
  BY <1>4, <1>5 DEF SystemInv

\* The steps of the kernel that are neither acpi_init's nor timer_init's.
LEMMA KernelElsewhere ==
    ASSUME SystemInv,
           \/ gdt_init \/ idt_init \/ bitmap_init \/ kmain \/ Stopped
           \/ UNCHANGED kvars
    PROVE  Elsewhere
<1>1. KernelAlone /\ total_pages \in Nat
  BY DEF SystemInv, PagesTyped
<1>2. CASE gdt_init
  BY <1>1, <1>2 DEF gdt_init, Elsewhere, kernel
<1>3. CASE idt_init
  BY <1>1, <1>3 DEF idt_init, Elsewhere, kernel
<1>4. CASE bitmap_init
  <2>1. taken = {} /\ total_pages' \in Nat
    BY <1>1, <1>4, PagesAssumption DEF bitmap_init, KernelAlone
  <2> QED
    BY <1>4, <2>1 DEF bitmap_init, Elsewhere
<1>5. CASE kmain
  BY <1>1, <1>5 DEF kmain, Elsewhere, kernel
<1>6. CASE Stopped \/ UNCHANGED kvars
  BY <1>1, <1>6 DEF Stopped, Elsewhere, kvars, kernel
<1> QED
  BY <1>2, <1>3, <1>4, <1>5, <1>6

\* Every step of the kernel, and of a host, preserves its invariant.
LEMMA SystemNextInv ==
    ASSUME SystemInv, [SystemNext]_kvars
    PROVE  SystemInv'
BY HostedInv, KernelElsewhere, ElsewhereInv, AcpiInv, TimerInv
DEF SystemNext, KNext, kinit

\* What a step of the kernel does to the counts and to the callers.
LEMMA KernelSteps ==
    ASSUME SystemInv, KNext \/ UNCHANGED kvars
    PROVE  CsumStep /\ loading' = loading
<1>1. tables \in Seq(Entry) /\ Setting /\ ArrayRight
  BY InvArray DEF SystemInv, TablesInv, TypeOK
<1>2. ASSUME UNCHANGED vars PROVE CsumStep /\ loading' = loading
  <2>1. tables' = tables /\ loading' = loading
    BY <1>2 DEF vars, array
  <2> QED
    BY <1>1, <2>1, SameCsum DEF CsumStep
<1>3. ASSUME acpi_init PROVE CsumStep /\ loading' = loading
  <2>1. CASE Avail(taken) = 0
    BY <1>2, <1>3, <2>1 DEF acpi_init
  <2>2. CASE Avail(taken) # 0
    <3>1. PICK plan : uacpi_setup_early_table_access(BufferTables, plan)
      BY <1>3, <2>2 DEF acpi_init
    <3>2. BufferTables \in Nat
      BY PagesAssumption
    <3>3. IInv
      BY <1>3, NoneFound DEF acpi_init, SystemInv, KernelAlone
    <3>4. loading' = loading
      BY <3>1 DEF uacpi_setup_early_table_access, users
    <3> QED
      BY <3>1, <3>2, <3>3, <3>4, SetupCsum
  <2> QED
    BY <2>1, <2>2
<1>4. ASSUME timer_init PROVE CsumStep /\ loading' = loading
  <2> DEFINE s0 == Begin(PlanFor(taken))
             s == find_table(s0, 1, "HPET")
  <2>1. /\ IF phase = "early" THEN Commit(s) ELSE UNCHANGED array
        /\ UNCHANGED <<flags, users>>
    BY <1>4 DEF timer_init
  <2>2. s0 = Begin(PlanFor(taken)) /\ s = find_table(s0, 1, "HPET")
    OBVIOUS
  <2> HIDE DEF s0, s
  <2>3. Begun(s0) /\ s0.flags = flags
    BY <1>1, <2>2, BegunPlain, BeginFields
  <2>4. Sought(s0, s)
    BY <1>1, <2>2, <2>3, FindEffect DEF Begun
  <2>5. Answered(s0, s)
    BY <2>4, SoughtAnswered
  <2>6. CsumRight(tables, s.tables, s.flags) /\ s.flags = flags
    BY <1>1, <2>3, <2>5, AnsweredCsum, AnsweredGained DEF Frame
  <2>7. CASE phase = "early"
    BY <2>1, <2>6, <2>7 DEF Commit, CsumStep, users
  <2>8. CASE phase # "early"
    BY <1>1, <2>1, <2>8, SameCsum DEF array, CsumStep, users
  <2> QED
    BY <2>7, <2>8
<1> QED
  BY <1>2, <1>3, <1>4, KernelElsewhere DEF KNext, kinit, Elsewhere

\* No step of the kernel gives a bad table or loads one twice.
LEMMA SystemSteps ==
    ASSUME SystemInv, [SystemNext]_kvars
    PROVE  CsumStep /\ LoadStep
<1>1. CASE HostedNext
  <2>1. IInv
    BY <1>1, NoneFound DEF HostedNext, SystemInv, KernelAlone
  <2> QED
    BY <1>1, <2>1, NextCsum, NextLoads DEF HostedNext
<1>2. CASE KNext \/ UNCHANGED kvars
  BY <1>2, KernelSteps DEF LoadStep
<1> QED
  BY <1>1, <1>2 DEF SystemNext

\* The invariant of the kernel holds in every reachable state.
LEMMA SystemAlways ==
    SystemSpec => []SystemInv
<1>1. KInit \/ HostedInit => SystemInv
  BY SystemInitInv
<1>2. SystemInv /\ [SystemNext]_kvars => SystemInv'
  BY SystemNextInv
<1> QED
  BY <1>1, <1>2, PTL DEF SystemSpec

\* Between calls of uACPI the host's live mappings (uacpi_kernel_map, _unmap)
\* are those of the referenced physical tables, one for each, and the
\* uacpi_tables handed out point into them, whichever host calls failed before
\* and in whatever order the callers and kinit made theirs.
THEOREM TablesMapped == SystemSpec => []MappedIffReferenced
<1>1. SystemInv => MappedIffReferenced
  BY DEF SystemInv, TablesInv, MappedIffReferenced
<1> QED
  BY <1>1, SystemAlways, PTL

\* A table's reference count (table_ref_unlocked, table_unref_unlocked) is the
\* number of the references its callers, the FACS pointer and the HPET driver
\* have to it, unless it saturated, and table_mutex is not left held.
THEOREM TablesCounted == SystemSpec => []RefsExact
<1>1. SystemInv => RefsExact
  <2> SUFFICES ASSUME SystemInv PROVE RefsExact
    OBVIOUS
  <2>1. Counted(hpet_table.index) /\ ~mutex /\ EntriesSound
    BY DEF SystemInv, TablesInv
  <2>2. MutexReleased
    BY <2>1 DEF EntriesSound, MutexReleased
  <2> QED
    BY <2>1, <2>2 DEF RefsExact, CountsExact, Counted, DriverHolds
<1> QED
  BY <1>1, SystemAlways, PTL

\* The buffer acpi_init gave away stays taken while the table array is in it,
\* every live mapping has a page of its own (alloc_page), and the array never
\* outgrows its storage (table_alloc).
THEOREM TableMemoryKept == SystemSpec => []MemoryKept
<1>1. SystemInv => MemoryKept
  BY DEF SystemInv, TablesInv, MemoryKept
<1> QED
  BY <1>1, SystemAlways, PTL

\* uacpi_table_load never feeds the same table to the interpreter twice: the
\* mark it tests and sets under table_mutex outlives its execution.
THEOREM TablesLoadedOnce == SystemSpec => LoadedAtMostOnce
<1>1. SystemInv /\ [SystemNext]_kvars
        => [\A c \in loading' \ loading : held[c].index \notin executed]_vars
  BY SystemSteps DEF LoadStep
<1> QED
  BY <1>1, SystemAlways, PTL DEF SystemSpec, LoadedAtMostOnce

\* With the flag that makes bad checksums fatal, a firmware table whose
\* checksum is wrong (uacpi_verify_table_checksum) gets no first reference,
\* unless early table access had it marked as verified or it is the FACS.
THEOREM TablesChecked == SystemSpec => BadCsumFatal
<1> DEFINE Right ==
      \A k \in DOMAIN tables' :
        LET before == IF k \in DOMAIN tables THEN tables[k]
                      ELSE [refs |-> 0, verified |-> FALSE]
            c == Memory[tables'[k].addr]
        IN /\ "BAD_CSUM_FATAL" \in flags'
           /\ before.refs = 0 /\ tables'[k].refs > 0
           /\ Physical(tables'[k].origin)
           => c.good \/ c.sig = "FACS" \/ before.verified
<1>1. SystemInv /\ [SystemNext]_kvars => Right
  <2> SUFFICES ASSUME SystemInv, [SystemNext]_kvars PROVE Right
    OBVIOUS
  <2>1. CsumStep /\ SystemInv'
    BY SystemSteps, SystemNextInv
  <2>2. tables \in Seq(Entry) /\ tables' \in Seq(Entry)
    BY <2>1 DEF SystemInv, TablesInv, TypeOK, Entry
  <2>3. Len(tables) \in Nat /\ DOMAIN tables = 1..Len(tables)
        /\ Len(tables') \in Nat /\ DOMAIN tables' = 1..Len(tables')
    BY <2>2
  <2> TAKE k \in DOMAIN tables'
  <2>4. CASE k \in DOMAIN tables
    BY <2>1, <2>3, <2>4 DEF CsumStep, CsumRight
  <2>5. CASE k \notin DOMAIN tables
    BY <2>1, <2>3, <2>5 DEF CsumStep, CsumRight
  <2> QED
    BY <2>4, <2>5
<1> QED
  BY <1>1, SystemAlways, PTL DEF SystemSpec, BadCsumFatal

=============================================================================
