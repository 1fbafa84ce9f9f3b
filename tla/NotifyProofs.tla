---------------------------- MODULE NotifyProofs ----------------------------
(***************************************************************************)
(* Proofs about Notify for any devices and callbacks, any finite sets of   *)
(* threads, handler records and notifications, and any bounds on calls and *)
(* failures of the host.                                                   *)
(***************************************************************************)
EXTENDS Notify, WellFoundedInduction, FiniteSetTheorems, TLAPS

(***************************************************************************)
(* Lists.  The next pointers determine what is linked from a handler on.   *)
(***************************************************************************)
\* A set of naturals has a least element.
LEMMA LeastExists ==
    ASSUME NEW T \in SUBSET Nat, T # {}
    PROVE  \E x \in T : \A y \in T : x <= y
<1>1. PICK x \in T : \A y \in T : <<y, x>> \notin OpToRel(<, Nat)
  BY NatLessThanWellFounded, WFMin
<1>2. \A y \in T : ~(y < x)
  BY <1>1 DEF OpToRel
<1> QED
  BY <1>2

\* The number of handler records is a number.
LEMMA CellsCounted == Cardinality(Cells) \in Nat
  BY NamesAssumption, FS_CardinalityType

Empty == [c \in Cells \cup {None} |-> <<>>]

\* Function f follows the links up to n times.
Follows(link, f, n) ==
    f = [k \in 0 .. n |-> IF k = 0 THEN Empty ELSE Onward(link, f[k - 1])]

\* There is such a function for each n: the recursion of Chain is one.
LEMMA FollowingExists ==
    ASSUME NEW link, NEW n \in Nat
    PROVE  \E f : Follows(link, f, n)
<1> DEFINE T == {k \in Nat : ~\E f : Follows(link, f, k)}
<1> SUFFICES ASSUME T # {} PROVE FALSE
  OBVIOUS
<1>1. PICK k \in T : \A j \in T : k <= j
  BY LeastExists
<1>2. k # 0
  <2>1. Follows(link, [j \in 0 .. 0 |-> Empty], 0)
    BY DEF Follows
  <2> QED
    BY <2>1
<1>3. k - 1 \in Nat /\ k - 1 \notin T
  BY <1>1, <1>2
<1>4. PICK f : Follows(link, f, k - 1)
  BY <1>3
<1> DEFINE g == [j \in 0 .. k |-> IF j < k THEN f[j] ELSE Onward(link, f[k - 1])]
<1>5. /\ DOMAIN f = 0 .. k - 1 /\ f[0] = Empty
      /\ \A j \in 1 .. k - 1 : f[j] = Onward(link, f[j - 1])
  BY <1>3, <1>4 DEF Follows
<1>6. \A j \in 0 .. k : g[j] = IF j = 0 THEN Empty ELSE Onward(link, g[j - 1])
  <2> SUFFICES ASSUME NEW j \in 0 .. k
               PROVE  g[j] = IF j = 0 THEN Empty ELSE Onward(link, g[j - 1])
    OBVIOUS
  <2>1. CASE j = 0
    BY <1>2, <1>5, <2>1
  <2>2. CASE j \in 1 .. k - 1
    BY <1>5, <2>2
  <2>3. CASE j = k
    BY <1>2, <1>3, <2>3
  <2> QED
    BY <1>3, <2>1, <2>2, <2>3
<1>7. Follows(link, g, k)
  BY <1>6 DEF Follows
<1> QED
  BY <1>1, <1>7

\* So Chain follows the links as often as there are handlers.
LEMMA ChainFollows ==
    ASSUME NEW link
    PROVE  \E f : Follows(link, f, Cardinality(Cells)) /\ Chain(link) = f[Cardinality(Cells)]
<1> DEFINE from == CHOOSE f : Follows(link, f, Cardinality(Cells))
<1>1. Follows(link, from, Cardinality(Cells))
  BY FollowingExists, CellsCounted
<1>2. Chain(link) = from[Cardinality(Cells)]
  BY DEF Chain, Follows, Empty
<1> QED
  BY <1>1, <1>2

\* A sequence without repetition is no longer than there are handlers.
LEMMA ShortEnough ==
    ASSUME NEW s \in Seq(Cells), \A i, j \in DOMAIN s : s[i] = s[j] => i = j
    PROVE  Len(s) <= Cardinality(Cells)
<1>1. s \in Injection(1 .. Len(s), Cells)
  BY DEF Injection, IsInjective
<1>2. Cardinality(1 .. Len(s)) <= Cardinality(Cells)
  BY <1>1, NamesAssumption, FS_Injection
<1>3. Cardinality(1 .. Len(s)) = Len(s)
  <2>1. \A n \in Nat : Cardinality(1 .. n) = n
    <3> TAKE n \in Nat
    <3>1. 1 \in Int /\ n \in Int
      OBVIOUS
    <3>2. Cardinality(1 .. n) = IF 1 > n THEN 0 ELSE n - 1 + 1
      BY <3>1, FS_Interval, ZenonT(30)
    <3> QED
      BY <3>2
  <2>2. Len(s) \in Nat
    OBVIOUS
  <2> QED
    BY <2>1, <2>2
<1> QED
  BY <1>2, <1>3

\* One link.
LEMMA OnwardAt ==
    ASSUME NEW link, NEW rest
    PROVE  /\ Onward(link, rest)[None] = <<>>
           /\ \A c \in Cells : Onward(link, rest)[c] = <<c>> \o rest[link[c]]
BY NamesAssumption DEF Onward

\* What Chain finds from h on is the sequence that is linked there.
LEMMA ChainIs ==
    ASSUME NEW link, NEW s, NEW h, Linked(link, s, h)
    PROVE  Chain(link)[h] = s
<1> DEFINE m == Cardinality(Cells)
           n == Len(s)
<1>1. PICK f : Follows(link, f, m) /\ Chain(link) = f[m]
  BY ChainFollows
<1>2. m \in Nat /\ n \in Nat /\ n <= m /\ s \in Seq(Cells) /\ DOMAIN s = 1 .. n
  BY CellsCounted, ShortEnough DEF Linked
<1>3. /\ f[0] = Empty
      /\ \A k \in 1 .. m : f[k] = Onward(link, f[k - 1])
  BY <1>1, <1>2 DEF Follows
<1> HIDE DEF m, n
\* the part that is left after i, and how often the links are followed there
<1> DEFINE Rest(i) == SubSeq(s, i + 1, n)
           T == {k \in 0 .. n : f[m - n + k][Entry(s, n - k + 1)] # Rest(n - k)}
<1>4. T = {}
  <2> SUFFICES ASSUME T # {} PROVE FALSE
    OBVIOUS
  <2>1. PICK k \in T : \A j \in T : k <= j
    <3>1. T \in SUBSET Nat
      BY <1>2
    <3> HIDE DEF T
    <3> QED
      BY <3>1, LeastExists
  <2>2. k \in 0 .. n /\ m - n + k \in 0 .. m
    BY <1>2
  <2>3. CASE k = 0
    <3>1. Entry(s, n - k + 1) = None /\ Rest(n - k) = <<>>
      BY <1>2, <2>3 DEF Entry
    <3>2. f[m - n + k][None] = <<>>
      <4>1. CASE m - n + k = 0
        BY <1>3, <4>1 DEF Empty
      <4>2. CASE m - n + k # 0
        <5>1. f[m - n + k] = Onward(link, f[m - n + k - 1])
          BY <1>2, <1>3, <2>2, <4>2
        <5> QED
          BY <5>1, OnwardAt
      <4> QED
        BY <4>1, <4>2
    <3> QED
      BY <3>1, <3>2
  <2>4. CASE k # 0
    <3> DEFINE i == n - k + 1
    <3>1. i \in 1 .. n /\ k - 1 \in 0 .. n /\ m - n + k \in 1 .. m
          /\ n - (k - 1) + 1 = i + 1 /\ n - (k - 1) = i
      BY <1>2, <2>2, <2>4
    <3>2. f[m - n + (k - 1)][Entry(s, i + 1)] = Rest(i)
      <4>1. k - 1 \notin T
        BY <2>1, <2>2, <2>4
      <4> QED
        BY <3>1, <4>1
    <3>3. Entry(s, i) = s[i] /\ s[i] \in Cells /\ link[s[i]] = Entry(s, i + 1)
      <4>1. i \in DOMAIN s /\ i \in 1 .. Len(s)
        BY <1>2, <3>1 DEF n
      <4> HIDE DEF i
      <4>2. s[i] \in Cells
        BY <1>2, <4>1
      <4> QED
        BY <4>1, <4>2 DEF Entry, Linked
    <3>4. f[m - n + k] = Onward(link, f[m - n + (k - 1)])
      BY <1>2, <1>3, <2>2, <3>1
    <3>5. f[m - n + k][s[i]] = <<s[i]>> \o Rest(i)
      <4> DEFINE g == f[m - n + (k - 1)]
      <4>1. Onward(link, g)[s[i]] = <<s[i]>> \o g[link[s[i]]]
        BY <3>3, OnwardAt
      <4>2. g[link[s[i]]] = Rest(i)
        BY <3>2, <3>3
      <4> HIDE DEF Rest, i
      <4> QED
        BY <3>4, <4>1, <4>2
    <3>6. <<s[i]>> \o Rest(i) = Rest(i - 1)
      <4>1. s \in Seq(Cells) /\ n = Len(s) /\ i \in 1 .. n
        BY <1>2, <3>1 DEF n
      <4> HIDE DEF i
      <4>2. (i - 1) + 1 = i /\ s[i] \in Cells
        BY <4>1
      <4>3. <<s[i]>> \o SubSeq(s, i + 1, n) = SubSeq(s, i, n)
        BY <4>1, <4>2, SMTT(30)
      <4> QED
        BY <4>2, <4>3
    <3>7. f[m - n + k][Entry(s, i)] = Rest(n - k)
      <4>1. n - k = i - 1
        BY <1>2, <2>2
      <4> HIDE DEF i
      <4> QED
        BY <3>3, <3>5, <3>6, <4>1
    <3> QED
      BY <3>7
  <2> QED
    BY <2>3, <2>4
<1>5. f[m][Entry(s, 1)] = Rest(0)
  <2>1. n \in 0 .. n /\ m - n + n = m /\ n - n = 0 /\ n - n + 1 = 1
    BY <1>2
  <2>2. f[m - n + n][Entry(s, n - n + 1)] = Rest(n - n)
    <3>1. n \notin T
      BY <1>4
    <3> HIDE DEF Rest
    <3> QED
      BY <2>1, <3>1
  <2> HIDE DEF Rest
  <2> QED
    BY <2>1, <2>2
<1>6. Rest(0) = s
  BY <1>2
<1> QED
  BY <1>1, <1>5, <1>6 DEF Linked

-----------------------------------------------------------------------------
(***************************************************************************)
(* References and objects.                                                 *)
(***************************************************************************)
People == {None} \cup Threads \cup Works

\* Who can refer to an object are finitely many.
LEMMA PeopleFinite == \A S \in SUBSET People : IsFiniteSet(S) /\ Cardinality(S) \in Nat
<1>1. IsFiniteSet(People)
  BY NamesAssumption, FS_Union, FS_Singleton DEF People
<1> QED
  BY <1>1, FS_Subset, FS_CardinalityType

\* Referrers are such.
LEMMA ReferrersAre == \A d : Referrers(d) \subseteq People
BY DEF Referrers, People

\* An object somebody refers to is there.
LEMMA ReferredAlive ==
    ASSUME IInv, NEW d \in Devices, Referrers(d) # {}
    PROVE  refs[d] > 0
<1>1. IsFiniteSet(Referrers(d)) /\ Cardinality(Referrers(d)) \in Nat
  BY ReferrersAre, PeopleFinite
<1>2. Cardinality(Referrers(d)) # 0
  BY <1>1, FS_EmptySet
<1> QED
  BY <1>1, <1>2 DEF IInv, Referred, Typed, TypeOK

\* What a step may do to the references to a device: leave them alone, take
\* one while there is another, or drop one.
RefKept(d) == Referrers(d)' \subseteq Referrers(d) /\ refs'[d] = refs[d]
RefTaken(d, x) ==
    Referrers(d)' \subseteq Referrers(d) \cup {x} /\ Referrers(d) # {} /\ refs'[d] = refs[d] + 1
RefDropped(d, x) ==
    /\ x \in Referrers(d) /\ Referrers(d)' \subseteq Referrers(d) \ {x}
    /\ refs'[d] = refs[d] - 1
RefsStep ==
    \A d \in Devices : RefKept(d) \/ \E x : RefTaken(d, x) \/ RefDropped(d, x)

\* Such a step keeps the count of the references, and revives no object.
LEMMA RefsKeep ==
    ASSUME IInv, RefsStep, DOMAIN refs' = Devices, refs' = [d \in DOMAIN refs' |-> refs'[d]]
    PROVE  /\ Referred' /\ refs' \in [Devices -> Nat]
           /\ \A o \in Objects : Alive(o)' => Alive(o)
<1>1. ASSUME NEW d \in Devices
      PROVE  /\ Cardinality(Referrers(d)') <= refs'[d] /\ refs'[d] \in Nat
             /\ refs'[d] > 0 => refs[d] > 0
  <2> DEFINE R == Referrers(d)
             S == Referrers(d)'
  <2>1. /\ IsFiniteSet(R) /\ Cardinality(R) \in Nat /\ Cardinality(R) <= refs[d]
        /\ refs[d] \in Nat
    BY ReferrersAre, PeopleFinite DEF IInv, Referred, Typed, TypeOK
  <2> HIDE DEF R, S
  <2>2. CASE S \subseteq R /\ refs'[d] = refs[d]
    <3>1. Cardinality(S) <= Cardinality(R) /\ IsFiniteSet(S)
      BY <2>1, <2>2, FS_Subset
    <3>2. Cardinality(S) \in Nat
      BY <3>1, FS_CardinalityType
    <3> QED
      BY <2>1, <2>2, <3>1, <3>2 DEF S
  <2>3. ASSUME NEW x, S \subseteq R \cup {x}, R # {}, refs'[d] = refs[d] + 1
        PROVE  /\ Cardinality(S) <= refs'[d] /\ refs'[d] \in Nat /\ refs[d] > 0
    <3>0. /\ IsFiniteSet(R \cup {x})
          /\ Cardinality(R \cup {x}) = IF x \in R THEN Cardinality(R) ELSE Cardinality(R) + 1
      BY <2>1, FS_AddElement
    <3>1. IsFiniteSet(R \cup {x}) /\ Cardinality(R \cup {x}) <= Cardinality(R) + 1
      BY <2>1, <3>0
    <3>2. Cardinality(S) <= Cardinality(R \cup {x}) /\ IsFiniteSet(S)
      BY <2>3, <3>1, FS_Subset
    <3>3. Cardinality(S) \in Nat /\ Cardinality(R \cup {x}) \in Nat
      BY <3>1, <3>2, FS_CardinalityType
    <3>4. Cardinality(R) # 0
      BY <2>1, <2>3, FS_EmptySet
    <3> QED
      BY <2>1, <2>3, <3>1, <3>2, <3>3, <3>4
  <2>4. ASSUME NEW x \in R, S \subseteq R \ {x}, refs'[d] = refs[d] - 1
        PROVE  /\ Cardinality(S) <= refs'[d] /\ refs'[d] \in Nat
    <3>1. IsFiniteSet(R \ {x}) /\ Cardinality(R \ {x}) = Cardinality(R) - 1
      BY <2>1, FS_RemoveElement
    <3>2. Cardinality(S) <= Cardinality(R \ {x}) /\ IsFiniteSet(S)
      BY <2>4, <3>1, FS_Subset
    <3>3. Cardinality(S) \in Nat /\ Cardinality(R \ {x}) \in Nat
      BY <3>1, <3>2, FS_CardinalityType
    <3> QED
      BY <2>1, <2>4, <3>1, <3>2, <3>3
  <2>5. \/ S \subseteq R /\ refs'[d] = refs[d]
        \/ \E x : S \subseteq R \cup {x} /\ R # {} /\ refs'[d] = refs[d] + 1
        \/ \E x \in R : S \subseteq R \ {x} /\ refs'[d] = refs[d] - 1
    BY DEF RefsStep, RefKept, RefTaken, RefDropped, R, S
  <2>6. Cardinality(S) <= refs'[d] /\ refs'[d] \in Nat /\ (refs'[d] > 0 => refs[d] > 0)
    <3>1. CASE S \subseteq R /\ refs'[d] = refs[d]
      BY <2>1, <2>2, <3>1 DEF S
    <3>2. CASE \E x : S \subseteq R \cup {x} /\ R # {} /\ refs'[d] = refs[d] + 1
      BY <2>3, <3>2
    <3>3. CASE \E x \in R : S \subseteq R \ {x} /\ refs'[d] = refs[d] - 1
      <4>1. Cardinality(S) <= refs'[d] /\ refs'[d] \in Nat
        BY <2>4, <3>3
      <4> QED
        BY <2>1, <3>3, <4>1
    <3> QED
      BY <2>5, <3>1, <3>2, <3>3
  <2> QED
    BY <2>6 DEF S
<1> QED
  BY <1>1 DEF Referred, Alive, Objects

-----------------------------------------------------------------------------
(***************************************************************************)
(* Steps that change no list.                                              *)
(***************************************************************************)
SameLists == head' = head /\ next' = next /\ callback' = callback

\* They leave the handlers of every object.
LEMMA HandlersSame ==
    ASSUME SameLists, NEW o
    PROVE  /\ Handlers(o)' = Handlers(o) /\ CallbacksOf(o)' = CallbacksOf(o)
           /\ \A c : InList(o, c)' <=> InList(o, c)
<1>1. Handlers(o)' = Handlers(o)
  BY DEF SameLists, Handlers
<1> QED
  BY <1>1 DEF SameLists, CallbacksOf, InList

\* A work that does not move is where it was.
LEMMA ProgressSame ==
    ASSUME SameLists, NEW w, work'[w] = work[w], Progress(w)
    PROVE  Progress(w)'
<1>1. /\ Handlers(work[w].obj)' = Handlers(work[w].obj)
      /\ CallbacksOf(work[w].obj)' = CallbacksOf(work[w].obj)
      /\ Handlers(Root)' = Handlers(Root) /\ CallbacksOf(Root)' = CallbacksOf(Root)
  BY HandlersSame
<1> QED
  BY <1>1 DEF Progress

\* The handlers' records stay as they are.
CellsStay ==
    /\ SameLists /\ allocated' = allocated
    /\ \A t \in Threads : at'[t].cell = at[t].cell
    /\ \A o \in Objects : Alive(o)' <=> Alive(o)

ListsInv == ListsFit /\ ListsApart /\ RemovedAllocated /\ NoneLost

\* Then so do the lists.
LEMMA CellsStayKeeps ==
    ASSUME ListsInv, CellsStay
    PROVE  ListsInv'
<1> USE DEF CellsStay, ListsInv
<1>0. \A o : /\ Handlers(o)' = Handlers(o)
             /\ \A c : InList(o, c)' <=> InList(o, c)
  BY HandlersSame
<1>1. ListsFit'
  BY <1>0 DEF ListsFit, SameLists
<1>2. ListsApart'
  BY <1>0 DEF ListsApart
<1>3. RemovedAllocated' /\ NoneLost'
  BY <1>0 DEF RemovedAllocated, NoneLost
<1> QED
  BY <1>1, <1>2, <1>3

\* Dropping a reference to an object, and freeing handlers that are in no list.
Freeing(o, dying) ==
    /\ SameLists /\ Unref(o, dying)
    /\ \A c \in dying \ {None} : \E t \in Threads : at[t].cell = c
    /\ \A t \in Threads :
          \/ at'[t].cell = at[t].cell /\ (at[t].cell # None => at[t].cell \notin dying)
          \/ at'[t].cell = None /\ (at[t].cell # None => at[t].cell \in dying)

\* The lists of the others stay whole, and nothing is lost with the object.
LEMMA FreeingKeeps ==
    ASSUME ListsInv, NEW o \in Objects, NEW dying, Freeing(o, dying), Alive(o),
           DOMAIN refs = Devices, o # Root => refs[o] \in Nat, allocated \subseteq Cells
    PROVE  ListsInv' /\ allocated' \subseteq allocated
<1> DEFINE dead == IF o # Root /\ refs[o] = 1 THEN {c \in Cells : InList(o, c)} ELSE {}
<1>0. \A p : /\ Handlers(p)' = Handlers(p)
             /\ \A c : InList(p, c)' <=> InList(p, c)
  BY HandlersSame DEF Freeing
<1>1. allocated' = allocated \ (dying \cup dead)
  BY DEF Freeing, Unref
<1>2. \A p \in Objects : Alive(p)' => Alive(p) /\ (p = o => dead = {})
  BY DEF Freeing, Unref, Alive, Objects
<1>3. \A p \in Objects : Alive(p) => Alive(p)' \/ (p = o /\ dead = {c \in Cells : InList(o, c)})
  BY DEF Freeing, Unref, Alive, Objects
<1>4. \A c \in dead : InList(o, c)
  OBVIOUS
<1> HIDE DEF dead
<1>5. ASSUME NEW p \in Objects, Alive(p)', NEW i \in DOMAIN Handlers(p)
      PROVE  Handlers(p)[i] \in allocated'
  <2> DEFINE c == Handlers(p)[i]
  <2>1. c \in allocated /\ c # None
    BY <1>2, <1>5, NamesAssumption DEF ListsInv, ListsFit
  <2>2. c \notin dying
    BY <1>2, <1>5, <2>1 DEF ListsInv, ListsApart, Freeing
  <2>3. c \notin dead
    <3>1. CASE p = o
      BY <1>2, <1>5, <3>1
    <3>2. CASE p # o
      BY <1>2, <1>4, <1>5, <3>2 DEF ListsInv, ListsApart
    <3> QED
      BY <3>1, <3>2
  <2> QED
    BY <1>1, <2>1, <2>2, <2>3
<1>6. ListsFit'
  BY <1>0, <1>2, <1>5 DEF ListsInv, ListsFit, Freeing, SameLists
<1>7. \A t \in Threads : at'[t].cell # None =>
         at'[t].cell = at[t].cell /\ at[t].cell \notin dying
  BY DEF Freeing
<1>8. ListsApart'
  <2> SUFFICES ASSUME NEW p \in Objects, Alive(p)', NEW i \in DOMAIN Handlers(p)
               PROVE  /\ \A q \in Objects \ {p} : Alive(q)' => ~InList(q, Handlers(p)[i])
                      /\ \A t \in Threads : at'[t].cell # Handlers(p)[i]
    BY <1>0 DEF ListsApart
  <2>1. Handlers(p)[i] # None
    BY <1>2, NamesAssumption DEF ListsInv, ListsFit
  <2> QED
    BY <1>2, <1>7, <2>1 DEF ListsInv, ListsApart
<1>9. RemovedAllocated'
  <2> SUFFICES ASSUME NEW t \in Threads, at'[t].cell # None
               PROVE  at'[t].cell \in allocated'
    BY DEF RemovedAllocated
  <2>1. at'[t].cell = at[t].cell /\ at[t].cell \notin dying /\ at[t].cell \in allocated
    BY <1>7 DEF ListsInv, RemovedAllocated
  <2>2. at[t].cell \notin dead
    BY <1>4 DEF ListsInv, ListsApart, InList
  <2> QED
    BY <1>1, <2>1, <2>2
<1>10. NoneLost'
  <2> SUFFICES ASSUME NEW c \in allocated'
               PROVE  \/ \E p \in Objects : Alive(p)' /\ InList(p, c)
                      \/ \E t \in Threads : at'[t].cell = c
    BY <1>0 DEF NoneLost
  <2>1. c \in allocated /\ c \notin dying /\ c \notin dead /\ c # None
    BY <1>1, NamesAssumption
  <2>2. CASE \E p \in Objects : Alive(p) /\ InList(p, c)
    BY <1>3, <2>1, <2>2
  <2>3. CASE \E t \in Threads : at[t].cell = c
    BY <2>1, <2>3 DEF Freeing
  <2> QED
    BY <2>1, <2>2, <2>3 DEF ListsInv, NoneLost
<1> QED
  BY <1>1, <1>6, <1>8, <1>9, <1>10 DEF ListsInv

-----------------------------------------------------------------------------
(***************************************************************************)
(* Steps in which one thread moves.                                        *)
(***************************************************************************)
Inside == {"installing", "uninstalling", "notifying", "leave"}
Thread == [pc : Places, obj : Objects \cup {None},
           cb : Callbacks \cup {None}, cell : Cells \cup {None}]

\* Thread t moves to x.
Moves(t, x) ==
    /\ at' = [at EXCEPT ![t] = x]
    /\ x \in Thread
    /\ x.pc # "idle" => x.obj \in Objects
    /\ x.pc \in Installing => x.cb \in Callbacks
    /\ x.cell # None => x.pc = "leave"

\* Nobody else does.
LEMMA OnlyOneMoves ==
    ASSUME ThreadsTyped, NEW t \in Threads, NEW x, Moves(t, x)
    PROVE  /\ at'[t] = x /\ \A u \in Threads : u # t => at'[u] = at[u]
           /\ ThreadsTyped'
<1>1. at'[t] = x /\ \A u \in Threads : u # t => at'[u] = at[u]
  BY DEF ThreadsTyped, Moves
<1>2. at' \in [Threads -> Thread]
  BY DEF ThreadsTyped, Moves, Thread
<1>3. ASSUME NEW u \in Threads
      PROVE  /\ at'[u].pc # "idle" => at'[u].obj \in Objects
             /\ at'[u].pc \in Installing => at'[u].cb \in Callbacks
             /\ at'[u].cell # None => at'[u].pc = "leave"
  <2>1. CASE u = t
    BY <1>1, <2>1 DEF Moves
  <2>2. CASE u # t
    BY <1>1, <2>2 DEF ThreadsTyped, At
  <2> QED
    BY <2>1, <2>2
<1> QED
  BY <1>1, <1>2, <1>3 DEF ThreadsTyped, At, Thread

\* A thread takes the mutex and the namespace when they are free, and gives
\* back what it has.
LEMMA LocksKeep ==
    ASSUME ThreadsTyped, LocksFit, NEW t \in Threads, NEW x, Moves(t, x),
           notify_mutex' = notify_mutex \/ notify_mutex \in {None, t},
           ns' = ns \/ ns \in {None, t}, attached' = attached,
           x.pc \in Inside => notify_mutex' = t,
           x.pc \in Notifying => ns' = t /\ x.obj \in attached
    PROVE  LocksFit'
<1> SUFFICES ASSUME NEW u \in Threads
             PROVE  /\ at'[u].pc \in Inside => notify_mutex' = u
                    /\ at'[u].pc \in Notifying => ns' = u /\ at'[u].obj \in attached'
  BY DEF LocksFit, Inside
<1>1. CASE u = t
  BY <1>1, OnlyOneMoves
<1>2. CASE u # t
  BY <1>2, OnlyOneMoves, NamesAssumption DEF LocksFit, Inside
<1> QED
  BY <1>1, <1>2

\* Who refers to a device.
LEMMA ReferrersAt ==
    ASSUME NEW d, NEW y
    PROVE  y \in Referrers(d) <=>
              \/ y = None /\ d \in attached
              \/ y \in Threads /\ at[y].obj = d /\ at[y].pc \notin Notifying
              \/ y \in Works /\ work[y].obj = d /\ work[y].state \in Running
BY DEF Referrers

\* When a thread moves, the references of the others stay.
LEMMA ReferrersMove ==
    ASSUME ThreadsTyped, NEW t \in Threads, NEW x, Moves(t, x),
           attached' = attached, work' = work, NEW d
    PROVE  /\ Referrers(d)' \ {t} = Referrers(d) \ {t}
           /\ t \in Referrers(d)' <=> x.obj = d /\ x.pc \notin Notifying
           /\ t \in Referrers(d) <=> at[t].obj = d /\ at[t].pc \notin Notifying
<1>1. t # None /\ t \notin Works
  BY NamesAssumption
<1>2. \A y : y \in Referrers(d)' <=>
                \/ y = None /\ d \in attached
                \/ y \in Threads /\ at'[y].obj = d /\ at'[y].pc \notin Notifying
                \/ y \in Works /\ work[y].obj = d /\ work[y].state \in Running
  BY DEF Referrers
<1> QED
  BY <1>1, <1>2, ReferrersAt, OnlyOneMoves

\* Claims that shrink leave the room there is.
LEMMA RoomKept ==
    ASSUME RoomLeft, Claims \subseteq Cells \cup Threads, Claims' \subseteq Claims
    PROVE  Cardinality(Claims') <= Cardinality(Cells)
<1>1. IsFiniteSet(Claims) /\ Cardinality(Claims) <= Cardinality(Cells)
  BY NamesAssumption, FS_Union, FS_Subset DEF RoomLeft
<1> HIDE DEF Claims
<1>2. Cardinality(Claims') <= Cardinality(Claims) /\ IsFiniteSet(Claims')
  BY <1>1, FS_Subset
<1>3. Cardinality(Claims) \in Nat /\ Cardinality(Claims') \in Nat
  BY <1>1, <1>2, FS_CardinalityType
<1> QED
  BY <1>1, <1>2, <1>3, CellsCounted

\* What each claim is.
LEMMA ClaimsAre ==
    ASSUME IInv
    PROVE  /\ Claims \subseteq Cells \cup Threads
           /\ IsFiniteSet(Claims) /\ Cardinality(Claims) \in Nat
<1>1. Claims \subseteq Cells \cup Threads
  BY DEF Claims, IInv, Typed, TypeOK
<1>2. IsFiniteSet(Cells \cup Threads)
  BY NamesAssumption, FS_Union
<1> QED
  BY <1>1, <1>2, FS_Subset, FS_CardinalityType

\* A thread that moves on, with no object, list or work involved.
Quiet(t, x) ==
    /\ Moves(t, x) /\ UNCHANGED <<lists, objects, work>>
    /\ x.cell = at[t].cell
    /\ x.obj \in Devices /\ x.pc \notin Notifying =>
          x.obj = at[t].obj /\ at[t].pc \notin Notifying
    /\ x.pc \in Installing => at[t].pc \in Installing
    /\ x.pc \in Notifying => UnusedWorks # {}

\* It leaves lists, references, room and works as they are.
LEMMA QuietKeeps ==
    ASSUME IInv, NEW t \in Threads, NEW x, Quiet(t, x)
    PROVE  ListsInv' /\ Referred' /\ RoomLeft' /\ WorksFit' /\ WorksTyped'
<1> USE DEF lists, objects
<1>0. /\ ThreadsTyped /\ Moves(t, x) /\ at'[t] = x
      /\ \A u \in Threads : u # t => at'[u] = at[u]
  BY OnlyOneMoves DEF Quiet, IInv, Typed
<1>1. ListsInv'
  <2>1. CellsStay
    BY <1>0 DEF Quiet, CellsStay, SameLists, Alive
  <2> QED
    BY <2>1, CellsStayKeeps DEF ListsInv, IInv
<1>2. Referred'
  <2>1. \A d \in Devices : RefKept(d)
    <3> SUFFICES ASSUME NEW d \in Devices PROVE RefKept(d)
      OBVIOUS
    <3>1. /\ Referrers(d)' \ {t} = Referrers(d) \ {t}
          /\ t \in Referrers(d)' <=> x.obj = d /\ x.pc \notin Notifying
          /\ t \in Referrers(d) <=> at[t].obj = d /\ at[t].pc \notin Notifying
      BY <1>0, ReferrersMove DEF Quiet
    <3>2. t \in Referrers(d)' => t \in Referrers(d)
      BY <3>1 DEF Quiet
    <3> QED
      BY <3>1, <3>2 DEF RefKept, Quiet
  <2>2. DOMAIN refs' = Devices /\ refs' = [d \in DOMAIN refs' |-> refs'[d]]
    BY DEF Quiet, IInv, Typed, TypeOK
  <2> QED
    BY <2>1, <2>2, RefsKeep DEF RefsStep
<1>3. RoomLeft'
  <2>1. Claims' \subseteq Claims
    BY <1>0 DEF Claims, Quiet
  <2>2. Cardinality(Claims') <= Cardinality(Cells)
    BY <2>1, RoomKept, ClaimsAre DEF IInv
  <2>3. UnusedWorks' = UnusedWorks
    BY DEF UnusedWorks, Quiet
  <2>4. ASSUME NEW u \in Threads, at'[u].pc \in Notifying PROVE UnusedWorks # {}
    BY <1>0, <2>4 DEF Quiet, IInv, RoomLeft
  <2> QED
    BY <2>2, <2>3, <2>4 DEF RoomLeft
<1>4. WorksFit'
  <2>1. SameLists
    BY DEF Quiet, SameLists
  <2> QED
    BY <2>1, ProgressSame DEF Quiet, WorksFit, IInv
<1>5. WorksTyped'
  BY DEF Quiet, WorksTyped, IInv, Typed
<1> QED
  BY <1>1, <1>2, <1>3, <1>4, <1>5

-----------------------------------------------------------------------------
(***************************************************************************)
(* The steps, one by one: the quiet ones first.                            *)
(***************************************************************************)
\* What a quiet step has to show for itself.
LEMMA QuietIInv ==
    ASSUME IInv, TypeOK', NEW t \in Threads, NEW x, Quiet(t, x),
           notify_mutex' = notify_mutex \/ notify_mutex \in {None, t},
           ns' = ns \/ ns \in {None, t},
           x.pc \in Inside => notify_mutex' = t,
           x.pc \in Notifying => ns' = t /\ x.obj \in attached
    PROVE  IInv'
<1>1. ListsInv' /\ Referred' /\ RoomLeft' /\ WorksFit' /\ WorksTyped'
  BY QuietKeeps
<1>2. ThreadsTyped /\ LocksFit /\ Moves(t, x) /\ attached' = attached
  BY DEF IInv, Typed, Quiet, objects
<1>3. ThreadsTyped' /\ LocksFit'
  BY <1>2, OnlyOneMoves, LocksKeep
<1> QED
  BY <1>1, <1>3 DEF IInv, Typed, ListsInv

\* Idle is a place for any thread.
LEMMA IdleIs == Idle \in Thread /\ Idle.obj = None /\ Idle.cell = None /\ Idle.pc = "idle"
BY DEF Idle, Thread, Places

\* LockMutex
LEMMA LockMutexKeeps ==
    ASSUME IInv, NEW t \in Threads, LockMutex(t)
    PROVE  IInv'
<1> DEFINE x == [at[t] EXCEPT !.pc = Entered[at[t].pc]]
<1>0. at[t] \in Thread /\ at[t].pc \in {"install", "uninstall", "notify"}
  BY DEF IInv, Typed, ThreadsTyped, LockMutex, Entered, Thread
<1>1. /\ x \in Thread /\ x.obj = at[t].obj /\ x.cb = at[t].cb /\ x.cell = at[t].cell
      /\ x.pc = Entered[at[t].pc]
      /\ Entered[at[t].pc] \in {"installing", "uninstalling", "notifying"}
      /\ x.pc \in Installing => at[t].pc \in Installing
      /\ x.pc \in Notifying <=> at[t].pc \in Notifying
  BY <1>0 DEF Thread, Places, Entered, Installing, Notifying
<1>2. at' = [at EXCEPT ![t] = x]
  BY DEF LockMutex, Goto
<1> HIDE DEF x
<1>3. Moves(t, x)
  <2>1. at[t].cell = None /\ at[t].pc # "idle"
    BY <1>0 DEF IInv, Typed, ThreadsTyped, At
  <2>2. at[t].obj \in Objects /\ (x.pc \in Installing => x.cb \in Callbacks)
    BY <1>1, <2>1 DEF IInv, Typed, ThreadsTyped, At
  <2> QED
    BY <1>1, <1>2, <2>1, <2>2 DEF Moves
<1>4. Quiet(t, x)
  <2>1. x.pc \in Notifying => UnusedWorks # {}
    BY <1>1 DEF IInv, RoomLeft
  <2> QED
    BY <1>1, <1>3, <2>1 DEF Quiet, LockMutex
<1>5. TypeOK'
  BY DEF IInv, Typed, TypeOK, LockMutex, lists, objects
<1>6. x.pc \in Notifying => ns' = t /\ x.obj \in attached
  BY <1>1 DEF IInv, LocksFit, LockMutex
<1>7. notify_mutex = None /\ notify_mutex' = t /\ ns' = ns
  BY DEF LockMutex
<1> QED
  BY <1>4, <1>5, <1>6, <1>7, QuietIInv

\* InstallExists, UninstallMissing
LEMMA MissingKeeps ==
    ASSUME IInv, NEW t \in Threads, InstallExists(t) \/ UninstallMissing(t)
    PROVE  IInv'
<1> DEFINE x == [at[t] EXCEPT !.pc = "leave"]
<1>0. /\ at[t] \in Thread /\ at[t].pc \in {"installing", "uninstalling"}
      /\ at' = [at EXCEPT ![t] = x]
      /\ UNCHANGED <<notify_mutex, ns, lists, objects, work, calls, faults>>
  BY DEF IInv, Typed, ThreadsTyped, InstallExists, UninstallMissing, Thread, At, Goto
<1>1. /\ x \in Thread /\ x.obj = at[t].obj /\ x.cell = at[t].cell /\ x.pc = "leave"
  BY <1>0 DEF Thread, Places
<1> HIDE DEF x
<1>2. at[t].obj \in Objects /\ at[t].pc \notin Notifying /\ notify_mutex = t
  BY <1>0 DEF IInv, Typed, ThreadsTyped, At, Notifying, LocksFit
<1>3. x.pc \notin Installing /\ x.pc \notin Notifying
  BY <1>1 DEF Installing, Notifying
<1>4. Quiet(t, x)
  BY <1>0, <1>1, <1>2, <1>3 DEF Quiet, Moves
<1>5. TypeOK'
  BY <1>0 DEF IInv, Typed, TypeOK, lists, objects
<1> QED
  BY <1>0, <1>2, <1>3, <1>4, <1>5, QuietIInv

\* InstallOutOfMemory, NotScheduled, and LockMutexFails in Notify
LEMMA ReturnKeeps ==
    ASSUME IInv, NEW t \in Threads, Return(t), At(t, "leave") => FALSE,
           UNCHANGED <<lists, objects, work, calls>>, faults' \in 0 .. MaxFaults,
           notify_mutex' = notify_mutex \/ (notify_mutex' = None /\ notify_mutex = t),
           ns' = ns \/ (ns' = None /\ ns = t)
    PROVE  IInv'
<1>1. Idle.pc \notin Installing /\ Idle.pc \notin Notifying /\ Idle.pc \notin Inside
  BY IdleIs DEF Installing, Notifying, Inside
<1>2. at[t].cell = None /\ Idle.obj \notin Devices
  BY IdleIs, NamesAssumption DEF IInv, Typed, ThreadsTyped, Objects
<1>3. Moves(t, Idle)
  BY <1>1, IdleIs DEF Moves, Return
<1>4. Quiet(t, Idle)
  BY <1>1, <1>2, <1>3, IdleIs DEF Quiet
<1>5. TypeOK'
  <2>1. notify_mutex' \in Threads \cup {None} /\ ns' \in Threads \cup {None}
    BY DEF IInv, Typed, TypeOK
  <2> QED
    BY <2>1 DEF IInv, Typed, TypeOK, lists, objects
<1> QED
  BY <1>1, <1>4, <1>5, QuietIInv

\* CallNotify
LEMMA CallNotifyKeeps ==
    ASSUME IInv, NEW t \in Threads, NEW d \in Devices, CallNotify(t, d)
    PROVE  IInv'
<1> DEFINE x == [pc |-> "notify", obj |-> d, cb |-> None, cell |-> None]
<1>1. /\ x \in Thread /\ x.obj = d /\ x.cell = None /\ x.pc = "notify"
      /\ x.pc \in Notifying /\ x.pc \notin Installing /\ x.pc \notin Inside
  BY DEF Thread, Places, Objects, Notifying, Installing, Inside
<1>2. at' = [at EXCEPT ![t] = x]
  BY DEF CallNotify
<1> HIDE DEF x
<1>3. at[t].cell = None
  BY DEF IInv, Typed, ThreadsTyped, CallNotify, At
<1>4. UnusedWorks # {}
  <2> DEFINE N == {u \in Threads : at[u].pc \in Notifying}
  <2>1. IsFiniteSet(N) /\ Cardinality(N) \in Nat
    BY NamesAssumption, FS_Subset, FS_CardinalityType
  <2>2. Cardinality(N) < Cardinality(UnusedWorks)
    BY DEF CallNotify
  <2>3. Cardinality({}) = 0
    BY FS_EmptySet
  <2> HIDE DEF N
  <2> QED
    BY <2>1, <2>2, <2>3
<1>5. Moves(t, x)
  BY <1>1, <1>2 DEF Moves, Objects
<1>6. Quiet(t, x)
  BY <1>1, <1>3, <1>4, <1>5 DEF Quiet, CallNotify
<1>7. TypeOK'
  <2>1. calls' \in 0 .. MaxCalls
    BY BoundsAssumption DEF IInv, Typed, TypeOK, CallNotify
  <2> QED
    BY <2>1 DEF IInv, Typed, TypeOK, CallNotify, lists, objects
<1>8. notify_mutex' = notify_mutex /\ ns = None /\ ns' = t /\ x.obj \in attached
  BY <1>1 DEF CallNotify
<1> QED
  BY <1>1, <1>6, <1>7, <1>8, QuietIInv

-----------------------------------------------------------------------------
(***************************************************************************)
(* Calls that take a reference.                                            *)
(***************************************************************************)
\* Taking one to an object that is there revives and buries none.
LEMMA RefAlive ==
    ASSUME IInv, NEW o \in Objects, Ref(o), Alive(o)
    PROVE  /\ refs' \in [Devices -> Nat]
           /\ \A p \in Objects : Alive(p)' <=> Alive(p)
<1>1. refs \in [Devices -> Nat] /\ Root \notin Devices
  BY NamesAssumption DEF IInv, Typed, TypeOK
<1>2. refs' \in [Devices -> Nat]
  BY <1>1 DEF Ref, Objects
<1>3. ASSUME NEW p \in Objects PROVE Alive(p)' <=> Alive(p)
  BY <1>1, <1>3 DEF Ref, Alive, Objects
<1> QED
  BY <1>2, <1>3

\* An attached device is referred to by the namespace, and there.
LEMMA AttachedAlive ==
    ASSUME IInv, NEW o \in Objects, o = Root \/ o \in attached
    PROVE  Alive(o) /\ (o # Root => Referrers(o) # {})
<1>1. CASE o = Root
  BY <1>1 DEF Alive
<1>2. CASE o # Root
  <2>1. o \in Devices /\ None \in Referrers(o)
    BY <1>2 DEF Objects, Referrers
  <2> QED
    BY <2>1, ReferredAlive DEF Alive
<1> QED
  BY <1>1, <1>2

\* CallInstall, CallUninstall
LEMMA CallKeeps ==
    ASSUME IInv, NEW t \in Threads, NEW o \in Objects, NEW cb \in Callbacks, NEW pc,
           pc = "install" \/ pc = "uninstall", Call(t, pc, o, cb),
           pc = "install" =>
              Cardinality(allocated) + Cardinality({u \in Threads : at[u].pc \in Installing})
                 < Cardinality(Cells)
    PROVE  IInv'
<1> DEFINE x == [pc |-> pc, obj |-> o, cb |-> cb, cell |-> None]
<1>1. /\ x \in Thread /\ x.obj = o /\ x.cb = cb /\ x.cell = None /\ x.pc = pc
      /\ pc \notin Notifying /\ pc \notin Inside /\ pc # "idle"
      /\ pc \in Installing <=> pc = "install"
  BY DEF Thread, Places, Notifying, Installing, Inside
<1>2. at' = [at EXCEPT ![t] = x] /\ at[t].pc = "idle"
  BY DEF Call, At
<1> HIDE DEF x
<1>3. Moves(t, x)
  BY <1>1, <1>2 DEF Moves
<1>4. /\ at'[t] = x /\ \A u \in Threads : u # t => at'[u] = at[u]
      /\ ThreadsTyped' /\ at[t].cell = None
  BY <1>2, <1>3, OnlyOneMoves DEF IInv, Typed, ThreadsTyped, At
<1>5. Alive(o) /\ (o # Root => Referrers(o) # {})
  BY AttachedAlive DEF Call
<1>6. refs' \in [Devices -> Nat] /\ \A p \in Objects : Alive(p)' <=> Alive(p)
  BY <1>5, RefAlive DEF Call
<1>7. ListsInv'
  <2>1. CellsStay
    BY <1>1, <1>4, <1>6 DEF CellsStay, SameLists, Call, lists
  <2> QED
    BY <2>1, CellsStayKeeps DEF ListsInv, IInv
<1>8. Referred'
  <2>1. ASSUME NEW d \in Devices PROVE RefKept(d) \/ RefTaken(d, t)
    <3>1. /\ Referrers(d)' \ {t} = Referrers(d) \ {t}
          /\ t \in Referrers(d)' <=> x.obj = d /\ x.pc \notin Notifying
      BY <1>3, ReferrersMove DEF Call, IInv, Typed
    <3>2. d # Root /\ DOMAIN refs = Devices
      BY NamesAssumption DEF IInv, Typed, TypeOK
    <3>3. CASE d = o
      <4>1. refs'[d] = refs[d] + 1
        BY <3>2, <3>3 DEF Call, Ref
      <4> QED
        BY <1>5, <3>1, <3>2, <3>3, <4>1 DEF RefTaken
    <3>4. CASE d # o
      <4>1. refs'[d] = refs[d]
        BY <3>2, <3>4 DEF Call, Ref
      <4> QED
        BY <1>1, <3>1, <3>4, <4>1 DEF RefKept
    <3> QED
      BY <3>3, <3>4
  <2>2. DOMAIN refs' = Devices /\ refs' = [d \in DOMAIN refs' |-> refs'[d]]
    BY <1>6
  <2> QED
    BY <2>1, <2>2, RefsKeep DEF RefsStep
<1>9. RoomLeft'
  <2>1. UnusedWorks' = UnusedWorks
    BY DEF UnusedWorks, Call
  <2>2. \A u \in Threads : at'[u].pc \in Notifying => at[u].pc \in Notifying
    BY <1>1, <1>4
  <2>3. Cardinality(Claims') <= Cardinality(Cells)
    <3>1. CASE pc = "install"
      <4> DEFINE N == {u \in Threads : at[u].pc \in Installing}
      <4>1. IsFiniteSet(N) /\ IsFiniteSet(allocated)
        BY NamesAssumption, FS_Subset DEF IInv, Typed, TypeOK
      <4>2. t \notin N
        BY <1>2 DEF Installing
      <4>3. Claims' \subseteq allocated \cup (N \cup {t})
        BY <1>4 DEF Claims, Call, lists
      <4>4. Cardinality(allocated) + Cardinality(N) < Cardinality(Cells)
        BY <3>1
      <4> HIDE DEF N
      <4>5. IsFiniteSet(N \cup {t}) /\ Cardinality(N \cup {t}) = Cardinality(N) + 1
        BY <4>1, <4>2, FS_AddElement
      <4>6. /\ IsFiniteSet(allocated \cup (N \cup {t}))
            /\ Cardinality(allocated \cup (N \cup {t})) =
                  Cardinality(allocated) + Cardinality(N \cup {t})
                     - Cardinality(allocated \cap (N \cup {t}))
        BY <4>1, <4>5, FS_Union
      <4>7. IsFiniteSet(allocated \cap (N \cup {t}))
        BY <4>1, FS_Subset
      <4>8. /\ Cardinality(allocated) \in Nat /\ Cardinality(N) \in Nat
            /\ Cardinality(allocated \cap (N \cup {t})) \in Nat
            /\ Cardinality(allocated \cup (N \cup {t})) \in Nat
        BY <4>1, <4>6, <4>7, FS_CardinalityType
      <4>9. IsFiniteSet(Claims')
            /\ Cardinality(Claims') <= Cardinality(allocated \cup (N \cup {t}))
        BY <4>3, <4>6, FS_Subset
      <4>10. Cardinality(Claims') \in Nat
        BY <4>9, FS_CardinalityType
      <4> QED
        BY <4>4, <4>5, <4>6, <4>8, <4>9, <4>10, CellsCounted
    <3>2. CASE pc = "uninstall"
      <4>1. Claims' \subseteq Claims
        BY <1>1, <1>4, <3>2 DEF Claims, Call, lists
      <4> QED
        BY <4>1, RoomKept, ClaimsAre DEF IInv
    <3> QED
      BY <3>1, <3>2
  <2> QED
    BY <2>1, <2>2, <2>3 DEF RoomLeft, IInv
<1>10. WorksFit' /\ WorksTyped'
  <2>1. SameLists
    BY DEF Call, SameLists, lists
  <2>2. \A w \in Works : work'[w] = work[w]
    BY DEF Call
  <2>3. WorksFit'
    BY <2>1, <2>2, ProgressSame DEF WorksFit, IInv
  <2> QED
    BY <2>3 DEF WorksTyped, IInv, Typed, Call
<1>11. LocksFit'
  BY <1>1, <1>3, LocksKeep DEF Call, IInv, Typed
<1>12. TypeOK'
  <2>1. calls' \in 0 .. MaxCalls
    BY BoundsAssumption DEF IInv, Typed, TypeOK, Call
  <2> QED
    BY <1>6, <2>1 DEF IInv, Typed, TypeOK, Call, lists
<1> QED
  BY <1>4, <1>7, <1>8, <1>9, <1>10, <1>11, <1>12 DEF IInv, Typed, ListsInv

-----------------------------------------------------------------------------
(***************************************************************************)
(* Works.                                                                  *)
(***************************************************************************)
\* The handlers of a live object, and what their callbacks are.
LEMMA HandlersOf ==
    ASSUME ListsFit, NEW o \in Objects, Alive(o)
    PROVE  /\ Handlers(o) \in Seq(Cells) /\ CallbacksOf(o) \in Seq({callback[c] : c \in Cells})
           /\ Len(CallbacksOf(o)) = Len(Handlers(o)) /\ Len(Handlers(o)) \in Nat
           /\ DOMAIN Handlers(o) = 1 .. Len(Handlers(o))
           /\ head[o] = Entry(Handlers(o), 1)
           /\ \A i \in 1 .. Len(Handlers(o)) :
                 /\ Handlers(o)[i] \in Cells
                 /\ CallbacksOf(o)[i] = callback[Handlers(o)[i]]
                 /\ next[Handlers(o)[i]] = Entry(Handlers(o), i + 1)
<1>1. Linked(next, Handlers(o), head[o])
  BY DEF ListsFit
<1> DEFINE s == Handlers(o)
<1>2. /\ s \in Seq(Cells) /\ Len(s) \in Nat /\ DOMAIN s = 1 .. Len(s)
      /\ head[o] = Entry(s, 1) /\ \A i \in 1 .. Len(s) : next[s[i]] = Entry(s, i + 1)
  BY <1>1 DEF Linked
<1>3. CallbacksOf(o) = [i \in DOMAIN s |-> callback[s[i]]]
  BY DEF CallbacksOf
<1> HIDE DEF s
<1>4. \A i \in 1 .. Len(s) : s[i] \in Cells
  BY <1>2
<1>5. CallbacksOf(o) = [i \in 1 .. Len(s) |-> callback[s[i]]]
  BY <1>2, <1>3
<1>6. /\ CallbacksOf(o) \in Seq({callback[c] : c \in Cells}) /\ Len(CallbacksOf(o)) = Len(s)
      /\ \A i \in 1 .. Len(s) : CallbacksOf(o)[i] = callback[s[i]]
  BY <1>2, <1>4, <1>5
<1> QED
  BY <1>2, <1>4, <1>6 DEF s

\* The object of a work that runs is there.
LEMMA WorkAlive ==
    ASSUME IInv, NEW w \in Works, work[w].state \in Running
    PROVE  Alive(work[w].obj) /\ work[w].obj \in Devices /\ w \in Referrers(work[w].obj)
<1>1. work[w].obj \in Devices /\ w \in Referrers(work[w].obj)
  BY DEF IInv, Typed, WorksTyped, Referrers
<1> QED
  BY <1>1, ReferredAlive DEF Alive

\* A work moves on, with no object or list involved.
WorkMoves(w, y) ==
    /\ work' = [work EXCEPT ![w] = y]
    /\ DOMAIN y = {"state", "obj", "ptr", "called", "due"}
    /\ work[w].state \in Running /\ y.state \in Running /\ y.obj = work[w].obj
    /\ UNCHANGED <<notify_mutex, ns, lists, objects, at, calls, faults>>

\* It leaves everything else as it is.
LEMMA WorkKeeps ==
    ASSUME IInv, NEW w \in Works, NEW y, WorkMoves(w, y), Progress(w)'
    PROVE  IInv'
<1> USE DEF lists, objects
<1>0. /\ DOMAIN work = Works /\ DOMAIN work' = Works /\ work'[w] = y
      /\ \A v \in Works : v # w => work'[v] = work[v]
  BY DEF IInv, Typed, WorksTyped, WorkMoves
<1>1. ListsInv'
  <2>1. CellsStay
    BY DEF WorkMoves, CellsStay, SameLists, Alive
  <2> QED
    BY <2>1, CellsStayKeeps DEF ListsInv, IInv
<1>2. Referred'
  <2>1. ASSUME NEW d \in Devices PROVE RefKept(d)
    <3>1. \A z : z \in Referrers(d)' =>
                    \/ z = None /\ d \in attached
                    \/ z \in Threads /\ at[z].obj = d /\ at[z].pc \notin Notifying
                    \/ z \in Works /\ work[z].obj = d /\ work[z].state \in Running
      BY <1>0 DEF Referrers, WorkMoves
    <3> QED
      BY <3>1, ReferrersAt DEF RefKept, WorkMoves
  <2>2. DOMAIN refs' = Devices /\ refs' = [d \in DOMAIN refs' |-> refs'[d]]
    BY DEF WorkMoves, IInv, Typed, TypeOK
  <2> QED
    BY <2>1, <2>2, RefsKeep DEF RefsStep
<1>3. RoomLeft'
  <2>1. Claims' = Claims
    BY DEF Claims, WorkMoves
  <2>2. UnusedWorks' = UnusedWorks
    BY <1>0 DEF UnusedWorks, WorkMoves, Running
  <2> QED
    BY <2>1, <2>2 DEF RoomLeft, WorkMoves, IInv
<1>4. WorksFit'
  <2> SUFFICES ASSUME NEW v \in Works PROVE Progress(v)'
    BY DEF WorksFit
  <2>1. SameLists
    BY DEF WorkMoves, SameLists
  <2> QED
    BY <1>0, <2>1, ProgressSame DEF WorksFit, IInv
<1>5. WorksTyped'
  BY <1>0 DEF WorksTyped, IInv, Typed, WorkMoves
<1>6. TypeOK'
  BY <1>0 DEF IInv, Typed, TypeOK, WorkMoves, Running
<1>7. ThreadsTyped' /\ LocksFit'
  BY DEF IInv, Typed, ThreadsTyped, LocksFit, At, WorkMoves
<1> QED
  BY <1>1, <1>2, <1>3, <1>4, <1>5, <1>6, <1>7 DEF IInv, Typed, ListsInv

\* The clauses of Progress.
LEMMA ProgressIs ==
    ASSUME NEW w
    PROVE  LET mine == CallbacksOf(work[w].obj)
               roots == CallbacksOf(Root)
           IN /\ work[w].state = "none" => Progress(w)
              /\ work[w].state = "done" => (Progress(w) <=> work[w].called = work[w].due)
              /\ work[w].state = "queued" => (Progress(w) <=>
                    /\ work[w].ptr = None /\ work[w].called = <<>>
                    /\ work[w].due = mine \o roots)
              /\ work[w].state = "device" => (Progress(w) <=>
                    /\ work[w].due = mine \o roots
                    /\ \E i \in 1 .. Len(mine) + 1 :
                          /\ work[w].ptr = Entry(Handlers(work[w].obj), i)
                          /\ work[w].called = SubSeq(mine, 1, i - 1))
              /\ work[w].state = "root" => (Progress(w) <=>
                    /\ work[w].due = mine \o roots
                    /\ \E i \in 1 .. Len(roots) + 1 :
                          /\ work[w].ptr = Entry(Handlers(Root), i)
                          /\ work[w].called = mine \o SubSeq(roots, 1, i - 1))
BY DEF Progress

\* Going from one handler to the next.
LEMMA NextHandler ==
    ASSUME ListsFit, NEW o \in Objects, Alive(o), NEW i \in 1 .. Len(CallbacksOf(o)) + 1,
           NEW c \in Cells, c = Entry(Handlers(o), i)
    PROVE  /\ i \in 1 .. Len(CallbacksOf(o)) /\ i + 1 \in 1 .. Len(CallbacksOf(o)) + 1
           /\ next[c] = Entry(Handlers(o), i + 1) /\ CallbacksOf(o)[i] = callback[c]
           /\ SubSeq(CallbacksOf(o), 1, (i + 1) - 1) =
                 Append(SubSeq(CallbacksOf(o), 1, i - 1), callback[c])
<1>1. /\ CallbacksOf(o) \in Seq({callback[b] : b \in Cells})
      /\ Len(CallbacksOf(o)) = Len(Handlers(o)) /\ Len(Handlers(o)) \in Nat
      /\ DOMAIN Handlers(o) = 1 .. Len(Handlers(o))
      /\ \A j \in 1 .. Len(Handlers(o)) :
            /\ CallbacksOf(o)[j] = callback[Handlers(o)[j]]
            /\ next[Handlers(o)[j]] = Entry(Handlers(o), j + 1)
  BY HandlersOf
<1>2. c # None
  BY NamesAssumption
<1>3. i \in 1 .. Len(Handlers(o)) /\ c = Handlers(o)[i]
  BY <1>1, <1>2 DEF Entry
<1>4. /\ next[c] = Entry(Handlers(o), i + 1) /\ CallbacksOf(o)[i] = callback[c]
      /\ i \in 1 .. Len(CallbacksOf(o)) /\ i + 1 \in 1 .. Len(CallbacksOf(o)) + 1
  BY <1>1, <1>3
<1> DEFINE m == CallbacksOf(o)
           D == {callback[b] : b \in Cells}
<1>5. m \in Seq(D) /\ i \in 1 .. Len(m) /\ m[i] = callback[c]
  BY <1>1, <1>4
<1> HIDE DEF m, D
<1>6. SubSeq(m, 1, (i + 1) - 1) = Append(SubSeq(m, 1, i - 1), m[i])
  BY <1>5
<1> QED
  BY <1>4, <1>5, <1>6 DEF m

\* The same after a step that leaves the lists.
LEMMA ProgressThen ==
    ASSUME SameLists, NEW w
    PROVE  LET mine == CallbacksOf(work'[w].obj)
               roots == CallbacksOf(Root)
           IN /\ work'[w].state = "done" => (Progress(w)' <=> work'[w].called = work'[w].due)
              /\ work'[w].state = "queued" => (Progress(w)' <=>
                    /\ work'[w].ptr = None /\ work'[w].called = <<>>
                    /\ work'[w].due = mine \o roots)
              /\ work'[w].state = "device" => (Progress(w)' <=>
                    /\ work'[w].due = mine \o roots
                    /\ \E i \in 1 .. Len(mine) + 1 :
                          /\ work'[w].ptr = Entry(Handlers(work'[w].obj), i)
                          /\ work'[w].called = SubSeq(mine, 1, i - 1))
              /\ work'[w].state = "root" => (Progress(w)' <=>
                    /\ work'[w].due = mine \o roots
                    /\ \E i \in 1 .. Len(roots) + 1 :
                          /\ work'[w].ptr = Entry(Handlers(Root), i)
                          /\ work'[w].called = mine \o SubSeq(roots, 1, i - 1))
<1>1. \A o : CallbacksOf(o)' = CallbacksOf(o) /\ Handlers(o)' = Handlers(o)
  BY HandlersSame
<1>2. /\ CallbacksOf(work[w].obj)' = CallbacksOf(work'[w].obj)
      /\ Handlers(work[w].obj)' = Handlers(work'[w].obj)
      /\ CallbacksOf(Root)' = CallbacksOf(Root) /\ Handlers(Root)' = Handlers(Root)
  BY <1>1 DEF CallbacksOf, Handlers, SameLists
<1> QED
  BY <1>2 DEF Progress

\* BeginWork
LEMMA BeginWorkKeeps ==
    ASSUME IInv, NEW w \in Works, BeginWork(w)
    PROVE  IInv'
<1> DEFINE o == work[w].obj
           y == [work[w] EXCEPT !.state = "device", !.ptr = head[o]]
           mine == CallbacksOf(o)
<1>1. /\ DOMAIN work = Works /\ DOMAIN work[w] = {"state", "obj", "ptr", "called", "due"}
      /\ work[w].state = "queued" /\ work[w].state \in Running
  BY DEF IInv, Typed, WorksTyped, BeginWork, Running
<1>2. /\ y.state = "device" /\ y.ptr = head[o] /\ y.obj = o /\ y.called = work[w].called
      /\ y.due = work[w].due /\ y.state \in Running
      /\ DOMAIN y = {"state", "obj", "ptr", "called", "due"}
  BY <1>1 DEF Running
<1>3. work' = [work EXCEPT ![w] = y]
  BY DEF BeginWork
<1> HIDE DEF y
<1>4. work'[w] = y
  BY <1>1, <1>3
<1>5. WorkMoves(w, y)
  BY <1>1, <1>2, <1>3 DEF WorkMoves, BeginWork
<1>6. Progress(w)'
  <2>1. work[w].called = <<>> /\ work[w].due = mine \o CallbacksOf(Root)
    BY <1>1, ProgressIs DEF IInv, WorksFit
  <2>2. o \in Objects /\ Alive(o)
    BY <1>1, WorkAlive DEF Objects
  <2>3. /\ head[o] = Entry(Handlers(o), 1) /\ mine \in Seq({callback[c] : c \in Cells})
        /\ Len(mine) \in Nat
    BY <2>2, HandlersOf DEF IInv
  <2> HIDE DEF mine
  <2>4. 1 \in 1 .. Len(mine) + 1 /\ SubSeq(mine, 1, 1 - 1) = <<>>
    BY <2>3
  <2>5. SameLists
    BY DEF BeginWork, SameLists, lists
  <2>6. \E i \in 1 .. Len(mine) + 1 :
           y.ptr = Entry(Handlers(o), i) /\ y.called = SubSeq(mine, 1, i - 1)
    BY <1>2, <2>1, <2>3, <2>4
  <2> QED
    BY <1>2, <1>4, <2>1, <2>5, <2>6, ProgressThen DEF mine
<1> QED
  BY <1>5, <1>6, WorkKeeps

\* CallHandler
LEMMA CallHandlerKeeps ==
    ASSUME IInv, NEW w \in Works, CallHandler(w)
    PROVE  IInv'
<1> DEFINE o == work[w].obj
           c == work[w].ptr
           y == [work[w] EXCEPT !.called = Append(@, callback[c]), !.ptr = next[c]]
           mine == CallbacksOf(o)
           roots == CallbacksOf(Root)
<1>1. /\ DOMAIN work = Works /\ DOMAIN work[w] = {"state", "obj", "ptr", "called", "due"}
      /\ work[w].state \in {"device", "root"} /\ work[w].state \in Running /\ c # None
  BY DEF IInv, Typed, WorksTyped, CallHandler, Running
<1>2. /\ y.state = work[w].state /\ y.ptr = next[c] /\ y.obj = o
      /\ y.called = Append(work[w].called, callback[c])
      /\ y.due = work[w].due
      /\ DOMAIN y = {"state", "obj", "ptr", "called", "due"}
  BY <1>1
<1>3. work' = [work EXCEPT ![w] = y]
  BY DEF CallHandler
<1> HIDE DEF y
<1>4. work'[w] = y
  BY <1>1, <1>3
<1>5. WorkMoves(w, y)
  BY <1>1, <1>2, <1>3 DEF WorkMoves, CallHandler
<1>6. Progress(w)'
  <2>1. o \in Objects /\ Alive(o) /\ Root \in Objects /\ Alive(Root)
    BY <1>1, WorkAlive DEF Objects, Alive
  <2>2. SameLists
    BY DEF CallHandler, SameLists, lists
  <2>3. ListsFit
    BY DEF IInv
  <2>4. CASE work[w].state = "device"
    <3>1. work[w].due = mine \o roots
      BY <2>4, ProgressIs DEF IInv, WorksFit
    <3>2. PICK i \in 1 .. Len(mine) + 1 :
             c = Entry(Handlers(o), i) /\ work[w].called = SubSeq(mine, 1, i - 1)
      BY <2>4, ProgressIs DEF IInv, WorksFit
    <3>3. c \in Cells
      <4>1. \A j \in DOMAIN Handlers(o) : Handlers(o)[j] \in Cells
        BY <2>1, <2>3, HandlersOf
      <4> QED
        BY <1>1, <3>2, <4>1 DEF Entry
    <3> HIDE DEF c, o
    <3>4. /\ i + 1 \in 1 .. Len(mine) + 1 /\ next[c] = Entry(Handlers(o), i + 1)
          /\ SubSeq(mine, 1, (i + 1) - 1) = Append(SubSeq(mine, 1, i - 1), callback[c])
      BY <2>1, <2>3, <3>2, <3>3, NextHandler
    <3> HIDE DEF mine, roots
    <3>5. \E j \in 1 .. Len(mine) + 1 :
             y.ptr = Entry(Handlers(o), j) /\ y.called = SubSeq(mine, 1, j - 1)
      BY <1>2, <3>2, <3>4
    <3> QED
      BY <1>2, <1>4, <2>2, <2>4, <3>1, <3>5, ProgressThen DEF mine, roots, o
  <2>5. CASE work[w].state = "root"
    <3>1. work[w].due = mine \o roots
      BY <2>5, ProgressIs DEF IInv, WorksFit
    <3>2. PICK i \in 1 .. Len(roots) + 1 :
             c = Entry(Handlers(Root), i) /\ work[w].called = mine \o SubSeq(roots, 1, i - 1)
      BY <2>5, ProgressIs DEF IInv, WorksFit
    <3>3. c \in Cells
      <4>1. \A j \in DOMAIN Handlers(Root) : Handlers(Root)[j] \in Cells
        BY <2>1, <2>3, HandlersOf
      <4> QED
        BY <1>1, <3>2, <4>1 DEF Entry
    <3> HIDE DEF c
    <3>4. /\ i + 1 \in 1 .. Len(roots) + 1 /\ next[c] = Entry(Handlers(Root), i + 1)
          /\ SubSeq(roots, 1, (i + 1) - 1) = Append(SubSeq(roots, 1, i - 1), callback[c])
      BY <2>1, <2>3, <3>2, <3>3, NextHandler
    <3>5. mine \o Append(SubSeq(roots, 1, i - 1), callback[c])
             = Append(mine \o SubSeq(roots, 1, i - 1), callback[c])
      <4> DEFINE D == {callback[b] : b \in Cells}
      <4>1. mine \in Seq(D) /\ roots \in Seq(D) /\ callback[c] \in D
        BY <2>1, <2>3, <3>3, HandlersOf
      <4> HIDE DEF D, mine, roots
      <4>2. SubSeq(roots, 1, i - 1) \in Seq(D)
        BY <3>2, <4>1
      <4> QED
        BY <4>1, <4>2
    <3> HIDE DEF mine, roots
    <3>6. \E j \in 1 .. Len(roots) + 1 :
             y.ptr = Entry(Handlers(Root), j) /\ y.called = mine \o SubSeq(roots, 1, j - 1)
      BY <1>2, <3>2, <3>4, <3>5
    <3> QED
      BY <1>2, <1>4, <2>2, <2>5, <3>1, <3>6, ProgressThen DEF mine, roots
  <2> QED
    BY <1>1, <2>4, <2>5
<1> QED
  BY <1>5, <1>6, WorkKeeps

\* A work at the end of a list has called all of it.
LEMMA AtTheEnd ==
    ASSUME ListsFit, NEW o \in Objects, Alive(o), NEW i \in 1 .. Len(CallbacksOf(o)) + 1,
           Entry(Handlers(o), i) = None
    PROVE  SubSeq(CallbacksOf(o), 1, i - 1) = CallbacksOf(o)
<1>1. /\ CallbacksOf(o) \in Seq({callback[b] : b \in Cells})
      /\ Len(CallbacksOf(o)) = Len(Handlers(o)) /\ Len(Handlers(o)) \in Nat
      /\ DOMAIN Handlers(o) = 1 .. Len(Handlers(o))
      /\ \A j \in 1 .. Len(Handlers(o)) : Handlers(o)[j] \in Cells
  BY HandlersOf
<1>2. \A j \in 1 .. Len(Handlers(o)) : Handlers(o)[j] # None
  BY <1>1, NamesAssumption
<1>3. i - 1 = Len(CallbacksOf(o))
  BY <1>1, <1>2 DEF Entry
<1> DEFINE m == CallbacksOf(o)
           D == {callback[b] : b \in Cells}
<1>4. m \in Seq(D) /\ i - 1 = Len(m)
  BY <1>1, <1>3
<1> HIDE DEF m, D
<1>5. SubSeq(m, 1, i - 1) = m
  BY <1>4
<1> QED
  BY <1>5 DEF m

\* TurnToRoot
LEMMA TurnToRootKeeps ==
    ASSUME IInv, NEW w \in Works, TurnToRoot(w)
    PROVE  IInv'
<1> DEFINE o == work[w].obj
           y == [work[w] EXCEPT !.state = "root", !.ptr = head[Root]]
           mine == CallbacksOf(o)
           roots == CallbacksOf(Root)
<1>1. /\ DOMAIN work = Works /\ DOMAIN work[w] = {"state", "obj", "ptr", "called", "due"}
      /\ work[w].state = "device" /\ work[w].state \in Running /\ work[w].ptr = None
  BY DEF IInv, Typed, WorksTyped, TurnToRoot, Running
<1>2. /\ y.state = "root" /\ y.ptr = head[Root] /\ y.obj = o /\ y.called = work[w].called
      /\ y.due = work[w].due /\ y.state \in Running
      /\ DOMAIN y = {"state", "obj", "ptr", "called", "due"}
  BY <1>1 DEF Running
<1>3. work' = [work EXCEPT ![w] = y]
  BY DEF TurnToRoot
<1> HIDE DEF y
<1>4. work'[w] = y
  BY <1>1, <1>3
<1>5. WorkMoves(w, y)
  BY <1>1, <1>2, <1>3 DEF WorkMoves, TurnToRoot
<1>6. Progress(w)'
  <2>1. work[w].due = mine \o roots
    BY <1>1, ProgressIs DEF IInv, WorksFit
  <2>2. PICK i \in 1 .. Len(mine) + 1 :
           None = Entry(Handlers(o), i) /\ work[w].called = SubSeq(mine, 1, i - 1)
    BY <1>1, ProgressIs DEF IInv, WorksFit
  <2>3. o \in Objects /\ Alive(o) /\ Root \in Objects /\ Alive(Root) /\ ListsFit
    BY <1>1, WorkAlive DEF Objects, Alive, IInv
  <2>4. work[w].called = mine
    BY <2>2, <2>3, AtTheEnd
  <2> DEFINE D == {callback[b] : b \in Cells}
  <2>5. mine \in Seq(D) /\ roots \in Seq(D) /\ head[Root] = Entry(Handlers(Root), 1)
    BY <2>3, HandlersOf
  <2> HIDE DEF D, mine, roots
  <2>6. 1 \in 1 .. Len(roots) + 1 /\ mine \o SubSeq(roots, 1, 1 - 1) = mine
    BY <2>5
  <2>7. SameLists
    BY DEF TurnToRoot, SameLists, lists
  <2>8. \E j \in 1 .. Len(roots) + 1 :
           y.ptr = Entry(Handlers(Root), j) /\ y.called = mine \o SubSeq(roots, 1, j - 1)
    BY <1>2, <2>4, <2>5, <2>6
  <2> QED
    BY <1>2, <1>4, <2>1, <2>7, <2>8, ProgressThen DEF mine, roots
<1> QED
  BY <1>5, <1>6, WorkKeeps

\* Schedule
LEMMA ScheduleKeeps ==
    ASSUME IInv, NEW t \in Threads, Schedule(t)
    PROVE  IInv'
<1> DEFINE w == AnyFree(UnusedWorks)
           o == at[t].obj
           y == [state |-> "queued", obj |-> o, ptr |-> None, called |-> <<>>,
                 due |-> CallbacksOf(o) \o CallbacksOf(Root)]
<1>0. /\ IInv /\ at[t].pc = "notifying" /\ at[t].pc \in Notifying /\ at[t].pc \in Inside
      /\ Ref(o) /\ FinishNotify(t) /\ UNCHANGED <<lists, attached, calls, faults>>
  BY DEF Schedule, At, Notifying, Inside
<1>1. /\ ns = t /\ notify_mutex = t /\ o \in attached /\ o \in Devices /\ o \in Objects
      /\ o # Root /\ w \in UnusedWorks /\ w \in Works /\ work[w].state = "none"
  <2>1. ns = t /\ notify_mutex = t /\ o \in attached
    BY <1>0 DEF IInv, LocksFit, Inside
  <2>2. UnusedWorks # {}
    BY <1>0 DEF IInv, RoomLeft
  <2>3. w \in UnusedWorks
    BY <2>2 DEF AnyFree
  <2> HIDE DEF w
  <2> QED
    BY <2>1, <2>3, NamesAssumption DEF UnusedWorks, IInv, Typed, TypeOK, Objects
<1>2. work' = [work EXCEPT ![w] = y]
  BY DEF Schedule
<1> HIDE DEF w
<1>3. /\ y.state = "queued" /\ y.obj = o /\ y.ptr = None /\ y.called = <<>>
      /\ y.due = CallbacksOf(o) \o CallbacksOf(Root)
      /\ DOMAIN y = {"state", "obj", "ptr", "called", "due"}
  OBVIOUS
<1> HIDE DEF y
<1>4. /\ DOMAIN work = Works /\ DOMAIN work' = Works /\ work'[w] = y
      /\ \A v \in Works : v # w => work'[v] = work[v]
  BY <1>1, <1>2 DEF IInv, Typed, WorksTyped
<1>5. /\ Moves(t, Idle) /\ at'[t] = Idle /\ ThreadsTyped'
      /\ \A u \in Threads : u # t => at'[u] = at[u]
      /\ Idle.pc \notin Installing /\ Idle.pc \notin Notifying /\ Idle.pc \notin Inside
  <2>1. Idle.pc \notin Installing /\ Idle.pc \notin Notifying /\ Idle.pc \notin Inside
    BY IdleIs DEF Installing, Notifying, Inside
  <2>2. Moves(t, Idle)
    BY <1>0, <2>1, IdleIs DEF Moves, FinishNotify, Return
  <2> QED
    BY <2>1, <2>2, OnlyOneMoves DEF IInv, Typed
<1>6. refs' \in [Devices -> Nat] /\ \A p \in Objects : Alive(p)' <=> Alive(p)
  <2>1. Alive(o)
    BY <1>1, AttachedAlive
  <2> QED
    BY <1>0, <1>1, <2>1, RefAlive
<1>7. SameLists /\ allocated' = allocated
  BY <1>0 DEF SameLists, lists
<1>8. ListsInv'
  <2>1. at[t].cell = None
    BY <1>0 DEF IInv, Typed, ThreadsTyped, At
  <2>2. \A u \in Threads : at'[u].cell = at[u].cell
    BY <1>5, <2>1, IdleIs
  <2>3. CellsStay
    BY <1>6, <1>7, <2>2 DEF CellsStay
  <2> QED
    BY <2>3, CellsStayKeeps DEF ListsInv, IInv
<1>9. Referred'
  <2>1. ASSUME NEW d \in Devices PROVE RefKept(d) \/ RefTaken(d, w)
    <3>1. \A z : z \in Referrers(d)' =>
             \/ z = None /\ d \in attached
             \/ z \in Threads /\ at'[z].obj = d /\ at'[z].pc \notin Notifying
             \/ z \in Works /\ work'[z].obj = d /\ work'[z].state \in Running
      BY <1>0 DEF Referrers
    <3>2. \A z \in Threads : at'[z].obj = d => at'[z] = at[z]
      <4>1. d # None
        BY NamesAssumption DEF Objects
      <4> QED
        BY <1>5, <4>1, IdleIs
    <3>3. \A z \in Referrers(d)' : z \in Referrers(d) \/ (z = w /\ d = o)
      BY <1>3, <1>4, <3>1, <3>2, ReferrersAt
    <3>4. CASE d = o
      <4>1. Referrers(d) # {}
        BY <1>1, <3>4, AttachedAlive
      <4>2. refs'[d] = refs[d] + 1
        BY <1>0, <1>1, <3>4 DEF Ref, IInv, Typed, TypeOK
      <4> QED
        BY <3>3, <4>1, <4>2 DEF RefTaken
    <3>5. CASE d # o
      <4>1. refs'[d] = refs[d]
        BY <1>0, <1>1, <3>5 DEF Ref, IInv, Typed, TypeOK
      <4> QED
        BY <3>3, <3>5, <4>1 DEF RefKept
    <3> QED
      BY <3>4, <3>5
  <2>2. DOMAIN refs' = Devices /\ refs' = [d \in DOMAIN refs' |-> refs'[d]]
    BY <1>6
  <2> QED
    BY <2>1, <2>2, RefsKeep DEF RefsStep
<1>10. RoomLeft'
  <2>1. Claims' \subseteq Claims
    BY <1>5, <1>7 DEF Claims
  <2>2. Cardinality(Claims') <= Cardinality(Cells)
    BY <2>1, RoomKept, ClaimsAre DEF IInv
  <2>3. \A u \in Threads : at'[u].pc \notin Notifying
    BY <1>1, <1>5 DEF IInv, LocksFit
  <2> QED
    BY <2>2, <2>3 DEF RoomLeft
<1>11. WorksFit'
  <2> SUFFICES ASSUME NEW v \in Works PROVE Progress(v)'
    BY DEF WorksFit
  <2>1. CASE v = w
    BY <1>3, <1>4, <1>7, <2>1, ProgressThen
  <2>2. CASE v # w
    BY <1>4, <1>7, <2>2, ProgressSame DEF WorksFit, IInv
  <2> QED
    BY <2>1, <2>2
<1>12. WorksTyped'
  BY <1>1, <1>3, <1>4 DEF WorksTyped, IInv, Typed
<1>13. LocksFit'
  <2>1. ThreadsTyped /\ LocksFit /\ notify_mutex' = None /\ ns' = None /\ attached' = attached
    BY <1>0 DEF FinishNotify, IInv, Typed
  <2> QED
    BY <1>1, <1>5, <2>1, LocksKeep
<1>14. TypeOK'
  <2>1. \A v \in Works : work'[v].state \in {"none", "queued", "device", "root", "done"}
    BY <1>3, <1>4 DEF IInv, Typed, TypeOK
  <2> QED
    BY <1>0, <1>6, <2>1 DEF IInv, Typed, TypeOK, FinishNotify, lists
<1> QED
  BY <1>5, <1>8, <1>9, <1>10, <1>11, <1>12, <1>13, <1>14 DEF IInv, Typed, ListsInv

-----------------------------------------------------------------------------
(***************************************************************************)
(* Steps that drop a reference.                                            *)
(***************************************************************************)
\* One who has object o goes, and handlers that are in no list are freed.
Dropping(o, x, dying) ==
    /\ Freeing(o, dying)
    /\ \A d \in Devices :
          IF d = o THEN x \in Referrers(d) /\ Referrers(d)' \subseteq Referrers(d) \ {x}
          ELSE Referrers(d)' \subseteq Referrers(d)

\* The lists and the counts of the others stay.
LEMMA DropKeeps ==
    ASSUME IInv, NEW o \in Objects, NEW x, NEW dying, Dropping(o, x, dying)
    PROVE  /\ ListsInv' /\ Referred' /\ refs' \in [Devices -> Nat]
           /\ allocated' \subseteq allocated
<1>1. refs \in [Devices -> Nat] /\ Root \notin Devices /\ allocated \subseteq Cells
  BY NamesAssumption DEF IInv, Typed, TypeOK
<1>2. o # Root => o \in Devices /\ refs[o] \in Nat /\ refs[o] > 0
  BY <1>1, ReferredAlive DEF Dropping, Objects
<1>3. ListsInv' /\ allocated' \subseteq allocated
  <2>1. Alive(o)
    BY <1>2 DEF Alive
  <2> QED
    BY <1>1, <1>2, <2>1, FreeingKeeps DEF Dropping, IInv, ListsInv
<1>4. DOMAIN refs' = Devices /\ refs' = [d \in DOMAIN refs' |-> refs'[d]]
  BY <1>1 DEF Dropping, Freeing, Unref
<1>5. RefsStep
  <2> SUFFICES ASSUME NEW d \in Devices PROVE RefKept(d) \/ RefDropped(d, x)
    BY DEF RefsStep
  <2>1. CASE d = o
    <3>1. refs'[d] = refs[d] - 1
      BY <1>1, <2>1 DEF Dropping, Freeing, Unref
    <3> QED
      BY <2>1, <3>1 DEF Dropping, RefDropped
  <2>2. CASE d # o
    <3>1. refs'[d] = refs[d]
      BY <1>1, <2>2 DEF Dropping, Freeing, Unref
    <3> QED
      BY <2>2, <3>1 DEF Dropping, RefKept
  <2> QED
    BY <2>1, <2>2
<1>6. Referred' /\ refs' \in [Devices -> Nat]
  BY <1>4, <1>5, RefsKeep
<1> QED
  BY <1>3, <1>6

\* Leave, and LockMutexFails in a call of the API
LEMMA LeaveKeeps ==
    ASSUME IInv, NEW t \in Threads, NEW dying, dying = {at[t].cell} \/ dying = {},
           at[t].cell # None => at[t].cell \in dying,
           ~At(t, "idle"), at[t].pc \notin Notifying,
           Unref(at[t].obj, dying), Return(t),
           UNCHANGED <<ns, head, next, callback, attached, work, calls>>,
           faults' \in 0 .. MaxFaults,
           notify_mutex' = notify_mutex \/ (notify_mutex' = None /\ notify_mutex = t)
    PROVE  IInv'
<1> DEFINE o == at[t].obj
<1>1. /\ Moves(t, Idle) /\ at'[t] = Idle /\ ThreadsTyped'
      /\ \A u \in Threads : u # t => at'[u] = at[u]
      /\ Idle.pc \notin Installing /\ Idle.pc \notin Notifying /\ Idle.pc \notin Inside
  <2>1. Idle.pc \notin Installing /\ Idle.pc \notin Notifying /\ Idle.pc \notin Inside
    BY IdleIs DEF Installing, Notifying, Inside
  <2>2. Moves(t, Idle)
    BY <2>1, IdleIs DEF Moves, Return
  <2> QED
    BY <2>1, <2>2, OnlyOneMoves DEF IInv, Typed
<1>2. SameLists /\ o \in Objects
  BY DEF SameLists, IInv, Typed, ThreadsTyped
<1>3. Freeing(o, dying)
  <2>1. ASSUME NEW u \in Threads, u # t, at[u].cell # None
        PROVE  at[u].cell \notin dying
    <3>1. notify_mutex = u
      BY <2>1 DEF IInv, Typed, ThreadsTyped, LocksFit, At
    <3>2. at[t].cell = None
      BY <2>1, <3>1 DEF IInv, Typed, ThreadsTyped, LocksFit, At
    <3> QED
      BY <2>1, <3>2
  <2>2. \A u \in Threads :
          \/ at'[u].cell = at[u].cell /\ (at[u].cell # None => at[u].cell \notin dying)
          \/ at'[u].cell = None /\ (at[u].cell # None => at[u].cell \in dying)
    BY <1>1, <2>1, IdleIs
  <2>3. \A c \in dying \ {None} : \E u \in Threads : at[u].cell = c
    OBVIOUS
  <2> QED
    BY <1>2, <2>2, <2>3 DEF Freeing
<1>4. Dropping(o, t, dying)
  <2> SUFFICES ASSUME NEW d \in Devices
               PROVE  IF d = o THEN t \in Referrers(d) /\ Referrers(d)' \subseteq Referrers(d) \ {t}
                      ELSE Referrers(d)' \subseteq Referrers(d)
    BY <1>3 DEF Dropping
  <2>1. /\ Referrers(d)' \ {t} = Referrers(d) \ {t}
        /\ t \in Referrers(d)' <=> Idle.obj = d /\ Idle.pc \notin Notifying
        /\ t \in Referrers(d) <=> at[t].obj = d /\ at[t].pc \notin Notifying
    BY <1>1, ReferrersMove DEF IInv, Typed
  <2>2. Idle.obj # d
    BY IdleIs, NamesAssumption DEF Objects
  <2> QED
    BY <2>1, <2>2
<1>5. ListsInv' /\ Referred' /\ refs' \in [Devices -> Nat] /\ allocated' \subseteq allocated
  BY <1>2, <1>4, DropKeeps
<1>6. RoomLeft'
  <2>1. Claims' \subseteq Claims
    BY <1>1, <1>5 DEF Claims
  <2>2. Cardinality(Claims') <= Cardinality(Cells)
    BY <2>1, RoomKept, ClaimsAre DEF IInv
  <2>3. UnusedWorks' = UnusedWorks
    BY DEF UnusedWorks
  <2>4. \A u \in Threads : at'[u].pc \in Notifying => at[u].pc \in Notifying
    BY <1>1
  <2> QED
    BY <2>2, <2>3, <2>4 DEF RoomLeft, IInv
<1>7. WorksFit' /\ WorksTyped'
  <2>1. WorksFit'
    BY <1>2, ProgressSame DEF WorksFit, IInv
  <2> QED
    BY <2>1 DEF WorksTyped, IInv, Typed
<1>8. LocksFit'
  BY <1>1, LocksKeep DEF IInv, Typed
<1>9. TypeOK'
  BY <1>5 DEF IInv, Typed, TypeOK
<1> QED
  BY <1>1, <1>5, <1>6, <1>7, <1>8, <1>9 DEF IInv, Typed, ListsInv

\* LockMutexFails
LEMMA LockMutexFailsKeeps ==
    ASSUME IInv, NEW t \in Threads, LockMutexFails(t)
    PROVE  IInv'
<1>1. faults' \in 0 .. MaxFaults
  BY BoundsAssumption DEF IInv, Typed, TypeOK, LockMutexFails
<1>2. at[t].pc \in {"install", "uninstall", "notify"} /\ at[t].cell = None
  BY DEF LockMutexFails, Entered, IInv, Typed, ThreadsTyped, At
<1>3. CASE At(t, "notify")
  <2>1. ns = t /\ ns' = None
    BY <1>3 DEF LockMutexFails, IInv, LocksFit, At, Notifying
  <2>2. UNCHANGED <<lists, objects, work, calls>> /\ notify_mutex' = notify_mutex /\ Return(t)
    BY <1>3 DEF LockMutexFails, lists, objects
  <2>3. At(t, "leave") => FALSE
    BY <1>3 DEF At
  <2> QED
    BY <1>1, <2>1, <2>2, <2>3, ReturnKeeps
<1>4. CASE ~At(t, "notify")
  <2>1. /\ ~At(t, "idle") /\ at[t].pc \notin Notifying
    BY <1>2, <1>4 DEF At, Notifying
  <2>2. /\ Unref(at[t].obj, {}) /\ Return(t) /\ notify_mutex' = notify_mutex
        /\ UNCHANGED <<ns, head, next, callback, attached, work, calls>>
    BY <1>4 DEF LockMutexFails
  <2> QED
    BY <1>1, <1>2, <2>1, <2>2, LeaveKeeps
<1> QED
  BY <1>3, <1>4

\* EndWork
LEMMA EndWorkKeeps ==
    ASSUME IInv, NEW w \in Works, EndWork(w)
    PROVE  IInv'
<1> DEFINE o == work[w].obj
           y == [work[w] EXCEPT !.state = "done"]
<1>1. /\ DOMAIN work = Works /\ DOMAIN work[w] = {"state", "obj", "ptr", "called", "due"}
      /\ work[w].state = "root" /\ work[w].state \in Running /\ work[w].ptr = None
  BY DEF IInv, Typed, WorksTyped, EndWork, Running
<1>2. /\ y.state = "done" /\ y.called = work[w].called /\ y.due = work[w].due
      /\ y.state \notin Running
      /\ DOMAIN y = {"state", "obj", "ptr", "called", "due"}
  BY <1>1 DEF Running
<1>3. work' = [work EXCEPT ![w] = y]
  BY DEF EndWork
<1> HIDE DEF y
<1>4. /\ DOMAIN work' = Works /\ work'[w] = y
      /\ \A v \in Works : v # w => work'[v] = work[v]
  BY <1>1, <1>3
<1>5. o \in Devices /\ o \in Objects /\ Alive(o) /\ w \in Referrers(o) /\ SameLists
      /\ Root \in Objects /\ Alive(Root)
  BY <1>1, WorkAlive DEF Objects, EndWork, SameLists, Alive
<1>6. Dropping(o, w, {})
  <2>1. Freeing(o, {})
    BY <1>5 DEF Freeing, EndWork
  <2> SUFFICES ASSUME NEW d \in Devices
               PROVE  IF d = o THEN w \in Referrers(d) /\ Referrers(d)' \subseteq Referrers(d) \ {w}
                      ELSE Referrers(d)' \subseteq Referrers(d)
    BY <2>1 DEF Dropping
  <2>2. \A z : z \in Referrers(d)' =>
           \/ z = None /\ d \in attached
           \/ z \in Threads /\ at[z].obj = d /\ at[z].pc \notin Notifying
           \/ z \in Works /\ work'[z].obj = d /\ work'[z].state \in Running
    BY DEF Referrers, EndWork
  <2>3. w # None /\ w \notin Threads
    BY NamesAssumption
  <2>4. Referrers(d)' \subseteq Referrers(d) \ {w}
    BY <1>2, <1>4, <2>2, <2>3, ReferrersAt
  <2> QED
    BY <1>5, <2>4
<1>7. ListsInv' /\ Referred' /\ refs' \in [Devices -> Nat] /\ allocated' \subseteq allocated
  BY <1>5, <1>6, DropKeeps
<1>8. RoomLeft'
  <2>1. Claims' \subseteq Claims
    BY <1>7 DEF Claims, EndWork
  <2>2. Cardinality(Claims') <= Cardinality(Cells)
    BY <2>1, RoomKept, ClaimsAre DEF IInv
  <2>3. UnusedWorks' = UnusedWorks
    BY <1>1, <1>2, <1>4 DEF UnusedWorks
  <2> QED
    BY <2>2, <2>3 DEF RoomLeft, IInv, EndWork
<1>9. WorksFit'
  <2>1. Progress(w)'
    <3>1. work[w].due = CallbacksOf(o) \o CallbacksOf(Root)
      BY <1>1, ProgressIs DEF IInv, WorksFit
    <3>2. PICK i \in 1 .. Len(CallbacksOf(Root)) + 1 :
             /\ None = Entry(Handlers(Root), i)
             /\ work[w].called = CallbacksOf(o) \o SubSeq(CallbacksOf(Root), 1, i - 1)
      BY <1>1, ProgressIs DEF IInv, WorksFit
    <3>3. SubSeq(CallbacksOf(Root), 1, i - 1) = CallbacksOf(Root)
      BY <1>5, <3>2, AtTheEnd DEF IInv
    <3>4. work'[w].called = work'[w].due /\ work'[w].state = "done"
      BY <1>2, <1>4, <3>1, <3>2, <3>3
    <3> QED
      BY <1>5, <3>4, ProgressThen
  <2>2. ASSUME NEW v \in Works, v # w PROVE Progress(v)'
    BY <1>4, <1>5, <2>2, ProgressSame DEF WorksFit, IInv
  <2> QED
    BY <2>1, <2>2 DEF WorksFit
<1>10. WorksTyped'
  BY <1>2, <1>4 DEF WorksTyped, IInv, Typed
<1>11. LocksFit' /\ ThreadsTyped'
  BY DEF LocksFit, ThreadsTyped, At, IInv, Typed, EndWork
<1>12. TypeOK'
  <2>1. \A v \in Works : work'[v].state \in {"none", "queued", "device", "root", "done"}
    BY <1>2, <1>4 DEF IInv, Typed, TypeOK
  <2> QED
    BY <1>7, <2>1 DEF IInv, Typed, TypeOK, EndWork
<1> QED
  BY <1>7, <1>8, <1>9, <1>10, <1>11, <1>12 DEF IInv, Typed, ListsInv

\* RemoveDevice
LEMMA RemoveDeviceKeeps ==
    ASSUME IInv, NEW d \in Devices, RemoveDevice(d)
    PROVE  IInv'
<1>1. d \in Objects /\ SameLists /\ attached' = attached \ {d} /\ d \in attached
  BY DEF Objects, RemoveDevice, SameLists
<1>2. Dropping(d, None, {})
  <2>1. Freeing(d, {})
    BY <1>1 DEF Freeing, RemoveDevice
  <2> SUFFICES ASSUME NEW e \in Devices
               PROVE  IF e = d THEN None \in Referrers(e) /\ Referrers(e)' \subseteq Referrers(e) \ {None}
                      ELSE Referrers(e)' \subseteq Referrers(e)
    BY <2>1 DEF Dropping
  <2>2. \A z : z \in Referrers(e)' =>
           \/ z = None /\ e \in attached /\ e # d
           \/ z \in Threads /\ at[z].obj = e /\ at[z].pc \notin Notifying
           \/ z \in Works /\ work[z].obj = e /\ work[z].state \in Running
    BY <1>1 DEF Referrers, RemoveDevice
  <2>3. None \notin Threads /\ None \notin Works
    BY NamesAssumption
  <2> QED
    BY <1>1, <2>2, <2>3, ReferrersAt
<1>3. ListsInv' /\ Referred' /\ refs' \in [Devices -> Nat] /\ allocated' \subseteq allocated
  BY <1>1, <1>2, DropKeeps
<1>4. RoomLeft'
  <2>1. Claims' \subseteq Claims
    BY <1>3 DEF Claims, RemoveDevice
  <2>2. Cardinality(Claims') <= Cardinality(Cells)
    BY <2>1, RoomKept, ClaimsAre DEF IInv
  <2>3. UnusedWorks' = UnusedWorks
    BY DEF UnusedWorks, RemoveDevice
  <2> QED
    BY <2>2, <2>3 DEF RoomLeft, IInv, RemoveDevice
<1>5. WorksFit'
  BY <1>1, ProgressSame DEF WorksFit, IInv, RemoveDevice
<1>6. WorksTyped' /\ ThreadsTyped'
  BY DEF WorksTyped, ThreadsTyped, At, IInv, Typed, RemoveDevice
<1>7. LocksFit'
  <2>1. \A t \in Threads : at[t].pc \notin Notifying
    BY NamesAssumption DEF IInv, LocksFit, RemoveDevice
  <2> QED
    BY <2>1 DEF LocksFit, IInv, RemoveDevice
<1>8. TypeOK'
  <2>1. calls' \in 0 .. MaxCalls
    BY BoundsAssumption DEF IInv, Typed, TypeOK, RemoveDevice
  <2> QED
    BY <1>3, <2>1 DEF IInv, Typed, TypeOK, RemoveDevice
<1> QED
  BY <1>3, <1>4, <1>5, <1>6, <1>7, <1>8 DEF IInv, Typed, ListsInv

-----------------------------------------------------------------------------
(***************************************************************************)
(* Steps that change a list: no work is on its way meanwhile.              *)
(***************************************************************************)
\* What is linked from the head of an object after a step are its handlers.
LEMMA HandlersThen ==
    ASSUME NEW o, NEW s, Linked(next', s, head'[o])
    PROVE  Handlers(o)' = s
<1>1. Chain(next')[head'[o]] = s
  BY ChainIs
<1> QED
  BY <1>1 DEF Handlers

\* A list that the step does not touch stays.
LEMMA OtherList ==
    ASSUME NEW o, Linked(next, Handlers(o), head[o]), head'[o] = head[o],
           \A i \in DOMAIN Handlers(o) : next'[Handlers(o)[i]] = next[Handlers(o)[i]]
    PROVE  /\ Linked(next', Handlers(o), head'[o]) /\ Handlers(o)' = Handlers(o)
           /\ \A c : InList(o, c)' <=> InList(o, c)
<1>1. Linked(next', Handlers(o), head'[o])
  BY DEF Linked
<1>2. Handlers(o)' = Handlers(o)
  BY <1>1, HandlersThen
<1> QED
  BY <1>1, <1>2 DEF InList

\* A thread changes a list, with every scheduled work finished.
Relinks(t, x) ==
    /\ at[t].pc \in {"installing", "uninstalling"} /\ Quiescent
    /\ Moves(t, x) /\ x.pc = "leave" /\ x.obj = at[t].obj
    /\ UNCHANGED <<notify_mutex, ns, objects, work, calls, faults>>

\* References, works and locks are not affected.
LEMMA RelinksKeep ==
    ASSUME IInv, NEW t \in Threads, NEW x, Relinks(t, x)
    PROVE  /\ Referred' /\ WorksFit' /\ WorksTyped' /\ LocksFit' /\ ThreadsTyped'
           /\ UnusedWorks' = UnusedWorks
           /\ \A u \in Threads : at'[u].pc \in Notifying => at[u].pc \in Notifying
           /\ at[t].obj \in Objects /\ Alive(at[t].obj) /\ at[t].cell = None
           /\ \A o \in Objects : Alive(o)' <=> Alive(o)
           /\ at'[t] = x /\ \A u \in Threads : u # t => at'[u] = at[u]
<1>0. /\ ThreadsTyped /\ LocksFit /\ WorksTyped /\ Moves(t, x)
      /\ x.pc \notin Installing /\ x.pc \notin Notifying /\ at[t].pc \notin Notifying
      /\ at[t].pc \in Inside /\ attached' = attached /\ refs' = refs /\ work' = work
      /\ notify_mutex' = notify_mutex /\ ns' = ns
  BY DEF IInv, Typed, Relinks, Installing, Notifying, Inside, objects
<1>1. /\ at'[t] = x /\ \A u \in Threads : u # t => at'[u] = at[u]
      /\ ThreadsTyped'
  BY <1>0, OnlyOneMoves
<1>2. at[t].obj \in Objects /\ at[t].cell = None /\ notify_mutex = t
  BY <1>0 DEF ThreadsTyped, At, LocksFit, Inside, Relinks
<1>3. Alive(at[t].obj)
  <2>1. CASE at[t].obj = Root
    BY <2>1 DEF Alive
  <2>2. CASE at[t].obj # Root
    <3>1. at[t].obj \in Devices /\ t \in Referrers(at[t].obj)
      BY <1>0, <1>2, <2>2 DEF Objects, Referrers
    <3> QED
      BY <3>1, ReferredAlive DEF Alive
  <2> QED
    BY <2>1, <2>2
<1>4. Referred'
  <2>1. ASSUME NEW d \in Devices PROVE RefKept(d)
    <3>1. /\ Referrers(d)' \ {t} = Referrers(d) \ {t}
          /\ t \in Referrers(d)' <=> x.obj = d /\ x.pc \notin Notifying
          /\ t \in Referrers(d) <=> at[t].obj = d /\ at[t].pc \notin Notifying
      BY <1>0, ReferrersMove
    <3>2. t \in Referrers(d)' => t \in Referrers(d)
      BY <1>0, <3>1 DEF Relinks
    <3> QED
      BY <1>0, <3>1, <3>2 DEF RefKept
  <2>2. DOMAIN refs' = Devices /\ refs' = [d \in DOMAIN refs' |-> refs'[d]]
    BY <1>0 DEF IInv, Typed, TypeOK
  <2> QED
    BY <2>1, <2>2, RefsKeep DEF RefsStep
<1>5. WorksFit'
  <2> SUFFICES ASSUME NEW w \in Works PROVE Progress(w)'
    BY DEF WorksFit
  <2>1. work[w].state \in {"none", "done"}
    BY DEF Relinks, Quiescent, IInv, Typed, TypeOK
  <2>2. work[w].state = "done" => work[w].called = work[w].due
    BY ProgressIs DEF IInv, WorksFit
  <2> QED
    BY <1>0, <2>1, <2>2 DEF Progress
<1>6. WorksTyped' /\ UnusedWorks' = UnusedWorks
  BY <1>0 DEF WorksTyped, UnusedWorks
<1>7. LocksFit'
  BY <1>0, <1>2, LocksKeep
<1>8. /\ \A u \in Threads : at'[u].pc \in Notifying => at[u].pc \in Notifying
      /\ \A o \in Objects : Alive(o)' <=> Alive(o)
  BY <1>0, <1>1 DEF Alive
<1> QED
  BY <1>1, <1>2, <1>3, <1>4, <1>5, <1>6, <1>7, <1>8

\* A record is left for who installs.
LEMMA RecordLeft ==
    ASSUME IInv, NEW t \in Threads, at[t].pc \in Installing
    PROVE  Cells \ allocated # {}
<1> SUFFICES ASSUME Cells \subseteq allocated PROVE FALSE
  OBVIOUS
<1>1. /\ IsFiniteSet(Claims) /\ Cardinality(Claims) \in Nat
      /\ Cardinality(Claims) <= Cardinality(Cells)
  BY ClaimsAre DEF IInv, RoomLeft
<1>2. t \notin Cells /\ Cells \cup {t} \subseteq Claims
  BY NamesAssumption DEF Claims
<1>3. /\ IsFiniteSet(Cells \cup {t}) /\ Cardinality(Cells \cup {t}) = Cardinality(Cells) + 1
  BY <1>2, NamesAssumption, FS_AddElement
<1>4. Cardinality(Cells \cup {t}) <= Cardinality(Claims)
  BY <1>1, <1>2, FS_Subset
<1> QED
  BY <1>1, <1>3, <1>4, CellsCounted

\* A new entry in front.
LEMMA LinkFront ==
    ASSUME NEW link, NEW s, NEW h, Linked(link, s, h), link \in [Cells -> Cells \cup {None}],
           NEW c \in Cells, \A i \in DOMAIN s : s[i] # c
    PROVE  Linked([link EXCEPT ![c] = h], <<c>> \o s, c)
<1> DEFINE r == <<c>> \o s
           l == [link EXCEPT ![c] = h]
<1>1. /\ s \in Seq(Cells) /\ Len(s) \in Nat /\ DOMAIN s = 1 .. Len(s)
      /\ \A i, j \in DOMAIN s : s[i] = s[j] => i = j
      /\ h = Entry(s, 1) /\ \A i \in DOMAIN s : link[s[i]] = Entry(s, i + 1)
      /\ \A i \in DOMAIN s : s[i] \in Cells
  BY DEF Linked
<1>2. /\ r \in Seq(Cells) /\ Len(r) = Len(s) + 1 /\ DOMAIN r = 1 .. Len(s) + 1 /\ r[1] = c
      /\ \A i \in 1 .. Len(s) : r[i + 1] = s[i]
  BY <1>1
<1> HIDE DEF r
<1>3. \A k \in 2 .. Len(s) + 1 : k - 1 \in 1 .. Len(s) /\ r[k] = s[k - 1] /\ r[k] \in Cells /\ r[k] # c
  <2> SUFFICES ASSUME NEW k \in 2 .. Len(s) + 1
               PROVE  k - 1 \in 1 .. Len(s) /\ r[k] = s[k - 1] /\ r[k] \in Cells /\ r[k] # c
    OBVIOUS
  <2>1. k - 1 \in 1 .. Len(s) /\ (k - 1) + 1 = k
    BY <1>1
  <2>2. r[k] = s[k - 1]
    BY <1>2, <2>1
  <2> QED
    BY <1>1, <2>1, <2>2
<1>4. \A i, j \in DOMAIN r : r[i] = r[j] => i = j
  <2> SUFFICES ASSUME NEW i \in DOMAIN r, NEW j \in DOMAIN r, r[i] = r[j] PROVE i = j
    OBVIOUS
  <2>1. CASE i = 1
    BY <1>1, <1>2, <1>3, <2>1
  <2>2. CASE j = 1
    BY <1>1, <1>2, <1>3, <2>2
  <2>3. CASE i # 1 /\ j # 1
    <3>1. i \in 2 .. Len(s) + 1 /\ j \in 2 .. Len(s) + 1
      BY <1>1, <1>2, <2>3
    <3>2. s[i - 1] = s[j - 1] /\ i - 1 \in DOMAIN s /\ j - 1 \in DOMAIN s
      BY <1>1, <1>3, <3>1
    <3>3. i - 1 = j - 1
      BY <1>1, <3>2
    <3> QED
      BY <3>1, <3>3
  <2> QED
    BY <2>1, <2>2, <2>3
<1>5. Entry(r, 1) = c
  BY <1>1, <1>2 DEF Entry
<1>6. \A k \in 0 .. Len(s) + 1 : Entry(r, k + 1 + 1) = Entry(s, k + 1)
  <2> SUFFICES ASSUME NEW k \in 0 .. Len(s) + 1 PROVE Entry(r, k + 1 + 1) = Entry(s, k + 1)
    OBVIOUS
  <2>1. CASE k + 1 \in 1 .. Len(s)
    BY <1>1, <1>2, <2>1 DEF Entry
  <2>2. CASE k + 1 \notin 1 .. Len(s)
    BY <1>1, <1>2, <2>2 DEF Entry
  <2> QED
    BY <2>1, <2>2
<1>7. \A k \in DOMAIN r : l[r[k]] = Entry(r, k + 1)
  <2> SUFFICES ASSUME NEW k \in DOMAIN r PROVE l[r[k]] = Entry(r, k + 1)
    OBVIOUS
  <2>1. CASE k = 1
    <3>1. l[r[k]] = h
      BY <1>2, <2>1
    <3>2. Entry(r, 1 + 1) = Entry(s, 1)
      <4>1. 0 \in 0 .. Len(s) + 1 /\ 0 + 1 = 1 /\ 0 + 1 + 1 = 1 + 1
        BY <1>1
      <4> QED
        BY <1>6, <4>1
    <3> QED
      BY <1>1, <2>1, <3>1, <3>2
  <2>2. CASE k # 1
    <3>1. k \in 2 .. Len(s) + 1 /\ k - 2 \in 0 .. Len(s) + 1 /\ (k - 2) + 1 = k - 1
          /\ (k - 1) \in 0 .. Len(s) + 1 /\ (k - 1) + 1 = k /\ (k - 1) + 1 + 1 = k + 1
      BY <1>1, <1>2, <2>2
    <3>2. k - 1 \in DOMAIN s /\ r[k] = s[k - 1] /\ r[k] \in Cells /\ r[k] # c
      BY <1>1, <1>3, <3>1
    <3>3. l[r[k]] = link[s[k - 1]]
      BY <3>2
    <3>4. link[s[k - 1]] = Entry(s, (k - 1) + 1)
      BY <1>1, <3>2
    <3>5. Entry(r, (k - 1) + 1 + 1) = Entry(s, (k - 1) + 1)
      BY <1>6, <3>1
    <3> HIDE DEF l
    <3> QED
      BY <3>1, <3>3, <3>4, <3>5
  <2> QED
    BY <2>1, <2>2
<1> QED
  BY <1>2, <1>4, <1>5, <1>7 DEF Linked, r

\* Install
LEMMA InstallKeeps ==
    ASSUME IInv, NEW t \in Threads, Install(t)
    PROVE  IInv'
<1>0. PICK o, c : o = at[t].obj /\ c = AnyFree(Cells \ allocated)
  OBVIOUS
<1> DEFINE s == Handlers(o)
           x == [at[t] EXCEPT !.pc = "leave"]
<1>1. /\ at[t].pc = "installing" /\ at[t].pc \in Installing /\ at[t] \in Thread
      /\ at[t].cb \in Callbacks /\ at[t].cell = None /\ o \in Objects
  BY <1>0 DEF IInv, Typed, ThreadsTyped, Thread, Install, At, Installing
<1>2. /\ x \in Thread /\ x.obj = o /\ x.cell = None /\ x.pc = "leave"
  BY <1>0, <1>1 DEF Thread, Places
<1>3. /\ at' = [at EXCEPT ![t] = x] /\ WorkCompleted /\ handler_container(o, at[t].cb) = {}
      /\ allocated' = allocated \cup {c} /\ callback' = [callback EXCEPT ![c] = at[t].cb]
      /\ next' = [next EXCEPT ![c] = head[o]] /\ head' = [head EXCEPT ![o] = c]
      /\ UNCHANGED <<notify_mutex, ns, objects, work, calls, faults>>
  BY <1>0 DEF Install, Goto
<1>4. c \in Cells /\ c \notin allocated
  BY <1>0, <1>1, RecordLeft DEF AnyFree
<1> HIDE DEF x
<1>5. Relinks(t, x)
  BY <1>0, <1>1, <1>2, <1>3 DEF Relinks, Moves, Installing, WorkCompleted
<1>6. /\ Referred' /\ WorksFit' /\ WorksTyped' /\ LocksFit' /\ ThreadsTyped'
      /\ UnusedWorks' = UnusedWorks
      /\ \A u \in Threads : at'[u].pc \in Notifying => at[u].pc \in Notifying
      /\ Alive(o) /\ \A p \in Objects : Alive(p)' <=> Alive(p)
      /\ at'[t] = x /\ \A u \in Threads : u # t => at'[u] = at[u]
  BY <1>0, <1>5, RelinksKeep
<1>7. /\ head \in [Objects -> Cells \cup {None}] /\ next \in [Cells -> Cells \cup {None}]
      /\ callback \in [Cells -> Callbacks \cup {None}] /\ allocated \subseteq Cells
  BY DEF IInv, Typed, TypeOK
<1>8. ASSUME NEW p \in Objects, Alive(p)
      PROVE  /\ Linked(next, Handlers(p), head[p])
             /\ \A i \in DOMAIN Handlers(p) : /\ Handlers(p)[i] \in allocated
                                              /\ Handlers(p)[i] \in Cells
                                              /\ Handlers(p)[i] # c
             /\ \A i, j \in DOMAIN Handlers(p) :
                   i # j => callback[Handlers(p)[i]] # callback[Handlers(p)[j]]
  BY <1>4, <1>7, <1>8 DEF IInv, ListsFit
\* the list gets a new front, the others stay
<1>9. /\ Linked(next', <<c>> \o s, head'[o]) /\ Handlers(o)' = <<c>> \o s
      /\ \A b : InList(o, b)' <=> b = c \/ InList(o, b)
  <2>1. Linked(next, s, head[o]) /\ \A i \in DOMAIN s : s[i] # c
    BY <1>1, <1>6, <1>8
  <2>2. head'[o] = c
    BY <1>1, <1>3, <1>7
  <2>3. s \in Seq(Cells)
    BY <2>1 DEF Linked
  <2>4. \A b : InList(o, b) <=> \E i \in DOMAIN s : s[i] = b
    BY DEF InList
  <2> HIDE DEF s
  <2>5. Linked(next', <<c>> \o s, head'[o])
    BY <1>3, <1>4, <1>7, <2>1, <2>2, LinkFront
  <2>6. Handlers(o)' = <<c>> \o s
    BY <2>5, HandlersThen
  <2>7. \A b : (\E i \in DOMAIN (<<c>> \o s) : (<<c>> \o s)[i] = b)
                  <=> b = c \/ \E i \in DOMAIN s : s[i] = b
    <3>1. /\ DOMAIN (<<c>> \o s) = 1 .. Len(s) + 1 /\ (<<c>> \o s)[1] = c
          /\ DOMAIN s = 1 .. Len(s) /\ Len(s) \in Nat
          /\ \A i \in 1 .. Len(s) : (<<c>> \o s)[i + 1] = s[i]
      BY <1>4, <2>3
    <3> DEFINE r == <<c>> \o s
    <3> HIDE DEF r
    <3>2. \A k \in DOMAIN r : k = 1 \/ (k - 1 \in 1 .. Len(s) /\ r[k] = s[k - 1])
      <4> SUFFICES ASSUME NEW k \in DOMAIN r, k # 1
                   PROVE  k - 1 \in 1 .. Len(s) /\ r[k] = s[k - 1]
        OBVIOUS
      <4>1. k - 1 \in 1 .. Len(s) /\ (k - 1) + 1 = k
        BY <3>1 DEF r
      <4> QED
        BY <3>1, <4>1 DEF r
    <3>3. \A i \in DOMAIN s : i + 1 \in DOMAIN r /\ r[i + 1] = s[i]
      BY <3>1 DEF r
    <3>4. 1 \in DOMAIN r /\ r[1] = c
      BY <3>1 DEF r
    <3>5. \A b : (\E i \in DOMAIN r : r[i] = b) <=> b = c \/ \E i \in DOMAIN s : s[i] = b
      BY <3>1, <3>2, <3>3, <3>4
    <3> QED
      BY <3>5 DEF r
  <2>8. \A b : InList(o, b)' <=> \E i \in DOMAIN (<<c>> \o s) : (<<c>> \o s)[i] = b
    BY <2>6 DEF InList
  <2> QED
    BY <2>4, <2>5, <2>6, <2>7, <2>8
<1>10. ASSUME NEW p \in Objects, Alive(p), p # o
       PROVE  /\ Linked(next', Handlers(p), head'[p]) /\ Handlers(p)' = Handlers(p)
              /\ \A b : InList(p, b)' <=> InList(p, b)
  <2>1. head'[p] = head[p]
    BY <1>3, <1>7, <1>10
  <2>2. \A i \in DOMAIN Handlers(p) : next'[Handlers(p)[i]] = next[Handlers(p)[i]]
    BY <1>3, <1>4, <1>7, <1>8, <1>10
  <2> QED
    BY <1>8, <1>10, <2>1, <2>2, OtherList
<1>11. \A p \in Objects : Alive(p) => ~InList(p, c)
  BY <1>8 DEF InList
<1>12. /\ \A b \in Cells : b # c => callback'[b] = callback[b]
       /\ callback'[c] = at[t].cb
  BY <1>3, <1>4, <1>7
<1>13. ListsFit'
  <2> SUFFICES ASSUME NEW p \in Objects, Alive(p)
               PROVE  /\ Linked(next', Handlers(p)', head'[p])
                      /\ \A i, j \in DOMAIN Handlers(p)' :
                            /\ Handlers(p)'[i] \in allocated'
                            /\ i # j => callback'[Handlers(p)'[i]] # callback'[Handlers(p)'[j]]
    BY <1>6 DEF ListsFit
  <2>1. CASE p = o
    <3>1. Linked(next', Handlers(p)', head'[p])
      BY <1>9, <2>1
    <3> PICK r : r = Handlers(p)'
      OBVIOUS
    <3>2. \A i, j \in DOMAIN r : r[i] = r[j] => i = j
      BY <3>1 DEF Linked
    <3>3. \A i \in DOMAIN r : InList(o, r[i])'
      BY <2>1 DEF InList
    <3>4. \A i \in DOMAIN r : r[i] = c \/ InList(o, r[i])
      BY <1>9, <3>3
    <3>5. \A b : InList(o, b) => b \in allocated /\ b \in Cells /\ b # c /\ callback[b] # at[t].cb
      <4>1. \A b : InList(o, b) => b \in allocated /\ b \in Cells /\ b # c
        BY <1>1, <1>6, <1>8 DEF InList
      <4>2. \A b \in Cells : ~(InList(o, b) /\ callback[b] = at[t].cb)
        BY <1>3 DEF handler_container
      <4> QED
        BY <4>1, <4>2
    <3>6. \A a, b : InList(o, a) /\ InList(o, b) /\ a # b => callback[a] # callback[b]
      BY <1>1, <1>6, <1>8 DEF InList
    <3>7. \A i \in DOMAIN r : r[i] \in allocated'
      BY <1>3, <3>4, <3>5
    <3>8. ASSUME NEW i \in DOMAIN r, NEW j \in DOMAIN r, i # j
          PROVE  callback'[r[i]] # callback'[r[j]]
      <4>1. r[i] # r[j]
        BY <3>2, <3>8
      <4>2. CASE r[i] = c
        <5>1. InList(o, r[j]) /\ callback'[r[i]] = at[t].cb
          BY <1>12, <3>4, <4>1, <4>2
        <5> QED
          BY <1>12, <3>5, <5>1
      <4>3. CASE r[j] = c
        <5>1. InList(o, r[i]) /\ callback'[r[j]] = at[t].cb
          BY <1>12, <3>4, <4>1, <4>3
        <5> QED
          BY <1>12, <3>5, <5>1
      <4>4. CASE r[i] # c /\ r[j] # c
        <5>1. InList(o, r[i]) /\ InList(o, r[j])
          BY <3>4, <4>4
        <5>2. callback'[r[i]] = callback[r[i]] /\ callback'[r[j]] = callback[r[j]]
          BY <1>12, <3>5, <5>1
        <5> QED
          BY <3>6, <4>1, <5>1, <5>2
      <4> QED
        BY <4>2, <4>3, <4>4
    <3> QED
      BY <3>1, <3>7, <3>8
  <2>2. CASE p # o
    <3>1. Handlers(p)' = Handlers(p) /\ Linked(next', Handlers(p), head'[p])
      BY <1>10, <2>2
    <3>2. \A i \in DOMAIN Handlers(p) :
             /\ Handlers(p)[i] \in allocated'
             /\ callback'[Handlers(p)[i]] = callback[Handlers(p)[i]]
      BY <1>3, <1>8, <1>12
    <3> QED
      BY <1>8, <3>1, <3>2
  <2> QED
    BY <2>1, <2>2
<1>14. RemovedAllocated' /\ \A u \in Threads : at'[u].cell = at[u].cell /\ at[u].cell # c
  <2>1. \A u \in Threads : at'[u].cell = at[u].cell
    BY <1>1, <1>2, <1>6
  <2>2. \A u \in Threads : at[u].cell # c
    BY <1>4, NamesAssumption DEF IInv, RemovedAllocated
  <2> QED
    BY <1>3, <2>1, <2>2 DEF IInv, RemovedAllocated
<1>15. ListsApart'
  <2>1. \A b : \A p \in Objects : Alive(p) =>
           (InList(p, b)' <=> InList(p, b) \/ (p = o /\ b = c))
    BY <1>9, <1>10
  <2>2. \A b : \A p, q \in Objects : Alive(p) /\ Alive(q) /\ p # q /\ InList(p, b) => ~InList(q, b)
    BY DEF IInv, ListsApart, InList
  <2>3. \A b : \A p \in Objects, u \in Threads : Alive(p) /\ InList(p, b) => at[u].cell # b
    BY DEF IInv, ListsApart, InList
  <2> SUFFICES ASSUME NEW p \in Objects, Alive(p), NEW b, InList(p, b)'
               PROVE  /\ \A q \in Objects \ {p} : Alive(q) => ~InList(q, b)'
                      /\ \A u \in Threads : at'[u].cell # b
    BY <1>6 DEF ListsApart, InList
  <2>4. CASE b = c
    BY <1>11, <1>14, <2>1, <2>4
  <2>5. CASE b # c
    BY <1>14, <2>1, <2>2, <2>3, <2>5
  <2> QED
    BY <2>4, <2>5
<1>16. NoneLost'
  <2> SUFFICES ASSUME NEW b \in allocated'
               PROVE  \/ \E p \in Objects : Alive(p)' /\ InList(p, b)'
                      \/ \E u \in Threads : at'[u].cell = b
    BY DEF NoneLost
  <2>1. CASE b = c
    BY <1>1, <1>6, <1>9, <2>1
  <2>2. CASE b \in allocated
    <3>1. CASE \E p \in Objects : Alive(p) /\ InList(p, b)
      BY <1>6, <1>9, <1>10, <3>1
    <3>2. CASE \E u \in Threads : at[u].cell = b
      BY <1>14, <3>2
    <3> QED
      BY <2>2, <3>1, <3>2 DEF IInv, NoneLost
  <2> QED
    BY <1>3, <2>1, <2>2
<1>17. RoomLeft'
  <2> DEFINE C == Claims
  <2>1. IsFiniteSet(C) /\ Cardinality(C) \in Nat /\ Cardinality(C) <= Cardinality(Cells)
    BY ClaimsAre DEF IInv, RoomLeft
  <2>2. t \in C /\ t \notin Cells
    BY <1>1, NamesAssumption DEF Claims
  <2>3. Claims' \subseteq (C \ {t}) \cup {c}
    BY <1>2, <1>3, <1>6, <1>4, <1>7, NamesAssumption DEF Claims, Installing
  <2> HIDE DEF C
  <2>4. IsFiniteSet(C \ {t}) /\ Cardinality(C \ {t}) = Cardinality(C) - 1
    BY <2>1, <2>2, FS_RemoveElement
  <2>5. /\ IsFiniteSet((C \ {t}) \cup {c})
        /\ Cardinality((C \ {t}) \cup {c}) =
              IF c \in C \ {t} THEN Cardinality(C \ {t}) ELSE Cardinality(C \ {t}) + 1
    BY <2>4, FS_AddElement
  <2>6. /\ IsFiniteSet(Claims') /\ Cardinality(Claims') <= Cardinality((C \ {t}) \cup {c})
    BY <2>3, <2>5, FS_Subset
  <2>7. Cardinality(Claims') \in Nat
    BY <2>6, FS_CardinalityType
  <2>8. Cardinality((C \ {t}) \cup {c}) <= Cardinality(C) /\ Cardinality((C \ {t}) \cup {c}) \in Nat
    BY <2>1, <2>4, <2>5, FS_CardinalityType
  <2>9. Cardinality(Claims') <= Cardinality(Cells)
    BY <2>1, <2>6, <2>7, <2>8, CellsCounted
  <2> QED
    BY <1>6, <2>9 DEF RoomLeft, IInv
<1>18. TypeOK'
  BY <1>1, <1>3, <1>4 DEF IInv, Typed, TypeOK, objects
<1> QED
  BY <1>6, <1>13, <1>14, <1>15, <1>16, <1>17, <1>18 DEF IInv, Typed

\* Sequence s without its entry at i.
Without(s, i) == [j \in 1 .. Len(s) - 1 |-> IF j < i THEN s[j] ELSE s[j + 1]]

\* Links l bypass that entry.
Bypasses(l, link, s, i) ==
    \A j \in DOMAIN s : l[s[j]] = IF link[s[j]] = s[i] THEN link[s[i]] ELSE link[s[j]]
HeadWithout(link, s, h, i) == IF h = s[i] THEN link[s[i]] ELSE h

\* An entry is taken out by linking its predecessor, or the head, to its
\* successor.
LEMMA TakeOut ==
    ASSUME NEW link, NEW s, NEW h, Linked(link, s, h), NEW i \in DOMAIN s, NEW l,
           Bypasses(l, link, s, i)
    PROVE  /\ Linked(l, Without(s, i), HeadWithout(link, s, h, i))
           /\ \A b : (\E j \in DOMAIN Without(s, i) : Without(s, i)[j] = b)
                        <=> b # s[i] /\ \E j \in DOMAIN s : s[j] = b
<1> DEFINE r == Without(s, i)
           n == Len(s)
<1>1. /\ s \in Seq(Cells) /\ n \in Nat /\ DOMAIN s = 1 .. n /\ i \in 1 .. n
      /\ \A a, b \in DOMAIN s : s[a] = s[b] => a = b
      /\ h = Entry(s, 1) /\ \A j \in DOMAIN s : link[s[j]] = Entry(s, j + 1)
      /\ \A j \in DOMAIN s : s[j] \in Cells /\ s[j] # None
  <2>1. s \in Seq(Cells) /\ n \in Nat /\ DOMAIN s = 1 .. n /\ \A j \in DOMAIN s : s[j] \in Cells
    BY DEF Linked
  <2> QED
    BY <2>1, NamesAssumption DEF Linked
<1>2. /\ DOMAIN r = 1 .. n - 1 /\ \A j \in 1 .. n - 1 : r[j] = IF j < i THEN s[j] ELSE s[j + 1]
  BY DEF Without
<1> HIDE DEF r, n
<1>3. r \in Seq(Cells) /\ Len(r) = n - 1
  <2>1. \A j \in 1 .. n - 1 : r[j] \in Cells
    BY <1>1, <1>2
  <2>2. r = [j \in 1 .. n - 1 |-> r[j]]
    BY <1>2 DEF r, Without, n
  <2>3. n - 1 \in Nat
    BY <1>1
  <2> QED
    BY <2>1, <2>2, <2>3
\* where the entries of r are in s
<1>4. ASSUME NEW j \in 1 .. n - 1
      PROVE  \E a \in 1 .. n : r[j] = s[a] /\ a # i /\ ((j < i /\ a = j) \/ (j >= i /\ a = j + 1))
  <2>1. CASE j < i
    BY <1>1, <1>2, <2>1
  <2>2. CASE ~(j < i)
    <3>1. j + 1 \in 1 .. n /\ j + 1 # i /\ j >= i
      BY <1>1, <2>2
    <3> QED
      BY <1>2, <2>2, <3>1
  <2> QED
    BY <2>1, <2>2
<1>5. \A a, b \in DOMAIN r : r[a] = r[b] => a = b
  <2> SUFFICES ASSUME NEW a \in 1 .. n - 1, NEW b \in 1 .. n - 1, r[a] = r[b] PROVE a = b
    BY <1>2
  <2>1. PICK p \in 1 .. n :
           r[a] = s[p] /\ p # i /\ ((a < i /\ p = a) \/ (a >= i /\ p = a + 1))
    BY <1>4
  <2>2. PICK q \in 1 .. n :
           r[b] = s[q] /\ q # i /\ ((b < i /\ q = b) \/ (b >= i /\ q = b + 1))
    BY <1>4
  <2>3. p = q
    BY <1>1, <2>1, <2>2
  <2> QED
    BY <1>1, <2>1, <2>2, <2>3
<1>6. \A j \in DOMAIN s : Entry(s, j + 1) = s[i] <=> j + 1 = i
  BY <1>1 DEF Entry
<1>7. HeadWithout(link, s, h, i) = Entry(r, 1)
  <2>1. CASE i = 1
    <3>1. h = s[i] /\ link[s[i]] = Entry(s, 2)
      BY <1>1, <2>1 DEF Entry
    <3>2. Entry(r, 1) = Entry(s, 2)
      BY <1>1, <1>2, <2>1 DEF Entry
    <3> QED
      BY <3>1, <3>2 DEF HeadWithout
  <2>2. CASE i # 1
    <3>1. 1 \in DOMAIN s /\ h = s[1] /\ h # s[i]
      BY <1>1, <2>2 DEF Entry
    <3>2. Entry(r, 1) = s[1]
      BY <1>1, <1>2, <2>2 DEF Entry
    <3> QED
      BY <3>1, <3>2 DEF HeadWithout
  <2> QED
    BY <2>1, <2>2
<1>8. ASSUME NEW j \in 1 .. n - 1
      PROVE  l[r[j]] = Entry(r, j + 1)
  <2>1. CASE j + 1 < i
    <3>1. j \in DOMAIN s /\ r[j] = s[j] /\ j + 1 \in 1 .. n - 1
      BY <1>1, <1>2, <2>1
    <3>2. link[s[j]] = Entry(s, j + 1) /\ Entry(s, j + 1) # s[i]
      BY <1>1, <1>6, <2>1, <3>1
    <3>3. l[s[j]] = Entry(s, j + 1)
      BY <3>1, <3>2 DEF Bypasses
    <3>4. Entry(r, j + 1) = Entry(s, j + 1)
      BY <1>1, <1>2, <2>1, <3>1 DEF Entry
    <3> QED
      BY <3>1, <3>3, <3>4
  <2>2. CASE j + 1 = i
    <3>1. j \in DOMAIN s /\ r[j] = s[j]
      BY <1>1, <1>2, <2>2
    <3>2. link[s[j]] = s[i]
      BY <1>1, <1>6, <2>2, <3>1
    <3>3. l[s[j]] = Entry(s, i + 1)
      BY <1>1, <3>1, <3>2 DEF Bypasses
    <3>4. Entry(r, j + 1) = Entry(s, i + 1)
      BY <1>1, <1>2, <2>2 DEF Entry
    <3> QED
      BY <3>1, <3>3, <3>4
  <2>3. CASE j >= i
    <3>1. j + 1 \in DOMAIN s /\ r[j] = s[j + 1]
      BY <1>1, <1>2, <2>3
    <3>2. link[s[j + 1]] = Entry(s, j + 1 + 1) /\ Entry(s, j + 1 + 1) # s[i]
      <4>1. link[s[j + 1]] = Entry(s, j + 1 + 1)
        BY <1>1, <3>1
      <4>2. j + 1 + 1 # i
        BY <1>1, <2>3
      <4> QED
        BY <1>6, <3>1, <4>1, <4>2
    <3>3. l[s[j + 1]] = Entry(s, j + 1 + 1)
      BY <3>1, <3>2 DEF Bypasses
    <3>4. Entry(r, j + 1) = Entry(s, j + 1 + 1)
      BY <1>1, <1>2, <2>3, <3>1 DEF Entry
    <3> QED
      BY <3>1, <3>3, <3>4
  <2> QED
    BY <1>1, <2>1, <2>2, <2>3
<1>9. \A b : (\E j \in DOMAIN r : r[j] = b) <=> b # s[i] /\ \E j \in DOMAIN s : s[j] = b
  <2>1. ASSUME NEW j \in DOMAIN r
        PROVE  r[j] # s[i] /\ \E a \in DOMAIN s : s[a] = r[j]
    <3>1. PICK a \in 1 .. n : r[j] = s[a] /\ a # i
      BY <1>2, <1>4
    <3> QED
      BY <1>1, <3>1
  <2>2. ASSUME NEW a \in DOMAIN s, s[a] # s[i]
        PROVE  \E j \in DOMAIN r : r[j] = s[a]
    <3>1. CASE a < i
      <4>1. a \in 1 .. n - 1 /\ r[a] = s[a]
        BY <1>1, <1>2, <3>1
      <4> QED
        BY <1>2, <4>1
    <3>2. CASE a > i
      <4>1. a - 1 \in 1 .. n - 1 /\ ~(a - 1 < i) /\ (a - 1) + 1 = a
        BY <1>1, <3>2
      <4>2. r[a - 1] = s[a]
        BY <1>2, <4>1
      <4> QED
        BY <1>2, <4>1, <4>2
    <3> QED
      BY <1>1, <2>2, <3>1, <3>2
  <2> QED
    BY <2>1, <2>2
<1>10. Linked(l, r, HeadWithout(link, s, h, i))
  BY <1>2, <1>3, <1>5, <1>7, <1>8 DEF Linked
<1> QED
  BY <1>9, <1>10 DEF r

\* Uninstall
LEMMA UninstallKeeps ==
    ASSUME IInv, NEW t \in Threads, Uninstall(t)
    PROVE  IInv'
<1>0. PICK o : o = at[t].obj
  OBVIOUS
<1>1. PICK c \in handler_container(o, at[t].cb) :
         /\ IF head[o] = c
            THEN head' = [head EXCEPT ![o] = next[c]] /\ UNCHANGED next
            ELSE /\ next' = [p \in Cells |-> IF InList(o, p) /\ next[p] = c
                                             THEN next[c] ELSE next[p]]
                 /\ UNCHANGED head
         /\ at' = [at EXCEPT ![t].pc = "leave", ![t].cell = c]
  BY <1>0 DEF Uninstall
<1> DEFINE s == Handlers(o)
           x == [at[t] EXCEPT !.pc = "leave", !.cell = c]
<1>2. c \in Cells /\ InList(o, c)
  BY DEF handler_container
<1>3. /\ at[t].pc = "uninstalling" /\ at[t] \in Thread /\ at[t].pc \notin Installing
      /\ at[t].cell = None /\ o \in Objects
  BY <1>0 DEF IInv, Typed, ThreadsTyped, Thread, Uninstall, At, Installing
<1>4. /\ x \in Thread /\ x.obj = o /\ x.cell = c /\ x.pc = "leave"
  BY <1>0, <1>2, <1>3 DEF Thread, Places
<1>5. /\ at' = [at EXCEPT ![t] = x] /\ Quiescent
      /\ UNCHANGED <<notify_mutex, ns, callback, allocated, objects, work, calls, faults>>
  BY <1>1 DEF Uninstall, WorkCompleted
<1> HIDE DEF x
<1>6. Relinks(t, x)
  <2>1. x.pc \notin Installing
    BY <1>4 DEF Installing
  <2>2. Moves(t, x)
    BY <1>3, <1>4, <1>5, <2>1 DEF Moves
  <2> QED
    BY <1>0, <1>3, <1>4, <1>5, <2>2 DEF Relinks
<1>7. /\ Referred' /\ WorksFit' /\ WorksTyped' /\ LocksFit' /\ ThreadsTyped'
      /\ UnusedWorks' = UnusedWorks
      /\ \A u \in Threads : at'[u].pc \in Notifying => at[u].pc \in Notifying
      /\ Alive(o) /\ \A p \in Objects : Alive(p)' <=> Alive(p)
      /\ at'[t] = x /\ \A u \in Threads : u # t => at'[u] = at[u]
  BY <1>0, <1>6, RelinksKeep
<1>8. /\ head \in [Objects -> Cells \cup {None}] /\ next \in [Cells -> Cells \cup {None}]
      /\ allocated \subseteq Cells /\ callback' = callback /\ allocated' = allocated
  BY <1>5 DEF IInv, Typed, TypeOK
<1>9. ASSUME NEW p \in Objects, Alive(p)
      PROVE  /\ Linked(next, Handlers(p), head[p])
             /\ \A i \in DOMAIN Handlers(p) : Handlers(p)[i] \in allocated
             /\ \A i, j \in DOMAIN Handlers(p) :
                   i # j => callback[Handlers(p)[i]] # callback[Handlers(p)[j]]
  BY <1>9 DEF IInv, ListsFit
<1>10. PICK i \in DOMAIN s : s[i] = c
  BY <1>2 DEF InList
\* the list loses its entry, the others stay
<1>11. /\ Linked(next', Without(s, i), head'[o]) /\ Handlers(o)' = Without(s, i)
       /\ \A b : InList(o, b)' <=> b # c /\ InList(o, b)
  <2>1. Linked(next, s, head[o])
    BY <1>3, <1>7, <1>9
  <2>2. head'[o] = IF head[o] = c THEN next[c] ELSE head[o]
    BY <1>1, <1>3, <1>8
  <2>3. \A b : InList(o, b) <=> \E j \in DOMAIN s : s[j] = b
    BY DEF InList
  <2> HIDE DEF s
  <2>4. \A j \in DOMAIN s : next'[s[j]] = IF next[s[j]] = c THEN next[c] ELSE next[s[j]]
    <3> SUFFICES ASSUME NEW j \in DOMAIN s
                 PROVE  next'[s[j]] = IF next[s[j]] = c THEN next[c] ELSE next[s[j]]
      OBVIOUS
    <3>1. s[j] \in Cells /\ InList(o, s[j])
      BY <2>1, <2>3 DEF Linked
    <3>2. CASE head[o] = c
      <4>1. next' = next
        BY <1>1, <3>2
      <4>2. next[s[j]] # c
        <5>1. /\ Len(s) \in Nat /\ DOMAIN s = 1 .. Len(s) /\ head[o] = Entry(s, 1)
              /\ next[s[j]] = Entry(s, j + 1) /\ \A a, b \in DOMAIN s : s[a] = s[b] => a = b
          BY <2>1 DEF Linked
        <5>2. c # None
          BY <1>2, NamesAssumption
        <5> QED
          BY <3>2, <5>1, <5>2 DEF Entry
      <4> QED
        BY <4>1, <4>2
    <3>3. CASE head[o] # c
      BY <1>1, <3>1, <3>3
    <3> QED
      BY <3>2, <3>3
  <2>5. /\ Linked(next', Without(s, i), head'[o])
        /\ \A b : (\E j \in DOMAIN Without(s, i) : Without(s, i)[j] = b)
                     <=> b # c /\ \E j \in DOMAIN s : s[j] = b
    <3>1. Bypasses(next', next, s, i)
      BY <1>10, <2>4 DEF Bypasses
    <3>2. i \in DOMAIN s
      BY <1>10
    <3>3. /\ Linked(next', Without(s, i), HeadWithout(next, s, head[o], i))
          /\ \A b : (\E j \in DOMAIN Without(s, i) : Without(s, i)[j] = b)
                       <=> b # s[i] /\ \E j \in DOMAIN s : s[j] = b
      BY <2>1, <3>1, <3>2, TakeOut
    <3> QED
      BY <1>10, <2>2, <3>3 DEF HeadWithout
  <2>6. Handlers(o)' = Without(s, i)
    BY <2>5, HandlersThen
  <2>7. \A b : InList(o, b)' <=> \E j \in DOMAIN Without(s, i) : Without(s, i)[j] = b
    BY <2>6 DEF InList
  <2> QED
    BY <2>3, <2>5, <2>6, <2>7
<1>12. ASSUME NEW p \in Objects, Alive(p), p # o
       PROVE  /\ Linked(next', Handlers(p), head'[p]) /\ Handlers(p)' = Handlers(p)
              /\ \A b : InList(p, b)' <=> InList(p, b)
  <2>1. head'[p] = head[p]
    BY <1>1, <1>8, <1>12
  <2>2. \A j \in DOMAIN Handlers(p) : Handlers(p)[j] \in Cells /\ ~InList(o, Handlers(p)[j])
    BY <1>3, <1>7, <1>8, <1>9, <1>12 DEF IInv, ListsApart
  <2>3. \A j \in DOMAIN Handlers(p) : next'[Handlers(p)[j]] = next[Handlers(p)[j]]
    BY <1>1, <2>2
  <2> QED
    BY <1>9, <1>12, <2>1, <2>3, OtherList
<1>13. \A b : \A p \in Objects : Alive(p) => (InList(p, b)' <=> InList(p, b) /\ ~(p = o /\ b = c))
  BY <1>11, <1>12
<1>14. \A b : \A p, q \in Objects : Alive(p) /\ Alive(q) /\ p # q /\ InList(p, b) => ~InList(q, b)
  BY DEF IInv, ListsApart, InList
<1>15. \A b : \A p \in Objects, u \in Threads : Alive(p) /\ InList(p, b) => at[u].cell # b
  BY DEF IInv, ListsApart, InList
<1>16. ListsFit'
  <2> SUFFICES ASSUME NEW p \in Objects, Alive(p)
               PROVE  /\ Linked(next', Handlers(p)', head'[p])
                      /\ \A j, k \in DOMAIN Handlers(p)' :
                            /\ Handlers(p)'[j] \in allocated
                            /\ j # k => callback[Handlers(p)'[j]] # callback[Handlers(p)'[k]]
    BY <1>7, <1>8 DEF ListsFit
  <2>1. Linked(next', Handlers(p)', head'[p])
    BY <1>11, <1>12
  <2> PICK r : r = Handlers(p)'
    OBVIOUS
  <2>2. \A j, k \in DOMAIN r : r[j] = r[k] => j = k
    BY <2>1 DEF Linked
  <2>3. \A j \in DOMAIN r : InList(p, r[j])'
    BY DEF InList
  <2>4. \A j \in DOMAIN r : InList(p, r[j])
    BY <1>13, <2>3
  <2>5. \A a, b : InList(p, a) /\ InList(p, b) =>
           a \in allocated /\ (a # b => callback[a] # callback[b])
    BY <1>9 DEF InList
  <2> QED
    BY <2>1, <2>2, <2>4, <2>5
<1>17. ListsApart'
  <2> SUFFICES ASSUME NEW p \in Objects, Alive(p), NEW b, InList(p, b)'
               PROVE  /\ \A q \in Objects \ {p} : Alive(q) => ~InList(q, b)'
                      /\ \A u \in Threads : at'[u].cell # b
    BY <1>7 DEF ListsApart, InList
  <2>1. InList(p, b) /\ ~(p = o /\ b = c)
    BY <1>13
  <2>2. b # c
    BY <1>2, <1>3, <1>7, <1>14, <2>1
  <2>3. \A u \in Threads : at'[u].cell # b
    BY <1>4, <1>7, <1>15, <2>1, <2>2
  <2>4. \A q \in Objects \ {p} : Alive(q) => ~InList(q, b)'
    BY <1>13, <1>14, <2>1
  <2> QED
    BY <2>3, <2>4
<1>18. RemovedAllocated'
  <2>1. c \in allocated
    BY <1>3, <1>7, <1>9, <1>10
  <2> QED
    BY <1>4, <1>7, <1>8, <2>1 DEF IInv, RemovedAllocated
<1>19. NoneLost'
  <2> SUFFICES ASSUME NEW b \in allocated
               PROVE  \/ \E p \in Objects : Alive(p)' /\ InList(p, b)'
                      \/ \E u \in Threads : at'[u].cell = b
    BY <1>8 DEF NoneLost
  <2>1. CASE b = c
    BY <1>4, <1>7, <2>1
  <2>2. CASE b # c
    <3>1. CASE \E p \in Objects : Alive(p) /\ InList(p, b)
      BY <1>7, <1>13, <2>2, <3>1
    <3>2. CASE \E u \in Threads : at[u].cell = b
      <4>1. b # None
        BY <1>8, NamesAssumption
      <4> QED
        BY <1>3, <1>7, <3>2, <4>1
    <3> QED
      BY <3>1, <3>2 DEF IInv, NoneLost
  <2> QED
    BY <2>1, <2>2
<1>20. RoomLeft'
  <2>1. x.pc \notin Installing
    BY <1>4 DEF Installing
  <2>2. Claims' \subseteq Claims
    BY <1>7, <1>8, <2>1 DEF Claims
  <2>3. Cardinality(Claims') <= Cardinality(Cells)
    BY <2>2, RoomKept, ClaimsAre DEF IInv
  <2> QED
    BY <1>7, <2>3 DEF RoomLeft, IInv
<1>21. TypeOK'
  <2>1. head' \in [Objects -> Cells \cup {None}] /\ next' \in [Cells -> Cells \cup {None}]
    <3>1. CASE head[o] = c
      BY <1>1, <1>2, <1>8, <3>1
    <3>2. CASE head[o] # c
      BY <1>1, <1>2, <1>8, <3>2
    <3> QED
      BY <3>1, <3>2
  <2> QED
    BY <1>5, <2>1 DEF IInv, Typed, TypeOK, objects
<1> QED
  BY <1>7, <1>16, <1>17, <1>18, <1>19, <1>20, <1>21 DEF IInv, Typed

-----------------------------------------------------------------------------
(***************************************************************************)
(* The invariant holds.                                                    *)
(***************************************************************************)
\* Initially there are no handlers.
THEOREM InitIInv == Init => IInv
<1> SUFFICES ASSUME Init PROVE IInv
  OBVIOUS
<1>1. \A o \in Objects : Handlers(o) = <<>> /\ Linked(next, <<>>, head[o])
  <2> SUFFICES ASSUME NEW o \in Objects PROVE Handlers(o) = <<>> /\ Linked(next, <<>>, head[o])
    OBVIOUS
  <2>1. Linked(next, <<>>, head[o])
    BY DEF Linked, Entry, Init
  <2> QED
    BY <2>1, ChainIs DEF Handlers
<1>2. Typed
  <2>1. TypeOK
    BY BoundsAssumption DEF Init, TypeOK, NoWork
  <2>2. ThreadsTyped
    BY DEF Init, ThreadsTyped, Idle, Places, At, Installing
  <2>3. WorksTyped
    BY DEF Init, WorksTyped, NoWork, Running
  <2> QED
    BY <2>1, <2>2, <2>3 DEF Typed
<1>3. LocksFit
  BY DEF Init, LocksFit, Idle, Notifying
<1>4. ListsFit
  BY <1>1 DEF ListsFit
<1>5. ListsApart
  BY <1>1 DEF ListsApart
<1>6. RemovedAllocated /\ NoneLost
  BY DEF Init, RemovedAllocated, NoneLost, Idle
<1>7. Referred
  <2> SUFFICES ASSUME NEW d \in Devices PROVE Cardinality(Referrers(d)) <= refs[d]
    BY DEF Referred
  <2>1. d # None
    BY NamesAssumption DEF Objects
  <2>2. Referrers(d) \subseteq {None}
    BY <2>1, ReferrersAt DEF Init, Idle, NoWork, Running
  <2>3. IsFiniteSet({None}) /\ Cardinality({None}) = 1
    BY FS_Singleton
  <2>4. Cardinality(Referrers(d)) <= 1
    BY <2>2, <2>3, FS_Subset
  <2> QED
    BY <2>4 DEF Init
<1>8. RoomLeft
  <2>1. Claims = {}
    BY DEF Init, Claims, Idle, Installing
  <2>2. Cardinality(Claims) <= Cardinality(Cells)
    BY <2>1, FS_EmptySet, CellsCounted
  <2> QED
    BY <2>2 DEF RoomLeft, Init, Idle, Notifying
<1>9. WorksFit
  <2>1. \A w \in Works : work[w].state = "none"
    BY DEF Init, NoWork
  <2> QED
    BY <2>1, ProgressIs DEF WorksFit
<1> QED
  BY <1>2, <1>3, <1>4, <1>5, <1>6, <1>7, <1>8, <1>9 DEF IInv

\* What holds of the state holds when nothing changes.
LEMMA StutterKeeps == IInv /\ UNCHANGED vars => IInv'
<1> SUFFICES ASSUME IInv, UNCHANGED vars PROVE IInv'
  OBVIOUS
<1>0. /\ SameLists /\ allocated' = allocated /\ attached' = attached /\ refs' = refs
      /\ work' = work /\ at' = at /\ notify_mutex' = notify_mutex /\ ns' = ns
      /\ calls' = calls /\ faults' = faults
  BY DEF vars, lists, objects, SameLists
<1>1. ListsInv'
  <2>1. CellsStay
    BY <1>0 DEF CellsStay, Alive
  <2> QED
    BY <2>1, CellsStayKeeps DEF ListsInv, IInv
<1>2. WorksFit'
  BY <1>0, ProgressSame DEF WorksFit, IInv
<1>3. Referred' /\ RoomLeft'
  BY <1>0 DEF Referred, Referrers, RoomLeft, Claims, UnusedWorks, IInv
<1>4. Typed'
  BY <1>0 DEF Typed, TypeOK, ThreadsTyped, WorksTyped, At, SameLists, IInv
<1>5. LocksFit'
  BY <1>0 DEF LocksFit, IInv
<1> QED
  BY <1>1, <1>2, <1>3, <1>4, <1>5 DEF IInv, ListsInv

\* Every step keeps it.
THEOREM NextIInv == IInv /\ [Next]_vars => IInv'
<1> SUFFICES ASSUME IInv, [Next]_vars PROVE IInv'
  OBVIOUS
<1>1. ASSUME NEW t \in Threads, NEW o \in Objects, NEW cb \in Callbacks, CallInstall(t, o, cb)
      PROVE  IInv'
  BY <1>1, CallKeeps DEF CallInstall
<1>2. ASSUME NEW t \in Threads, NEW o \in Objects, NEW cb \in Callbacks, CallUninstall(t, o, cb)
      PROVE  IInv'
  <2>1. "uninstall" = "install" => FALSE
    OBVIOUS
  <2> QED
    BY <1>2, <2>1, CallKeeps DEF CallUninstall
<1>3. ASSUME NEW t \in Threads, NEW d \in Devices, CallNotify(t, d)
      PROVE  IInv'
  BY <1>3, CallNotifyKeeps
<1>4. ASSUME NEW t \in Threads, LockMutex(t)
      PROVE  IInv'
  BY <1>4, LockMutexKeeps
<1>5. ASSUME NEW t \in Threads, Install(t)
      PROVE  IInv'
  BY <1>5, InstallKeeps
<1>6. ASSUME NEW t \in Threads, InstallExists(t) \/ UninstallMissing(t)
      PROVE  IInv'
  BY <1>6, MissingKeeps
<1>7. ASSUME NEW t \in Threads, Uninstall(t)
      PROVE  IInv'
  BY <1>7, UninstallKeeps
<1>8. ASSUME NEW t \in Threads, Leave(t)
      PROVE  IInv'
  <2>1. /\ at[t].pc = "leave" /\ notify_mutex = t /\ faults \in 0 .. MaxFaults
    BY <1>8 DEF Leave, At, IInv, LocksFit, Typed, TypeOK
  <2>2. ~At(t, "idle") /\ at[t].pc \notin Notifying
    BY <2>1 DEF At, Notifying
  <2>3. /\ Unref(at[t].obj, {at[t].cell}) /\ Return(t) /\ notify_mutex' = None /\ faults' = faults
        /\ UNCHANGED <<ns, head, next, callback, attached, work, calls>>
    BY <1>8 DEF Leave
  <2> QED
    BY <2>1, <2>2, <2>3, LeaveKeeps
<1>9. ASSUME NEW t \in Threads, Schedule(t)
      PROVE  IInv'
  BY <1>9, ScheduleKeeps
<1>10. ASSUME NEW t \in Threads, NotScheduled(t)
       PROVE  IInv'
  <2>1. /\ at[t].pc = "notifying" /\ notify_mutex = t /\ ns = t
    BY <1>10 DEF NotScheduled, At, IInv, LocksFit, Notifying
  <2>2. /\ Return(t) /\ notify_mutex' = None /\ ns' = None
        /\ UNCHANGED <<lists, objects, work, calls>>
    BY <1>10 DEF NotScheduled, FinishNotify
  <2>3. faults' \in 0 .. MaxFaults
    BY <1>10, BoundsAssumption DEF NotScheduled, IInv, Typed, TypeOK
  <2>4. At(t, "leave") => FALSE
    BY <2>1 DEF At
  <2> QED
    BY <2>1, <2>2, <2>3, <2>4, ReturnKeeps
<1>11. ASSUME NEW t \in Threads, LockMutexFails(t)
       PROVE  IInv'
  BY <1>11, LockMutexFailsKeeps
<1>12. ASSUME NEW t \in Threads, InstallOutOfMemory(t)
       PROVE  IInv'
  <2>1. /\ Return(t) /\ UNCHANGED <<lists, objects, work, calls>> /\ faults' = faults
        /\ notify_mutex' = notify_mutex /\ ns' = ns /\ at[t].pc = "installing"
    BY <1>12 DEF InstallOutOfMemory, At
  <2>2. faults' \in 0 .. MaxFaults /\ (At(t, "leave") => FALSE)
    BY <2>1 DEF IInv, Typed, TypeOK, At
  <2> QED
    BY <2>1, <2>2, ReturnKeeps
<1>13. ASSUME NEW w \in Works, RunWork(w)
       PROVE  IInv'
  BY <1>13, BeginWorkKeeps, CallHandlerKeeps, TurnToRootKeeps, EndWorkKeeps DEF RunWork
<1>14. ASSUME NEW d \in Devices, RemoveDevice(d)
       PROVE  IInv'
  BY <1>14, RemoveDeviceKeeps
<1>15. CASE UNCHANGED vars
  BY <1>15, StutterKeeps
<1> QED
  BY <1>1, <1>2, <1>3, <1>4, <1>5, <1>6, <1>7, <1>8, <1>9, <1>10, <1>11, <1>12, <1>13,
     <1>14, <1>15 DEF Next, Proceed

\* IInv holds in all reachable states.
THEOREM Invariance == Spec => []IInv
BY InitIInv, NextIInv, PTL DEF Spec

-----------------------------------------------------------------------------
(***************************************************************************)
(* What it says of the handlers.                                           *)
(***************************************************************************)
\* HandlersSound: the lists stay whole, no handler is lost, and a work stands
\* on live handlers of live objects.
THEOREM HandlersWhole == Spec => []HandlersSound
<1>1. IInv => HandlersSound
  <2> SUFFICES ASSUME IInv PROVE HandlersSound
    OBVIOUS
  <2>1. ListsSound
    <3> SUFFICES ASSUME NEW o \in Objects, Alive(o),
                        NEW i \in DOMAIN Handlers(o), NEW j \in DOMAIN Handlers(o)
                 PROVE  /\ Handlers(o)[i] \in allocated
                        /\ i # j => CallbacksOf(o)[i] # CallbacksOf(o)[j]
      BY DEF ListsSound
    <3>1. /\ CallbacksOf(o)[i] = callback[Handlers(o)[i]]
          /\ CallbacksOf(o)[j] = callback[Handlers(o)[j]]
      BY DEF CallbacksOf
    <3> QED
      BY <3>1 DEF IInv, ListsFit
  <2>2. WorkOnLiveHandlers
    <3> SUFFICES ASSUME NEW w \in Works, work[w].state \in Running
                 PROVE  /\ Alive(work[w].obj)
                        /\ work[w].ptr # None =>
                              /\ work[w].ptr \in allocated
                              /\ InList(IF work[w].state = "root" THEN Root ELSE work[w].obj,
                                        work[w].ptr)
      BY DEF WorkOnLiveHandlers, Running
    <3>1. work[w].obj \in Objects /\ Alive(work[w].obj) /\ Root \in Objects /\ Alive(Root)
      BY WorkAlive DEF Objects, Alive
    <3>2. \A i : \A o \in Objects : Alive(o) /\ Entry(Handlers(o), i) # None =>
             Entry(Handlers(o), i) \in allocated /\ InList(o, Entry(Handlers(o), i))
      BY DEF IInv, ListsFit, InList, Entry
    <3>3. CASE work[w].state = "queued"
      BY <3>1, <3>3, ProgressIs DEF IInv, WorksFit
    <3>4. CASE work[w].state = "device"
      <4>1. \E i : work[w].ptr = Entry(Handlers(work[w].obj), i)
        BY <3>4, ProgressIs DEF IInv, WorksFit
      <4> QED
        BY <3>1, <3>2, <3>4, <4>1
    <3>5. CASE work[w].state = "root"
      <4>1. \E i : work[w].ptr = Entry(Handlers(Root), i)
        BY <3>5, ProgressIs DEF IInv, WorksFit
      <4> QED
        BY <3>1, <3>2, <3>5, <4>1
    <3> QED
      BY <3>3, <3>4, <3>5 DEF Running
  <2> QED
    BY <2>1, <2>2 DEF HandlersSound, IInv, Typed
<1> QED
  BY <1>1, Invariance, PTL

\* DeliveredExactly: accepted work calls what was installed when AML executed
\* Notify, on the device and then on the root, in order.
THEOREM Delivered == Spec => []DeliveredExactly
<1>1. IInv => DeliveredExactly
  BY ProgressIs DEF IInv, WorksFit, DeliveredExactly
<1> QED
  BY <1>1, Invariance, PTL
=============================================================================
