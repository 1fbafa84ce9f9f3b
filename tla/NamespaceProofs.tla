-------------------------- MODULE NamespaceProofs --------------------------
(***************************************************************************)
(* Proofs about the reader-writer lock of the namespace, for any finite    *)
(* set of threads and any number of host failures, and about Namespace's   *)
(* use of it, for any nodes, names and walks.                              *)
(***************************************************************************)
EXTENDS Namespace, FiniteSetTheorems, TLAPS

(***************************************************************************)
(* RwLock.  The inductive invariant is IInv of module RwLock; the two      *)
(* lemmas reduce what a step does to the three sets of threads the         *)
(* invariant speaks of, and to the size of the counted one.                *)
(***************************************************************************)
\* Moving thread t to place p changes the sets of threads by t alone.
Moved(t, p) ==
    /\ pc' \in [Threads -> Places]
    /\ pc'[t] = p
    /\ \A u \in Threads : u # t => pc'[u] = pc[u]
    /\ Counted' = IF p \in CountedPlaces THEN Counted \cup {t} ELSE Counted \ {t}
    /\ Sharing' = IF p \in CountedPlaces \ {"first_in"}
                  THEN Sharing \cup {t} ELSE Sharing \ {t}
    /\ Writers' = IF p = "writing" THEN Writers \cup {t} ELSE Writers \ {t}

\* Every step of a thread is such a move.
LEMMA Move ==
    ASSUME pc \in [Threads -> Places], NEW t \in Threads, NEW p \in Places,
           Goto(t, p)
    PROVE  Moved(t, p)
<1>1. /\ pc' \in [Threads -> Places]
      /\ pc'[t] = p
      /\ \A u \in Threads : u # t => pc'[u] = pc[u]
  BY DEF Goto
<1>2. Counted' = IF p \in CountedPlaces THEN Counted \cup {t} ELSE Counted \ {t}
  BY <1>1 DEF Counted
<1>3. Sharing' = IF p \in CountedPlaces \ {"first_in"}
                 THEN Sharing \cup {t} ELSE Sharing \ {t}
  BY <1>1 DEF Sharing
<1>4. Writers' = IF p = "writing" THEN Writers \cup {t} ELSE Writers \ {t}
  BY <1>1 DEF Writers
<1> QED
  BY <1>1, <1>2, <1>3, <1>4 DEF Moved

\* The set of counted threads is finite, is empty exactly at size 0, and
\* grows and shrinks by one with one thread.
LEMMA Count ==
    /\ IsFiniteSet(Counted)
    /\ Cardinality(Counted) \in Nat
    /\ Cardinality(Counted) = 0 <=> Counted = {}
    /\ \A t : t \notin Counted => Cardinality(Counted \cup {t}) = Cardinality(Counted) + 1
    /\ \A t : t \in Counted => Cardinality(Counted \ {t}) = Cardinality(Counted) - 1
    /\ \A t : t \in Counted /\ Cardinality(Counted) = 1 => Counted = {t}
<1>1. IsFiniteSet(Counted)
  BY ThreadsAssumption, FS_Subset DEF Counted
<1>2. Cardinality(Counted) \in Nat
  BY <1>1, FS_CardinalityType
<1>3. Cardinality(Counted) = 0 <=> Counted = {}
  BY <1>1, FS_EmptySet
<1>4. ASSUME NEW t, t \notin Counted
      PROVE  Cardinality(Counted \cup {t}) = Cardinality(Counted) + 1
  BY <1>1, <1>4, FS_AddElement
<1>5. ASSUME NEW t, t \in Counted
      PROVE  Cardinality(Counted \ {t}) = Cardinality(Counted) - 1
  BY <1>1, <1>5, FS_RemoveElement
<1>6. ASSUME NEW t, t \in Counted, Cardinality(Counted) = 1
      PROVE  Counted = {t}
  BY <1>1, <1>6, FS_Singleton
<1> QED
  BY <1>1, <1>2, <1>3, <1>4, <1>5, <1>6

\* The inductive invariant holds in a lock that has not been created yet.
THEOREM InitIInv == Init => IInv
<1> SUFFICES ASSUME Init PROVE IInv
  OBVIOUS
<1>0. \A t \in Threads : pc[t] = "idle"
  BY DEF Init
<1>1. Counted = {} /\ Sharing = {} /\ Writers = {}
  <2>1. \A t \in Threads : pc[t] \notin CountedPlaces /\ pc[t] # "writing"
    BY <1>0 DEF CountedPlaces
  <2> QED
    BY <2>1 DEF Counted, Sharing, Writers
<1>2. CountExact
  BY <1>1, FS_EmptySet DEF Init, CountExact
<1>3. TypeOK
  <2>1. pc \in [Threads -> Places]
    BY DEF Init, Places
  <2> QED
    <3>1. faults \in 0 .. MaxFaults /\ leaked \in Nat /\ num_readers \in Nat
      BY FaultsAssumption DEF Init
    <3>2. live \in BOOLEAN /\ write_mutex \in BOOLEAN
      BY Zenon DEF Init
    <3>3. read_mutex \in Threads \cup {NoThread}
      BY DEF Init
    <3> QED
      BY <2>1, <3>1, <3>2, <3>3 DEF TypeOK
<1> QED
  BY <1>0, <1>1, <1>2, <1>3, ThreadsAssumption
  DEF Init, IInv, NoCircularWait, HolderInside, HoldingPlaces, WriterHolds,
      ReadersHold, HeldForSomebody, DeadIsFree

\* Every step preserves the inductive invariant.
THEOREM NextIInv == IInv /\ [Next]_vars => IInv'
<1> SUFFICES ASSUME IInv, [Next]_vars PROVE IInv'
  OBVIOUS
<1> USE DEF IInv
<1>c. /\ Count!1 /\ Count!2 /\ Count!3 /\ Count!4 /\ Count!5 /\ Count!6
  BY Count
<1>t. \A t \in Threads : t \in Counted <=> pc[t] \in CountedPlaces
  BY DEF Counted
<1>s. \A t \in Threads : t \in Sharing <=> pc[t] \in CountedPlaces \ {"first_in"}
  BY DEF Sharing
<1>w. \A t \in Threads : t \in Writers <=> pc[t] = "writing"
  BY DEF Writers
<1>1. CASE UNCHANGED vars
  BY <1>1 DEF vars, TypeOK, CountExact, Counted, NoCircularWait, HolderInside,
              WriterHolds, Writers, Sharing, ReadersHold, HeldForSomebody, DeadIsFree
<1>2. CASE uacpi_rw_lock_init \/ uacpi_rw_lock_deinit
  <2>1. Counted' = {} /\ Sharing' = {} /\ Writers' = {}
    <3>1. \A t \in Threads : pc'[t] = "idle"
      BY <1>2 DEF uacpi_rw_lock_init, uacpi_rw_lock_deinit, Quiet
    <3>2. \A t \in Threads : pc'[t] \notin CountedPlaces /\ pc'[t] # "writing"
      BY <3>1 DEF CountedPlaces
    <3> QED
      BY <3>2 DEF Counted, Sharing, Writers
  <2>2. TypeOK' /\ num_readers' = 0
    <3>1. live' \in BOOLEAN /\ write_mutex' \in BOOLEAN
      BY <1>2, Zenon DEF uacpi_rw_lock_init, uacpi_rw_lock_deinit
    <3> QED
      BY <1>2, <3>1 DEF uacpi_rw_lock_init, uacpi_rw_lock_deinit, TypeOK
  <2>3. leaked' = 0
    <3>1. CASE uacpi_rw_lock_deinit
      BY <3>1 DEF uacpi_rw_lock_deinit
    <3>2. CASE uacpi_rw_lock_init
      BY <3>2 DEF uacpi_rw_lock_init, DeadIsFree
    <3> QED
      BY <1>2, <3>1, <3>2
  <2>4. CountExact'
    BY <2>1, <2>2, <2>3, FS_EmptySet DEF CountExact
  <2>5. \A t \in Threads : pc'[t] = "idle"
    BY <1>2 DEF uacpi_rw_lock_init, uacpi_rw_lock_deinit, Quiet
  <2>6. read_mutex' = NoThread /\ write_mutex' = FALSE
    BY <1>2 DEF uacpi_rw_lock_init, uacpi_rw_lock_deinit
  <2> QED
    BY <2>1, <2>2, <2>3, <2>4, <2>5, <2>6, ThreadsAssumption
    DEF NoCircularWait, HolderInside, HoldingPlaces, WriterHolds, ReadersHold,
        HeldForSomebody, DeadIsFree
<1>3. ASSUME NEW t \in Threads, CallLockRead(t) PROVE IInv'
  <2> DEFINE p == "lock_read"
  <2>1. Moved(t, p)
    BY <1>3, Move DEF CallLockRead, Places, TypeOK
  <2>2. TypeOK'
    BY <1>3, <2>1 DEF CallLockRead, TypeOK, Moved
  <2>3. CountExact'
    BY <1>3, <2>1, <1>c, <1>t
    DEF CallLockRead, TypeOK, Moved, CountExact, CountedPlaces
  <2>4. HolderInside' /\ DeadIsFree'
    BY <1>3, <2>1, ThreadsAssumption
    DEF CallLockRead, TypeOK, Moved, HolderInside, HoldingPlaces, DeadIsFree
  <2>5. NoCircularWait'
    BY <1>3, <2>1, <1>t
    DEF CallLockRead, TypeOK, Moved, NoCircularWait, HolderInside,
        HoldingPlaces, CountedPlaces
  <2>6. WriterHolds'
    BY <1>3, <2>1, <1>s, <1>w
    DEF CallLockRead, TypeOK, Moved, WriterHolds, ReadersHold, CountedPlaces
  <2>7. ReadersHold' /\ HeldForSomebody'
    BY <1>3, <2>1, <1>s, <1>w
    DEF CallLockRead, TypeOK, Moved, WriterHolds, ReadersHold,
        HeldForSomebody, CountedPlaces
  <2> QED
    BY <2>2, <2>3, <2>4, <2>5, <2>6, <2>7
<1>4. ASSUME NEW t \in Threads, LockReadEnter(t) PROVE IInv'
  <2> DEFINE p == "count_in"
  <2>1. Moved(t, p)
    BY <1>4, Move DEF LockReadEnter, Places, TypeOK
  <2>2. TypeOK'
    BY <1>4, <2>1 DEF LockReadEnter, AcquireReadMutex, TypeOK, Moved
  <2>3. CountExact'
    BY <1>4, <2>1, <1>c, <1>t
    DEF LockReadEnter, AcquireReadMutex, TypeOK, Moved, CountExact,
        CountedPlaces
  <2>4. HolderInside' /\ DeadIsFree'
    BY <1>4, <2>1, ThreadsAssumption
    DEF LockReadEnter, AcquireReadMutex, TypeOK, Moved, HolderInside,
        HoldingPlaces, DeadIsFree
  <2>5. NoCircularWait'
    BY <1>4, <2>1, <1>t
    DEF LockReadEnter, AcquireReadMutex, TypeOK, Moved, NoCircularWait,
        HolderInside, HoldingPlaces, CountedPlaces
  <2>6. WriterHolds'
    BY <1>4, <2>1, <1>s, <1>w
    DEF LockReadEnter, AcquireReadMutex, TypeOK, Moved, WriterHolds,
        ReadersHold, CountedPlaces
  <2>7. ReadersHold' /\ HeldForSomebody'
    BY <1>4, <2>1, <1>s, <1>w
    DEF LockReadEnter, AcquireReadMutex, TypeOK, Moved, WriterHolds,
        ReadersHold, HeldForSomebody, CountedPlaces
  <2> QED
    BY <2>2, <2>3, <2>4, <2>5, <2>6, <2>7
<1>5. ASSUME NEW t \in Threads, LockReadFails(t) PROVE IInv'
  <2> DEFINE p == "idle"
  <2>1. Moved(t, p)
    BY <1>5, Move DEF LockReadFails, Places, TypeOK
  <2>2. TypeOK'
    BY <1>5, <2>1, FaultsAssumption DEF LockReadFails, HostError, TypeOK, Moved
  <2>3. CountExact'
    BY <1>5, <2>1, <1>c, <1>t
    DEF LockReadFails, HostError, TypeOK, Moved, CountExact, CountedPlaces
  <2>4. HolderInside' /\ DeadIsFree'
    BY <1>5, <2>1, ThreadsAssumption
    DEF LockReadFails, HostError, TypeOK, Moved, HolderInside, HoldingPlaces,
        DeadIsFree
  <2>5. NoCircularWait'
    BY <1>5, <2>1, <1>t
    DEF LockReadFails, HostError, TypeOK, Moved, NoCircularWait, HolderInside,
        HoldingPlaces, CountedPlaces
  <2>6. WriterHolds'
    BY <1>5, <2>1, <1>s, <1>w
    DEF LockReadFails, HostError, TypeOK, Moved, WriterHolds, ReadersHold,
        CountedPlaces
  <2>7. ReadersHold' /\ HeldForSomebody'
    BY <1>5, <2>1, <1>s, <1>w
    DEF LockReadFails, HostError, TypeOK, Moved, WriterHolds, ReadersHold,
        HeldForSomebody, CountedPlaces
  <2> QED
    BY <2>2, <2>3, <2>4, <2>5, <2>6, <2>7
<1>6. ASSUME NEW t \in Threads, LockReadCount(t) PROVE IInv'
  <2> DEFINE p == (IF num_readers = 0 THEN "first_in" ELSE "exit_in")
  <2>1. Moved(t, p)
    BY <1>6, Move DEF LockReadCount, Places, TypeOK
  <2>2. TypeOK'
    BY <1>6, <2>1 DEF LockReadCount, TypeOK, Moved
  <2>3. CountExact'
    BY <1>6, <2>1, <1>c, <1>t
    DEF LockReadCount, TypeOK, Moved, CountExact, CountedPlaces
  <2>4. HolderInside' /\ DeadIsFree'
    BY <1>6, <2>1, ThreadsAssumption
    DEF LockReadCount, TypeOK, Moved, HolderInside, HoldingPlaces, DeadIsFree
  <2>a. \A u \in Threads : pc[u] # "first_in"
    BY <1>6 DEF LockReadCount, HolderInside, HoldingPlaces
  <2>b. Counted = Sharing
    BY <2>a DEF Counted, Sharing
  <2>c. IF num_readers = 0 THEN Counted = {} /\ leaked = 0
                           ELSE Sharing # {} \/ leaked > 0
    BY <1>c, <2>b DEF CountExact, TypeOK
  <2>5. NoCircularWait'
    BY <1>6, <2>1, <2>a, <2>c
    DEF LockReadCount, Moved, NoCircularWait, CountedPlaces
  <2>6. WriterHolds'
    BY <1>6, <2>1, <2>b, <2>c
    DEF LockReadCount, TypeOK, Moved, WriterHolds, CountedPlaces
  <2>7. ReadersHold' /\ HeldForSomebody'
    BY <1>6, <2>1, <2>b, <2>c, <1>w
    DEF LockReadCount, TypeOK, Moved, ReadersHold, HeldForSomebody,
        CountedPlaces
  <2> QED
    BY <2>2, <2>3, <2>4, <2>5, <2>6, <2>7
<1>7. ASSUME NEW t \in Threads, LockReadFirst(t) PROVE IInv'
  <2> DEFINE p == "exit_in"
  <2>1. Moved(t, p)
    BY <1>7, Move DEF LockReadFirst, Places, TypeOK
  <2>2. TypeOK'
    BY <1>7, <2>1 DEF LockReadFirst, AcquireWriteMutex, TypeOK, Moved
  <2>3. CountExact'
    BY <1>7, <2>1, <1>c, <1>t
    DEF LockReadFirst, AcquireWriteMutex, TypeOK, Moved, CountExact,
        CountedPlaces
  <2>4. HolderInside' /\ DeadIsFree'
    BY <1>7, <2>1, ThreadsAssumption
    DEF LockReadFirst, AcquireWriteMutex, TypeOK, Moved, HolderInside,
        HoldingPlaces, DeadIsFree
  <2>5. NoCircularWait'
    BY <1>7, <2>1, <1>t
    DEF LockReadFirst, AcquireWriteMutex, TypeOK, Moved, NoCircularWait,
        HolderInside, HoldingPlaces, CountedPlaces
  <2>6. WriterHolds'
    BY <1>7, <2>1, <1>s, <1>w
    DEF LockReadFirst, AcquireWriteMutex, TypeOK, Moved, WriterHolds,
        ReadersHold, CountedPlaces
  <2>7. ReadersHold' /\ HeldForSomebody'
    BY <1>7, <2>1, <1>s, <1>w
    DEF LockReadFirst, AcquireWriteMutex, TypeOK, Moved, WriterHolds,
        ReadersHold, HeldForSomebody, CountedPlaces
  <2> QED
    BY <2>2, <2>3, <2>4, <2>5, <2>6, <2>7
<1>8. ASSUME NEW t \in Threads, LockReadFirstFails(t) PROVE IInv'
  <2> DEFINE p == "idle"
  <2>1. Moved(t, p)
    BY <1>8, Move DEF LockReadFirstFails, Places, TypeOK
  <2>2. TypeOK'
    BY <1>8, <2>1, FaultsAssumption
    DEF LockReadFirstFails, HostError, ReleaseReadMutex, TypeOK, Moved
  <2>3. CountExact'
    <3>1. Counted = {t} /\ leaked = 0
      BY <1>8 DEF LockReadFirstFails, NoCircularWait
    <3>2. Counted' = {}
      BY <2>1, <3>1 DEF Moved, CountedPlaces
    <3> QED
      BY <1>8, <3>1, <3>2, FS_EmptySet DEF LockReadFirstFails, CountExact
  <2>4. HolderInside' /\ DeadIsFree'
    BY <1>8, <2>1, ThreadsAssumption
    DEF LockReadFirstFails, HostError, ReleaseReadMutex, TypeOK, Moved,
        HolderInside, HoldingPlaces, DeadIsFree
  <2>5. NoCircularWait'
    BY <1>8, <2>1, <1>t
    DEF LockReadFirstFails, HostError, ReleaseReadMutex, TypeOK, Moved,
        NoCircularWait, HolderInside, HoldingPlaces, CountedPlaces
  <2>6. WriterHolds'
    BY <1>8, <2>1, <1>s, <1>w
    DEF LockReadFirstFails, HostError, ReleaseReadMutex, TypeOK, Moved,
        WriterHolds, ReadersHold, CountedPlaces
  <2>7. ReadersHold' /\ HeldForSomebody'
    BY <1>8, <2>1, <1>s, <1>w
    DEF LockReadFirstFails, HostError, ReleaseReadMutex, TypeOK, Moved,
        WriterHolds, ReadersHold, HeldForSomebody, CountedPlaces
  <2> QED
    BY <2>2, <2>3, <2>4, <2>5, <2>6, <2>7
<1>9. ASSUME NEW t \in Threads, LockReadExit(t) PROVE IInv'
  <2> DEFINE p == "reading"
  <2>1. Moved(t, p)
    BY <1>9, Move DEF LockReadExit, Places, TypeOK
  <2>2. TypeOK'
    BY <1>9, <2>1 DEF LockReadExit, ReleaseReadMutex, TypeOK, Moved
  <2>3. CountExact'
    BY <1>9, <2>1, <1>c, <1>t
    DEF LockReadExit, ReleaseReadMutex, TypeOK, Moved, CountExact,
        CountedPlaces
  <2>4. HolderInside' /\ DeadIsFree'
    BY <1>9, <2>1, ThreadsAssumption
    DEF LockReadExit, ReleaseReadMutex, TypeOK, Moved, HolderInside,
        HoldingPlaces, DeadIsFree
  <2>5. NoCircularWait'
    BY <1>9, <2>1, <1>t
    DEF LockReadExit, ReleaseReadMutex, TypeOK, Moved, NoCircularWait,
        HolderInside, HoldingPlaces, CountedPlaces
  <2>6. WriterHolds'
    BY <1>9, <2>1, <1>s, <1>w
    DEF LockReadExit, ReleaseReadMutex, TypeOK, Moved, WriterHolds,
        ReadersHold, CountedPlaces
  <2>7. ReadersHold' /\ HeldForSomebody'
    BY <1>9, <2>1, <1>s, <1>w
    DEF LockReadExit, ReleaseReadMutex, TypeOK, Moved, WriterHolds,
        ReadersHold, HeldForSomebody, CountedPlaces
  <2> QED
    BY <2>2, <2>3, <2>4, <2>5, <2>6, <2>7
<1>10. ASSUME NEW t \in Threads, CallUnlockRead(t) PROVE IInv'
  <2> DEFINE p == "unlock_read"
  <2>1. Moved(t, p)
    BY <1>10, Move DEF CallUnlockRead, Places, TypeOK
  <2>2. TypeOK'
    BY <1>10, <2>1 DEF CallUnlockRead, TypeOK, Moved
  <2>3. CountExact'
    BY <1>10, <2>1, <1>c, <1>t
    DEF CallUnlockRead, TypeOK, Moved, CountExact, CountedPlaces
  <2>4. HolderInside' /\ DeadIsFree'
    BY <1>10, <2>1, ThreadsAssumption
    DEF CallUnlockRead, TypeOK, Moved, HolderInside, HoldingPlaces, DeadIsFree
  <2>5. NoCircularWait'
    BY <1>10, <2>1, <1>t
    DEF CallUnlockRead, TypeOK, Moved, NoCircularWait, HolderInside,
        HoldingPlaces, CountedPlaces
  <2>6. WriterHolds'
    BY <1>10, <2>1, <1>s, <1>w
    DEF CallUnlockRead, TypeOK, Moved, WriterHolds, ReadersHold, CountedPlaces
  <2>7. ReadersHold' /\ HeldForSomebody'
    BY <1>10, <2>1, <1>s, <1>w
    DEF CallUnlockRead, TypeOK, Moved, WriterHolds, ReadersHold,
        HeldForSomebody, CountedPlaces
  <2> QED
    BY <2>2, <2>3, <2>4, <2>5, <2>6, <2>7
<1>11. ASSUME NEW t \in Threads, UnlockReadEnter(t) PROVE IInv'
  <2> DEFINE p == "count_out"
  <2>1. Moved(t, p)
    BY <1>11, Move DEF UnlockReadEnter, Places, TypeOK
  <2>2. TypeOK'
    BY <1>11, <2>1 DEF UnlockReadEnter, AcquireReadMutex, TypeOK, Moved
  <2>3. CountExact'
    BY <1>11, <2>1, <1>c, <1>t
    DEF UnlockReadEnter, AcquireReadMutex, TypeOK, Moved, CountExact,
        CountedPlaces
  <2>4. HolderInside' /\ DeadIsFree'
    BY <1>11, <2>1, ThreadsAssumption
    DEF UnlockReadEnter, AcquireReadMutex, TypeOK, Moved, HolderInside,
        HoldingPlaces, DeadIsFree
  <2>5. NoCircularWait'
    BY <1>11, <2>1, <1>t
    DEF UnlockReadEnter, AcquireReadMutex, TypeOK, Moved, NoCircularWait,
        HolderInside, HoldingPlaces, CountedPlaces
  <2>6. WriterHolds'
    BY <1>11, <2>1, <1>s, <1>w
    DEF UnlockReadEnter, AcquireReadMutex, TypeOK, Moved, WriterHolds,
        ReadersHold, CountedPlaces
  <2>7. ReadersHold' /\ HeldForSomebody'
    BY <1>11, <2>1, <1>s, <1>w
    DEF UnlockReadEnter, AcquireReadMutex, TypeOK, Moved, WriterHolds,
        ReadersHold, HeldForSomebody, CountedPlaces
  <2> QED
    BY <2>2, <2>3, <2>4, <2>5, <2>6, <2>7
<1>12. ASSUME NEW t \in Threads, UnlockReadFails(t) PROVE IInv'
  <2> DEFINE p == "idle"
  <2>1. Moved(t, p)
    BY <1>12, Move DEF UnlockReadFails, Places, TypeOK
  <2>2. TypeOK'
    BY <1>12, <2>1, FaultsAssumption
    DEF UnlockReadFails, HostError, TypeOK, Moved
  <2>3. CountExact'
    BY <1>12, <2>1, <1>c, <1>t
    DEF UnlockReadFails, HostError, TypeOK, Moved, CountExact, CountedPlaces
  <2>4. HolderInside' /\ DeadIsFree'
    BY <1>12, <2>1, ThreadsAssumption
    DEF UnlockReadFails, HostError, TypeOK, Moved, HolderInside,
        HoldingPlaces, DeadIsFree
  <2>5. NoCircularWait'
    BY <1>12, <2>1, <1>t
    DEF UnlockReadFails, HostError, TypeOK, Moved, NoCircularWait,
        HolderInside, HoldingPlaces, CountedPlaces
  <2>6. WriterHolds'
    BY <1>12, <2>1, <1>s, <1>w
    DEF UnlockReadFails, HostError, TypeOK, Moved, WriterHolds, ReadersHold,
        CountedPlaces
  <2>7. ReadersHold' /\ HeldForSomebody'
    BY <1>12, <2>1, <1>s, <1>w
    DEF UnlockReadFails, HostError, TypeOK, Moved, WriterHolds, ReadersHold,
        HeldForSomebody, CountedPlaces
  <2> QED
    BY <2>2, <2>3, <2>4, <2>5, <2>6, <2>7
<1>13. ASSUME NEW t \in Threads, UnlockReadCount(t) PROVE IInv'
  <2> DEFINE p == "exit_out"
  <2>1. Moved(t, p)
    BY <1>13, Move DEF UnlockReadCount, Places, TypeOK
  <2>0. t \in Counted /\ num_readers >= 1
    BY <1>13, <1>c, <1>t DEF UnlockReadCount, CountedPlaces, CountExact, TypeOK
  <2>2. TypeOK'
    <3>1. num_readers' \in Nat
      BY <1>13, <2>0 DEF UnlockReadCount, TypeOK
    <3>2. write_mutex' \in BOOLEAN
      BY <1>13, Zenon DEF UnlockReadCount, ReleaseWriteMutex, TypeOK
    <3> QED
      BY <1>13, <2>1, <3>1, <3>2 DEF UnlockReadCount, TypeOK, Moved
  <2>3. CountExact'
    BY <1>13, <2>1, <1>c, <1>t
    DEF UnlockReadCount, ReleaseWriteMutex, TypeOK, Moved, CountExact,
        CountedPlaces
  <2>4. HolderInside' /\ DeadIsFree'
    BY <1>13, <2>1, ThreadsAssumption
    DEF UnlockReadCount, ReleaseWriteMutex, TypeOK, Moved, HolderInside,
        HoldingPlaces, DeadIsFree
  <2>5. NoCircularWait'
    BY <1>13, <2>1, <1>t
    DEF UnlockReadCount, ReleaseWriteMutex, TypeOK, Moved, NoCircularWait,
        HolderInside, HoldingPlaces, CountedPlaces
  <2>6. WriterHolds'
    BY <1>13, <2>1, <1>s, <1>w
    DEF UnlockReadCount, ReleaseWriteMutex, TypeOK, Moved, WriterHolds,
        ReadersHold, CountedPlaces
  <2>7. ReadersHold' /\ HeldForSomebody'
    <3>1. \A u \in Threads : pc[u] # "first_in"
      BY <1>13 DEF UnlockReadCount, HolderInside, HoldingPlaces
    <3>2. Counted = Sharing
      BY <3>1 DEF Counted, Sharing
    <3>3. CASE num_readers = 1
      <4>1. Sharing = {t} /\ leaked = 0
        BY <1>c, <2>0, <3>2, <3>3 DEF CountExact, TypeOK
      <4>2. Sharing' = {} /\ leaked' = 0 /\ write_mutex' = FALSE
        BY <1>13, <2>1, <3>3, <4>1
        DEF UnlockReadCount, ReleaseWriteMutex, Moved, CountedPlaces
      <4> QED
        BY <4>2 DEF ReadersHold, HeldForSomebody
    <3>4. CASE num_readers # 1
      <4>1. write_mutex' = write_mutex /\ leaked' = leaked /\ write_mutex
        BY <1>13, <1>s, <3>4 DEF UnlockReadCount, ReadersHold, CountedPlaces
      <4>2. Sharing \ {t} # {} \/ leaked > 0
        <5>1. Cardinality(Counted \ {t}) = num_readers - 1 - leaked
          BY <1>c, <2>0 DEF CountExact, TypeOK
        <5>2. ASSUME Counted \ {t} = {} PROVE leaked > 0
          <6>1. Cardinality(Counted \ {t}) = 0
            BY <5>2, FS_EmptySet
          <6> QED
            BY <2>0, <3>4, <5>1, <6>1 DEF TypeOK
        <5> QED
          BY <3>2, <5>2
      <4>3. Sharing' = Sharing \ {t}
        BY <2>1 DEF Moved, CountedPlaces
      <4> QED
        BY <4>1, <4>2, <4>3 DEF ReadersHold, HeldForSomebody
    <3> QED
      BY <3>3, <3>4
  <2> QED
    BY <2>2, <2>3, <2>4, <2>5, <2>6, <2>7
<1>14. ASSUME NEW t \in Threads, UnlockReadExit(t) PROVE IInv'
  <2> DEFINE p == "idle"
  <2>1. Moved(t, p)
    BY <1>14, Move DEF UnlockReadExit, Places, TypeOK
  <2>2. TypeOK'
    BY <1>14, <2>1 DEF UnlockReadExit, ReleaseReadMutex, TypeOK, Moved
  <2>3. CountExact'
    BY <1>14, <2>1, <1>c, <1>t
    DEF UnlockReadExit, ReleaseReadMutex, TypeOK, Moved, CountExact,
        CountedPlaces
  <2>4. HolderInside' /\ DeadIsFree'
    BY <1>14, <2>1, ThreadsAssumption
    DEF UnlockReadExit, ReleaseReadMutex, TypeOK, Moved, HolderInside,
        HoldingPlaces, DeadIsFree
  <2>5. NoCircularWait'
    BY <1>14, <2>1, <1>t
    DEF UnlockReadExit, ReleaseReadMutex, TypeOK, Moved, NoCircularWait,
        HolderInside, HoldingPlaces, CountedPlaces
  <2>6. WriterHolds'
    BY <1>14, <2>1, <1>s, <1>w
    DEF UnlockReadExit, ReleaseReadMutex, TypeOK, Moved, WriterHolds,
        ReadersHold, CountedPlaces
  <2>7. ReadersHold' /\ HeldForSomebody'
    BY <1>14, <2>1, <1>s, <1>w
    DEF UnlockReadExit, ReleaseReadMutex, TypeOK, Moved, WriterHolds,
        ReadersHold, HeldForSomebody, CountedPlaces
  <2> QED
    BY <2>2, <2>3, <2>4, <2>5, <2>6, <2>7
<1>15. ASSUME NEW t \in Threads, CallLockWrite(t) PROVE IInv'
  <2> DEFINE p == "lock_write"
  <2>1. Moved(t, p)
    BY <1>15, Move DEF CallLockWrite, Places, TypeOK
  <2>2. TypeOK'
    BY <1>15, <2>1 DEF CallLockWrite, TypeOK, Moved
  <2>3. CountExact'
    BY <1>15, <2>1, <1>c, <1>t
    DEF CallLockWrite, TypeOK, Moved, CountExact, CountedPlaces
  <2>4. HolderInside' /\ DeadIsFree'
    BY <1>15, <2>1, ThreadsAssumption
    DEF CallLockWrite, TypeOK, Moved, HolderInside, HoldingPlaces, DeadIsFree
  <2>5. NoCircularWait'
    BY <1>15, <2>1, <1>t
    DEF CallLockWrite, TypeOK, Moved, NoCircularWait, HolderInside,
        HoldingPlaces, CountedPlaces
  <2>6. WriterHolds'
    BY <1>15, <2>1, <1>s, <1>w
    DEF CallLockWrite, TypeOK, Moved, WriterHolds, ReadersHold, CountedPlaces
  <2>7. ReadersHold' /\ HeldForSomebody'
    BY <1>15, <2>1, <1>s, <1>w
    DEF CallLockWrite, TypeOK, Moved, WriterHolds, ReadersHold,
        HeldForSomebody, CountedPlaces
  <2> QED
    BY <2>2, <2>3, <2>4, <2>5, <2>6, <2>7
<1>16. ASSUME NEW t \in Threads, LockWriteEnter(t) PROVE IInv'
  <2> DEFINE p == "writing"
  <2>1. Moved(t, p)
    BY <1>16, Move DEF LockWriteEnter, Places, TypeOK
  <2>2. TypeOK'
    BY <1>16, <2>1 DEF LockWriteEnter, AcquireWriteMutex, TypeOK, Moved
  <2>3. CountExact'
    BY <1>16, <2>1, <1>c, <1>t
    DEF LockWriteEnter, AcquireWriteMutex, TypeOK, Moved, CountExact,
        CountedPlaces
  <2>4. HolderInside' /\ DeadIsFree'
    BY <1>16, <2>1, ThreadsAssumption
    DEF LockWriteEnter, AcquireWriteMutex, TypeOK, Moved, HolderInside,
        HoldingPlaces, DeadIsFree
  <2>5. NoCircularWait'
    BY <1>16, <2>1, <1>t
    DEF LockWriteEnter, AcquireWriteMutex, TypeOK, Moved, NoCircularWait,
        HolderInside, HoldingPlaces, CountedPlaces
  <2>6. WriterHolds'
    <3>1. Writers = {} /\ Sharing = {} /\ leaked = 0
      BY <1>16, <1>w
      DEF LockWriteEnter, AcquireWriteMutex, TypeOK, WriterHolds, ReadersHold,
          Writers
    <3>2. Writers' = {t} /\ Sharing' = {} /\ leaked' = 0 /\ write_mutex'
      BY <1>16, <2>1, <3>1
      DEF LockWriteEnter, AcquireWriteMutex, Moved, CountedPlaces
    <3>3. \A u \in Threads : pc'[u] = "writing" => u = t
      BY <2>1, <3>1, <1>w DEF Moved
    <3> QED
      BY <3>2, <3>3 DEF WriterHolds
  <2>7. ReadersHold' /\ HeldForSomebody'
    BY <1>16, <2>1, <1>s, <1>w
    DEF LockWriteEnter, AcquireWriteMutex, TypeOK, Moved, WriterHolds,
        ReadersHold, HeldForSomebody, CountedPlaces
  <2> QED
    BY <2>2, <2>3, <2>4, <2>5, <2>6, <2>7
<1>17. ASSUME NEW t \in Threads, LockWriteFails(t) PROVE IInv'
  <2> DEFINE p == "idle"
  <2>1. Moved(t, p)
    BY <1>17, Move DEF LockWriteFails, Places, TypeOK
  <2>2. TypeOK'
    BY <1>17, <2>1, FaultsAssumption
    DEF LockWriteFails, HostError, TypeOK, Moved
  <2>3. CountExact'
    BY <1>17, <2>1, <1>c, <1>t
    DEF LockWriteFails, HostError, TypeOK, Moved, CountExact, CountedPlaces
  <2>4. HolderInside' /\ DeadIsFree'
    BY <1>17, <2>1, ThreadsAssumption
    DEF LockWriteFails, HostError, TypeOK, Moved, HolderInside, HoldingPlaces,
        DeadIsFree
  <2>5. NoCircularWait'
    BY <1>17, <2>1, <1>t
    DEF LockWriteFails, HostError, TypeOK, Moved, NoCircularWait,
        HolderInside, HoldingPlaces, CountedPlaces
  <2>6. WriterHolds'
    BY <1>17, <2>1, <1>s, <1>w
    DEF LockWriteFails, HostError, TypeOK, Moved, WriterHolds, ReadersHold,
        CountedPlaces
  <2>7. ReadersHold' /\ HeldForSomebody'
    BY <1>17, <2>1, <1>s, <1>w
    DEF LockWriteFails, HostError, TypeOK, Moved, WriterHolds, ReadersHold,
        HeldForSomebody, CountedPlaces
  <2> QED
    BY <2>2, <2>3, <2>4, <2>5, <2>6, <2>7
<1>18. ASSUME NEW t \in Threads, UnlockWrite(t) PROVE IInv'
  <2> DEFINE p == "idle"
  <2>1. Moved(t, p)
    BY <1>18, Move DEF UnlockWrite, Places, TypeOK
  <2>2. TypeOK'
    BY <1>18, <2>1 DEF UnlockWrite, ReleaseWriteMutex, TypeOK, Moved
  <2>3. CountExact'
    BY <1>18, <2>1, <1>c, <1>t
    DEF UnlockWrite, ReleaseWriteMutex, TypeOK, Moved, CountExact,
        CountedPlaces
  <2>4. HolderInside' /\ DeadIsFree'
    BY <1>18, <2>1, ThreadsAssumption
    DEF UnlockWrite, ReleaseWriteMutex, TypeOK, Moved, HolderInside,
        HoldingPlaces, DeadIsFree
  <2>5. NoCircularWait'
    BY <1>18, <2>1, <1>t
    DEF UnlockWrite, ReleaseWriteMutex, TypeOK, Moved, NoCircularWait,
        HolderInside, HoldingPlaces, CountedPlaces
  <2>6. WriterHolds'
    BY <1>18, <2>1, <1>s, <1>w
    DEF UnlockWrite, ReleaseWriteMutex, TypeOK, Moved, WriterHolds,
        ReadersHold, CountedPlaces
  <2>7. ReadersHold' /\ HeldForSomebody'
    BY <1>18, <2>1, <1>s, <1>w
    DEF UnlockWrite, ReleaseWriteMutex, TypeOK, Moved, WriterHolds,
        ReadersHold, HeldForSomebody, CountedPlaces
  <2> QED
    BY <2>2, <2>3, <2>4, <2>5, <2>6, <2>7
<1> QED
  BY <1>1, <1>2, <1>3, <1>4, <1>5, <1>6, <1>7, <1>8, <1>9, <1>10, <1>11, <1>12, <1>13, <1>14, <1>15, <1>16, <1>17, <1>18
  DEF Next, Proceed, Fail

\* The inductive invariant holds in every reachable state.
THEOREM Invariance == Spec => []IInv
  BY InitIInv, NextIInv, PTL DEF Spec

\* Every variable keeps its type, for any finite set of threads.
THEOREM TypeCorrect == Spec => []TypeOK
<1>1. IInv => TypeOK
  BY DEF IInv
<1> QED
  BY <1>1, Invariance, PTL

\* A writer of the namespace is alone, for any number of threads and any
\* host failures.
THEOREM Exclusion == Spec => []MutualExclusion
<1>1. IInv => MutualExclusion
  <2> SUFFICES ASSUME IInv, NEW t \in Threads, NEW u \in Threads,
                      pc[t] = "writing", t # u
               PROVE  u \notin Readers \cup Writers
    BY DEF MutualExclusion
  <2>1. Writers = {t} /\ Sharing = {}
    BY DEF IInv, WriterHolds
  <2> QED
    BY <2>1 DEF Readers, Sharing, CountedPlaces
<1> QED
  BY <1>1, Invariance, PTL

\* The counter of readers is exact between any two steps.
THEOREM Counting == Spec => []CountExact
<1>1. IInv => CountExact
  BY DEF IInv
<1> QED
  BY <1>1, Invariance, PTL

\* The first reader, which waits for the write mutex with the read mutex in
\* hand, is never waited for by another reader.
THEOREM NoReaderCycle == Spec => []NoCircularWait
<1>1. IInv => NoCircularWait
  BY DEF IInv
<1> QED
  BY <1>1, Invariance, PTL

\* A lock that nobody uses is free, unless an unlock failed.
THEOREM FreeWhenQuiet == Spec => []NotLeftHeld
<1>1. IInv => NotLeftHeld
  <2> SUFFICES ASSUME IInv, Quiet, leaked = 0
               PROVE  read_mutex = NoThread /\ ~write_mutex
    BY DEF NotLeftHeld
  <2>1. Writers = {} /\ Sharing = {}
    BY DEF Quiet, Writers, Sharing, CountedPlaces
  <2>2. ~write_mutex
    BY <2>1 DEF IInv, HeldForSomebody
  <2>3. read_mutex = NoThread
    BY DEF IInv, TypeOK, HolderInside, HoldingPlaces, Quiet
  <2> QED
    BY <2>2, <2>3
<1> QED
  BY <1>1, Invariance, PTL

----------------------------------------------------------------------------
(***************************************************************************)
(* Namespace.  Its calls take and leave the lock in one step each, where   *)
(* RwLock has several: such a step is shown to preserve the inductive      *)
(* invariant of RwLock.  It needs that the lock is there, which the calls  *)
(* themselves have to see to.                                              *)
(***************************************************************************)
\* What a call that waits for nobody in read_mutex knows of the counter.
LEMMA ReadMutexFree ==
    ASSUME IInv, read_mutex = NoThread
    PROVE  /\ \A u \in Threads : pc[u] \notin HoldingPlaces
           /\ Counted = Sharing
<1>1. \A u \in Threads : pc[u] \notin HoldingPlaces
  BY ThreadsAssumption DEF IInv, HolderInside
<1>2. Counted = Sharing
  BY <1>1 DEF HoldingPlaces, Counted, Sharing
<1> QED
  BY <1>1, <1>2

\* uacpi_namespace_read_lock in one step.
LEMMA LockReadKeeps ==
    ASSUME IInv, live, NEW t \in Threads, LockRead(t)
    PROVE  IInv'
<1> USE DEF IInv
<1>1. Moved(t, "reading")
  BY Move DEF LockRead, TypeOK, Places
<1>2. t \notin Counted /\ t \notin Sharing /\ t \notin Writers
  BY DEF LockRead, Counted, Sharing, Writers, CountedPlaces
<1>3. /\ Counted' = Counted \cup {t} /\ Sharing' = Sharing \cup {t}
      /\ Writers' = Writers
  BY <1>1, <1>2 DEF Moved, CountedPlaces
<1>4. read_mutex = NoThread /\ Counted = Sharing
  BY ReadMutexFree DEF LockRead
<1>5. TypeOK'
  BY <1>1 DEF LockRead, TypeOK, Moved, Places
<1>6. CountExact'
  BY <1>2, <1>3, Count DEF LockRead, CountExact, TypeOK
<1>7. Writers = {}
  <2> SUFFICES ASSUME NEW w \in Writers PROVE FALSE
    OBVIOUS
  <2>1. write_mutex /\ Sharing = {} /\ leaked = 0
    BY DEF Writers, WriterHolds
  <2>2. num_readers = 0
    BY <2>1, <1>4, Count DEF CountExact
  <2> QED
    BY <2>1, <2>2 DEF LockRead
<1>8. HolderInside' /\ NoCircularWait'
  BY <1>1, <1>4, ReadMutexFree, ThreadsAssumption
  DEF LockRead, Moved, HolderInside, HoldingPlaces, NoCircularWait
<1>9. WriterHolds' /\ ReadersHold' /\ HeldForSomebody' /\ DeadIsFree'
  BY <1>1, <1>3, <1>7
  DEF LockRead, WriterHolds, ReadersHold, HeldForSomebody, DeadIsFree, Writers
<1> QED
  BY <1>5, <1>6, <1>8, <1>9

\* uacpi_namespace_read_unlock in one step: the write mutex stays with the
\* readers that are left.
LEMMA UnlockReadKeeps ==
    ASSUME IInv, NEW t \in Threads, UnlockRead(t)
    PROVE  IInv'
<1> USE DEF IInv
<1>1. Moved(t, "idle")
  BY Move DEF UnlockRead, TypeOK, Places
<1>2. t \in Counted /\ t \in Sharing /\ t \notin Writers
  BY DEF UnlockRead, Counted, Sharing, Writers, CountedPlaces
<1>3. /\ Counted' = Counted \ {t} /\ Sharing' = Sharing \ {t}
      /\ Writers' = Writers
  BY <1>1, <1>2 DEF Moved, CountedPlaces
<1>4. read_mutex = NoThread /\ Counted = Sharing
  BY ReadMutexFree DEF UnlockRead
<1>5. live
  BY DEF UnlockRead, DeadIsFree
<1>6. num_readers = Cardinality(Counted) + leaked /\ num_readers > 0
  BY <1>2, Count DEF CountExact, TypeOK
<1>7. TypeOK'
  BY <1>1, <1>6 DEF UnlockRead, TypeOK, Moved, Places
<1>8. CountExact'
  BY <1>2, <1>3, Count DEF UnlockRead, CountExact, TypeOK
<1>9. Writers = {}
  BY <1>2 DEF Writers, WriterHolds
<1>10. HolderInside' /\ NoCircularWait'
  BY <1>1, <1>4, ReadMutexFree, ThreadsAssumption
  DEF UnlockRead, Moved, HolderInside, HoldingPlaces, NoCircularWait
<1>11. WriterHolds' /\ DeadIsFree'
  BY <1>3, <1>5, <1>9 DEF UnlockRead, WriterHolds, DeadIsFree, Writers
<1>12. num_readers - 1 = Cardinality(Counted \ {t}) + leaked
  BY <1>2, <1>6, Count DEF TypeOK
<1>13. write_mutex' <=> num_readers > 1
  BY DEF UnlockRead
<1>14. Cardinality(Counted \ {t}) = 0 <=> Counted \ {t} = {}
  BY Count, FS_Subset, FS_EmptySet
<1>15. Cardinality(Counted \ {t}) \in Nat
  BY <1>2, <1>6, Count DEF TypeOK
<1>16. write_mutex' <=> Counted \ {t} # {} \/ leaked > 0
  BY <1>12, <1>13, <1>14, <1>15 DEF TypeOK
<1>17. ReadersHold' /\ HeldForSomebody'
  BY <1>3, <1>4, <1>16 DEF UnlockRead, ReadersHold, HeldForSomebody
<1> QED
  BY <1>7, <1>8, <1>10, <1>11, <1>17

\* uacpi_namespace_write_lock in one step.
LEMMA LockWriteKeeps ==
    ASSUME IInv, live, NEW t \in Threads, LockWrite(t)
    PROVE  IInv'
<1> USE DEF IInv
<1>1. Moved(t, "writing")
  BY Move DEF LockWrite, TypeOK, Places
<1>2. t \notin Counted /\ t \notin Sharing
  BY DEF LockWrite, Counted, Sharing, CountedPlaces
<1>3. Counted' = Counted /\ Sharing' = Sharing /\ Writers' = Writers \cup {t}
  BY <1>1, <1>2 DEF Moved, CountedPlaces
<1>4. Sharing = {} /\ leaked = 0 /\ Writers = {}
  BY DEF LockWrite, ReadersHold, WriterHolds, Writers, TypeOK
<1>5. TypeOK'
  BY <1>1 DEF LockWrite, TypeOK, Moved
<1>6. CountExact'
  BY <1>3 DEF LockWrite, CountExact
<1>7. HolderInside' /\ NoCircularWait'
  BY <1>1, <1>3 DEF LockWrite, Moved, HolderInside, HoldingPlaces, NoCircularWait
<1>8. WriterHolds' /\ ReadersHold' /\ HeldForSomebody' /\ DeadIsFree'
  BY <1>1, <1>3, <1>4
  DEF LockWrite, WriterHolds, ReadersHold, HeldForSomebody, DeadIsFree, Writers,
      Moved
<1> QED
  BY <1>5, <1>6, <1>7, <1>8

-----------------------------------------------------------------------------
(***************************************************************************)
(* What the calls see to: nobody is in a call of a namespace that is not   *)
(* there, and whoever resets it is alone.                                  *)
(***************************************************************************)
CallNames == {"none", "aml", "asleep", "walk", "callback", "next", "between", "find",
              "found", "acquire", "owner", "walked", "section", "wipe", "wiped"}
CallsFit ==
    /\ call \in [Threads -> CallNames]
    /\ \A t \in Threads : call[t] = "none" => pc[t] = "idle"
    /\ ~live => \A t \in Threads : call[t] \in {"none", "section", "walked"}
    /\ \A t \in Threads : call[t] \in {"wipe", "wiped"} =>
         \A u \in Threads : u # t => call[u] = "none"

\* A step that does nothing to the lock, or what one of its functions does.
LockSteps(t) ==
    \/ UNCHANGED vars \/ Next
    \/ live /\ (LockRead(t) \/ LockWrite(t))
    \/ UnlockRead(t)
    \/ HostError /\ UNCHANGED <<live, read_mutex, write_mutex, num_readers, pc, leaked>>

\* Every such step keeps the invariant of the lock.
LEMMA LockStepsKeep ==
    ASSUME IInv, NEW t \in Threads, LockSteps(t)
    PROVE  IInv'
<1>1. CASE UNCHANGED vars \/ Next
  BY <1>1, NextIInv
<1>2. CASE live /\ (LockRead(t) \/ LockWrite(t))
  BY <1>2, LockReadKeeps, LockWriteKeeps
<1>3. CASE UnlockRead(t)
  BY <1>3, UnlockReadKeeps
<1>4. CASE HostError /\ UNCHANGED <<live, read_mutex, write_mutex, num_readers, pc, leaked>>
  <2>1. faults' \in 0 .. MaxFaults
    BY <1>4, FaultsAssumption DEF HostError, IInv, TypeOK
  <2> QED
    BY <1>4, <2>1
    DEF IInv, TypeOK, CountExact, Counted, NoCircularWait, HolderInside, WriterHolds,
        ReadersHold, HeldForSomebody, DeadIsFree, Writers, Sharing
<1> QED
  BY <1>1, <1>2, <1>3, <1>4 DEF LockSteps

\* The steps of the lock that threads take in sections of their own.
LEMMA SectionSteps ==
    ASSUME NEW t \in Threads,
           \/ LockStep(t) \/ LockFails(t)
           \/ CallLockRead(t) \/ CallLockWrite(t) \/ CallUnlockRead(t) \/ UnlockWrite(t)
    PROVE  Next
BY DEF LockStep, LockFails, Next, Proceed

\* A thread alone changes its call and where it is.
LEMMA Alone ==
    ASSUME CallsFit, NEW t \in Threads, NEW what \in CallNames, NEW at \in Places,
           pc \in [Threads -> Places], pc' = [pc EXCEPT ![t] = at], Becomes(t, what),
           what = "none" => at = "idle",
           live' = live, ~live => what \in {"none", "section", "walked"},
           what \in {"wipe", "wiped"} => \A u \in Threads : u # t => call[u] = "none",
           what = "none" \/ \A u \in Threads : u # t => call[u] \notin {"wipe", "wiped"}
    PROVE  CallsFit'
BY DEF CallsFit, Becomes

\* What the lock's functions say about where their thread is, and that they
\* leave `live' alone.
LEMMA Lockings ==
    ASSUME IInv, NEW t \in Threads
    PROVE  /\ LockRead(t) => live' = live /\ pc' = [pc EXCEPT ![t] = "reading"]
           /\ LockWrite(t) => live' = live /\ pc' = [pc EXCEPT ![t] = "writing"]
           /\ UnlockRead(t) \/ UnlockWrite(t) =>
                live' = live /\ pc' = [pc EXCEPT ![t] = "idle"]
           /\ UNCHANGED lockvars => live' = live /\ pc' = [pc EXCEPT ![t] = pc[t]]
           /\ pc \in [Threads -> Places] /\ {"reading", "writing", "idle"} \subseteq Places
BY DEF LockRead, LockWrite, UnlockRead, UnlockWrite, Goto, lockvars, vars, IInv, TypeOK,
       Places

\* In a call of the namespace the lock is there.
LEMMA LiveInCalls ==
    ASSUME CallsFit, NEW t \in Threads, call[t] \notin {"none", "section", "walked"}
    PROVE  live
BY DEF CallsFit

\* Who is in a call other than the wipe is not alone because of a wipe.
LEMMA NobodyWipes ==
    ASSUME CallsFit, NEW t \in Threads, call[t] \notin {"none", "wipe", "wiped"}
    PROVE  \A u \in Threads : u # t => call[u] \notin {"wipe", "wiped"}
BY DEF CallsFit

\* The calls begin.
LEMMA CallsStep ==
    ASSUME IInv, CallsFit, NEW t \in Threads, ~Resetting, Calls(t)
    PROVE  LockSteps(t) /\ CallsFit'
<1> USE DEF CallNames
<1>1. \A u \in Threads : call[u] \notin {"wipe", "wiped"}
  BY DEF Resetting
<1>2. CASE CallAml(t)
  <2>1. CallsFit'
    BY <1>1, <1>2, Lockings, Alone DEF CallAml
  <2> QED
    BY <1>2, <2>1 DEF CallAml, LockSteps
<1>3. CASE StartWalk(t)
  <2>1. CallsFit'
    BY <1>1, <1>3, Lockings, Alone DEF StartWalk
  <2> QED
    BY <1>3, <2>1 DEF StartWalk, LockSteps
<1>4. CASE StartNext(t)
  <2>1. CallsFit'
    BY <1>1, <1>4, Lockings, Alone DEF StartNext
  <2> QED
    BY <1>4, <2>1 DEF StartNext, LockSteps
<1>5. CASE StartFind(t)
  <2>1. CallsFit'
    BY <1>1, <1>5, Lockings, Alone DEF StartFind
  <2> QED
    BY <1>5, <2>1 DEF StartFind, LockSteps
<1>6. CASE Section(t)
  <2>1. /\ live' = live
        /\ pc' = [pc EXCEPT ![t] = "lock_read"] \/ pc' = [pc EXCEPT ![t] = "lock_write"]
        /\ {"lock_read", "lock_write"} \subseteq Places
    BY <1>6 DEF Section, CallLockRead, CallLockWrite, Goto, Places
  <2>2. CallsFit'
    BY <1>1, <1>6, <2>1, Lockings, Alone DEF Section
  <2>3. Next
    BY <1>6, SectionSteps DEF Section
  <2> QED
    BY <2>2, <2>3 DEF LockSteps
<1> QED
  BY <1>2, <1>3, <1>4, <1>5, <1>6 DEF Calls

\* The reset.
LEMMA ResetStep ==
    ASSUME IInv, CallsFit, NEW t \in Threads, (~Resetting /\ StartReset(t)) \/ WipeStep(t)
    PROVE  LockSteps(t) /\ CallsFit'
<1> USE DEF CallNames
<1>1. CASE ~Resetting /\ StartReset(t)
  <2>1. live' = live /\ live
    BY <1>1 DEF StartReset, LockWrite
  <2>2. \E at \in Places : pc' = [pc EXCEPT ![t] = at]
    <3>1. pc' = [pc EXCEPT ![t] = "writing"] \/ pc' = [pc EXCEPT ![t] = pc[t]]
      BY <1>1, Lockings DEF StartReset
    <3> QED
      BY <3>1, Lockings
  <2>3. \A u \in Threads : call[u] = "none"
    BY <1>1 DEF StartReset, Out
  <2>4. CallsFit'
    BY <1>1, <2>1, <2>2, <2>3, Lockings, Alone DEF StartReset
  <2> QED
    BY <1>1, <2>4 DEF StartReset, LockSteps
<1>2. CASE Wipe(t)
  BY <1>2 DEF Wipe, LockSteps, CallsFit, lockvars, vars
<1>3. CASE WipeEnd(t)
  <2>1. live' = live /\ live
    BY <1>3, LiveInCalls DEF WipeEnd, UnlockWrite, lockvars, vars
  <2>2. \E at \in Places : pc' = [pc EXCEPT ![t] = at]
    BY <1>3, Lockings DEF WipeEnd
  <2>3. \A u \in Threads : u # t => call[u] = "none"
    BY <1>3 DEF WipeEnd, CallsFit
  <2>4. CallsFit'
    BY <1>3, <2>1, <2>2, <2>3, Lockings, Alone DEF WipeEnd
  <2>5. UnlockWrite(t) => Next
    BY SectionSteps
  <2> QED
    BY <1>3, <2>4, <2>5 DEF WipeEnd, LockSteps, lockvars
<1>4. CASE WipeDeinit(t)
  <2>1. \A u \in Threads : u # t => call[u] = "none"
    BY <1>4 DEF WipeDeinit, CallsFit, Out
  <2>2. /\ call' \in [Threads -> CallNames] /\ \A u \in Threads : call'[u] = "none"
        /\ \A u \in Threads : pc'[u] = "idle"
    BY <1>4, <2>1 DEF WipeDeinit, uacpi_rw_lock_deinit, Quiet, Becomes, CallsFit
  <2>3. CallsFit'
    BY <2>2 DEF CallsFit
  <2> QED
    BY <1>4, <2>3 DEF WipeDeinit, LockSteps, Next
<1> QED
  BY <1>1, <1>2, <1>3, <1>4 DEF WipeStep

\* AML.
LEMMA AmlKeeps ==
    ASSUME IInv, CallsFit, NEW t \in Threads, AmlStep(t)
    PROVE  LockSteps(t) /\ CallsFit'
<1> USE DEF CallNames
<1>1. ASSUME UNCHANGED <<lockvars, call>>
      PROVE  LockSteps(t) /\ CallsFit'
  BY <1>1 DEF LockSteps, CallsFit, lockvars, vars
<1>2. ASSUME NEW persist \in BOOLEAN, EnterFrame(t, persist)
      PROVE  LockSteps(t) /\ CallsFit'
  BY <1>1, <1>2 DEF EnterFrame
<1>3. ASSUME NEW n \in Nodes, NEW p \in Present \cup {Root}, NEW name \in Names,
             CreateName(t, n, p, name)
      PROVE  LockSteps(t) /\ CallsFit'
  BY <1>1, <1>3 DEF CreateName
<1>4. ASSUME NEW n \in Nodes, Keep(t, n)
      PROVE  LockSteps(t) /\ CallsFit'
  BY <1>1, <1>4 DEF Keep
<1>5. CASE InstallName(t)
  BY <1>1, <1>5 DEF InstallName
<1>6. CASE Sleep(t)
  <2>1. call[t] = "aml" /\ UnlockWrite(t) /\ Becomes(t, "asleep")
    BY <1>6 DEF Sleep, Executes, In
  <2>2. CallsFit'
    BY <2>1, Lockings, LiveInCalls, NobodyWipes, Alone
  <2> QED
    BY <2>1, <2>2, SectionSteps DEF LockSteps
<1>7. CASE Wake(t)
  <2>1. call[t] = "asleep" /\ LockWrite(t) /\ Becomes(t, "aml")
    BY <1>7 DEF Wake, Out
  <2>2. CallsFit'
    BY <2>1, Lockings, LiveInCalls, NobodyWipes, Alone
  <2> QED
    BY <2>1, <2>2, LiveInCalls DEF LockSteps
<1>8. CASE Leave(t)
  <2>1. call[t] = "aml"
    BY <1>8 DEF Leave, Executes, In
  <2>2. CASE UnlockWrite(t) /\ Becomes(t, "none")
    <3>1. CallsFit'
      BY <2>1, <2>2, Lockings, LiveInCalls, NobodyWipes, Alone
    <3> QED
      BY <2>2, <3>1, SectionSteps DEF LockSteps
  <2> QED
    BY <1>1, <1>8, <2>2 DEF Leave
<1> QED
  BY <1>2, <1>3, <1>4, <1>5, <1>6, <1>7, <1>8 DEF AmlStep

\* The host's calls, and the steps inside the functions of the lock.
LEMMA HostKeeps ==
    ASSUME IInv, CallsFit, NEW t \in Threads, HostStep(t)
    PROVE  LockSteps(t) /\ CallsFit'
<1> USE DEF CallNames
<1>1. ASSUME UNCHANGED <<lockvars, call>>
      PROVE  LockSteps(t) /\ CallsFit'
  BY <1>1 DEF LockSteps, CallsFit, lockvars, vars
\* A call gives the lock up, whatever it goes on with.
<1>2. ASSUME call[t] \notin {"none", "wipe", "wiped", "section", "walked"},
             UnlockRead(t) \/ LockRead(t) \/ UNCHANGED lockvars,
             NEW what \in CallNames \ {"none", "wipe", "wiped"}, Becomes(t, what)
      PROVE  LockSteps(t) /\ CallsFit'
  <2>1. live
    BY <1>2, LiveInCalls
  <2>2. live' = live
    BY <1>2, Lockings
  <2>3. PICK at \in Places : pc' = [pc EXCEPT ![t] = at]
    BY <1>2, Lockings
  <2>4. CallsFit'
    BY <1>2, <2>1, <2>2, <2>3, Lockings, NobodyWipes, Alone
  <2> QED
    BY <1>2, <2>1, <2>4 DEF LockSteps, lockvars
\* A call comes to its end.
<1>3. ASSUME call[t] \notin {"none", "wipe", "wiped"}, pc[t] = "idle",
             UNCHANGED lockvars, Becomes(t, "none")
      PROVE  LockSteps(t) /\ CallsFit'
  <2>1. CallsFit'
    BY <1>3, Lockings, NobodyWipes, Alone
  <2> QED
    BY <1>3, <2>1 DEF LockSteps, lockvars
<1>4. CASE WalkBegin(t) \/ WalkMoves(t)
  BY <1>1, <1>4 DEF WalkBegin, WalkMoves
<1>5. CASE WalkCalls(t)
  BY <1>2, <1>5 DEF WalkCalls, In
<1>6. CASE WalkEnds(t)
  BY <1>2, <1>6 DEF WalkEnds, In
<1>7. ASSUME NEW d \in {"continue", "next_peer", "break"}, CallbackReturns(t, d)
      PROVE  LockSteps(t) /\ CallsFit'
  BY <1>2, <1>3, <1>7 DEF CallbackReturns, Out
<1>8. CASE uacpi_namespace_node_next_typed(t)
  BY <1>2, <1>8 DEF uacpi_namespace_node_next_typed, In
<1>9. CASE NextAgain(t)
  BY <1>2, <1>9 DEF NextAgain, Out
<1>10. ASSUME In(t, "find"), NEW path, NEW above \in BOOLEAN, Find(t, path, above)
       PROVE  LockSteps(t) /\ CallsFit'
  <2>1. UnlockRead(t) /\ (Becomes(t, "found") \/ Becomes(t, "walked"))
    BY <1>10 DEF Find
  <2> QED
    BY <1>2, <1>10, <2>1 DEF In
<1>11. CASE CallAcquire(t)
  BY <1>2, <1>11 DEF CallAcquire, Out
<1>12. ASSUME NEW any \in BOOLEAN, uacpi_namespace_node_acquire_object_typed(t, any)
       PROVE  LockSteps(t) /\ CallsFit'
  BY <1>2, <1>12 DEF uacpi_namespace_node_acquire_object_typed, In
<1>13. CASE uacpi_namespace_node_release_object(t)
  BY <1>3, <1>13 DEF uacpi_namespace_node_release_object, Out
<1>14. CASE Returned(t)
  BY <1>3, <1>14 DEF Returned, Out
<1>15. CASE SectionEnds(t)
  <2>1. /\ live' = live
        /\ pc' = [pc EXCEPT ![t] = "unlock_read"] \/ pc' = [pc EXCEPT ![t] = "idle"]
        /\ {"unlock_read", "idle"} \subseteq Places
    BY <1>15 DEF SectionEnds, CallUnlockRead, UnlockWrite, Goto, Places
  <2>2. CallsFit'
    BY <1>15, <2>1, Lockings, NobodyWipes, Alone DEF SectionEnds, In
  <2>3. Next
    BY <1>15, SectionSteps DEF SectionEnds
  <2> QED
    BY <2>2, <2>3 DEF LockSteps
<1> QED
  BY <1>4, <1>5, <1>6, <1>7, <1>8, <1>9, <1>10, <1>11, <1>12, <1>13, <1>14, <1>15
  DEF HostStep

\* A step inside a lock function, failed or not, is one of them.
LEMMA SectionKeeps ==
    ASSUME IInv, CallsFit, NEW t \in Threads, LockStep(t) \/ LockFails(t)
    PROVE  LockSteps(t) /\ CallsFit'
<1> USE DEF CallNames
<1>1. Next
  BY SectionSteps
<1>2. live' = live
  BY DEF LockStep, LockFails, LockReadEnter, LockReadCount, LockReadFirst, LockReadExit,
         UnlockReadEnter, UnlockReadCount, UnlockReadExit, LockWriteEnter, Fail,
         LockReadFails, LockReadFirstFails, UnlockReadFails, LockWriteFails
<1>3. \E at \in Places : pc' = [pc EXCEPT ![t] = at]
  BY DEF LockStep, LockFails, LockReadEnter, LockReadCount, LockReadFirst, LockReadExit,
         UnlockReadEnter, UnlockReadCount, UnlockReadExit, LockWriteEnter, Fail,
         LockReadFails, LockReadFirstFails, UnlockReadFails, LockWriteFails, Goto, Places
<1>4. call[t] \in {"section", "walked"}
  BY DEF LockStep, LockFails
<1>5. Becomes(t, call[t]) \/ Becomes(t, "walked")
  BY DEF LockStep, LockFails, Becomes, nsvars, CallsFit
<1>6. PICK at \in Places : pc' = [pc EXCEPT ![t] = at]
  BY <1>3
<1>7. PICK what \in {"section", "walked"} : Becomes(t, what)
  BY <1>4, <1>5
<1>8. \A u \in Threads : u # t => call[u] \notin {"wipe", "wiped"}
  BY <1>4, NobodyWipes
<1>9. what \in CallNames /\ what \notin {"none", "wipe", "wiped"} /\ pc \in [Threads -> Places]
  BY Lockings
<1>10. CallsFit'
  BY <1>2, <1>6, <1>7, <1>8, <1>9, Alone
<1> QED
  BY <1>1, <1>10 DEF LockSteps

-----------------------------------------------------------------------------
\* Every step of the namespace keeps the lock's inductive invariant.
THEOREM NsNextIInv == IInv /\ CallsFit /\ [NsNext]_all => IInv' /\ CallsFit'
<1> SUFFICES ASSUME IInv, CallsFit, [NsNext]_all
             PROVE  IInv' /\ CallsFit'
  OBVIOUS
<1>1. CASE UNCHANGED all
  <2>1. UNCHANGED <<vars, call>>
    BY <1>1 DEF all, lockvars, nsvars
  <2>2. IInv'
    BY <2>1, NextIInv
  <2>3. CallsFit'
    BY <2>1 DEF CallsFit, vars
  <2> QED
    BY <2>2, <2>3
<1>2. CASE uacpi_initialize_namespace
  <2>1. uacpi_rw_lock_init /\ UNCHANGED call
    BY <1>2 DEF uacpi_initialize_namespace
  <2>2. IInv'
    BY <2>1, NextIInv DEF Next
  <2>3. CallsFit'
    BY <2>1 DEF CallsFit, uacpi_rw_lock_init
  <2> QED
    BY <2>2, <2>3
<1>3. ASSUME NEW n \in Nodes, Forget(n)
      PROVE  IInv' /\ CallsFit'
  <2>1. UNCHANGED <<vars, call>>
    BY <1>3 DEF Forget, lockvars
  <2>2. IInv'
    BY <2>1, NextIInv
  <2>3. CallsFit'
    BY <2>1 DEF CallsFit, vars
  <2> QED
    BY <2>2, <2>3
<1>4. ASSUME NEW t \in Threads,
             \/ ~Resetting /\ (Calls(t) \/ StartReset(t))
             \/ AmlStep(t) \/ HostStep(t) \/ WipeStep(t) \/ LockStep(t) \/ LockFails(t)
      PROVE  IInv' /\ CallsFit'
  <2>1. LockSteps(t) /\ CallsFit'
    BY <1>4, CallsStep, ResetStep, AmlKeeps, HostKeeps, SectionKeeps
  <2> QED
    BY <2>1, LockStepsKeep
<1> QED
  BY <1>1, <1>2, <1>3, <1>4 DEF NsNext

\* The namespace's inductive invariant: that of its lock, and what its calls
\* see to.
THEOREM NsInvariance == NsSpec => [](IInv /\ CallsFit)
<1>1. NsInit => IInv /\ CallsFit
  <2> SUFFICES ASSUME NsInit PROVE IInv /\ CallsFit
    OBVIOUS
  <2>1. IInv
    BY InitIInv DEF NsInit
  <2>2. CallsFit
    BY DEF NsInit, Init, CallsFit, CallNames
  <2> QED
    BY <2>1, <2>2
<1> QED
  BY <1>1, NsNextIInv, PTL DEF NsSpec

\* A thread that executes AML, or resets the namespace, is alone in the tree,
\* while walks, searches and plain sections of any number of threads go on,
\* and whatever the host's mutexes fail.
THEOREM NamespaceExclusion == NsSpec => []MutualExclusion
<1>1. IInv => MutualExclusion
  <2> SUFFICES ASSUME IInv, NEW t \in Threads, NEW u \in Threads,
                      pc[t] = "writing", t # u
               PROVE  u \notin Readers \cup Writers
    BY DEF MutualExclusion
  <2>1. Writers = {t} /\ Sharing = {}
    BY DEF IInv, WriterHolds
  <2> QED
    BY <2>1 DEF Readers, Sharing, CountedPlaces
<1> QED
  BY <1>1, NsInvariance, PTL
=============================================================================
