--------------------------- MODULE OpRegionProofs ---------------------------
(***************************************************************************)
(* Proofs about the recursive lock, and about OpRegion, which uses it, for *)
(* any threads, devices, regions, handlers, recursion and bounds.          *)
(*                                                                         *)
(* Every step of the composed system is a step of the lock or leaves it    *)
(* alone, so that what is proved of the lock first holds of it there.  It  *)
(* follows that one thread at a time is at work on the regions and the     *)
(* handlers.  The sections after that say what its calls, a stack of       *)
(* frames, have to do with them (Core), what each assignment of the code   *)
(* does to that, and then for each action that it preserves OpInv.         *)
(***************************************************************************)
EXTENDS OpRegion, TLAPS, FiniteSetTheorems, WellFoundedInduction

(***************************************************************************)
(* RecursiveLock.                                                          *)
(***************************************************************************)
\* The inductive invariant holds before the lock is created.
THEOREM InitIInv == Init => IInv
<1> SUFFICES ASSUME Init PROVE IInv
  OBVIOUS
<1>1. \A t \in Threads : pc[t] = "ready" /\ held[t] = 0
  BY DEF Init
<1>2. pc \in [Threads -> Places] /\ held \in [Threads -> Nat]
  BY DEF Init, Places
<1>3. live \in BOOLEAN
  BY Zenon DEF Init
<1>4. TypeOK
  BY <1>2, <1>3, BoundsAssumption DEF Init, TypeOK
<1>5. \A t \in Threads : ~InMutex(t)
  <2> SUFFICES ASSUME NEW t \in Threads PROVE ~InMutex(t)
    OBVIOUS
  <2>1. ~(held[t] > 0)
    BY <1>1
  <2>2. pc[t] \notin {"store", "drop", "unlock"}
    BY <1>1
  <2> QED
    BY <2>1, <2>2 DEF InMutex
<1> QED
  BY <1>1, <1>4, <1>5, ThreadsAssumption
  DEF Init, IInv, DepthExact, MutexExact, OwnerKnown, PlacesFit, DeadIsFree

\* Every step preserves the inductive invariant.
THEOREM NextIInv == IInv /\ [Next]_vars => IInv'
<1> SUFFICES ASSUME IInv, [Next]_vars PROVE IInv'
  OBVIOUS
<1> USE DEF IInv
<1>1. CASE UNCHANGED vars
  BY <1>1 DEF vars, TypeOK, DepthExact, MutexExact, InMutex, OwnerKnown,
              PlacesFit, DeadIsFree
<1>2. CASE uacpi_recursive_lock_init \/ uacpi_recursive_lock_deinit
  <2>1. \A t \in Threads : pc'[t] = "ready" /\ held'[t] = 0
    BY <1>2 DEF uacpi_recursive_lock_init, uacpi_recursive_lock_deinit, Quiet,
                TypeOK, DeadIsFree, InMutex
  <2>2. \A t \in Threads : ~InMutex(t)'
    BY <2>1 DEF InMutex
  <2>3. live' \in BOOLEAN
    BY <1>2, Zenon DEF uacpi_recursive_lock_init, uacpi_recursive_lock_deinit
  <2>4. mutex' = NoThread /\ owner' = NoThread /\ depth' = 0
    BY <1>2 DEF uacpi_recursive_lock_init, uacpi_recursive_lock_deinit
  <2>5. TypeOK'
    BY <1>2, <2>3, <2>4 DEF uacpi_recursive_lock_init,
                            uacpi_recursive_lock_deinit, TypeOK
  <2> QED
    BY <2>1, <2>2, <2>4, <2>5, ThreadsAssumption
    DEF DepthExact, MutexExact, OwnerKnown, PlacesFit, DeadIsFree
<1>3. ASSUME NEW t \in Threads, CallAcquire(t) PROVE IInv'
  <2>1. TypeOK'
    BY <1>3, BoundsAssumption
    DEF CallAcquire, Goto, TypeOK, Places, DepthExact, PlacesFit
  <2>2. DepthExact' /\ OwnerKnown'
    BY <1>3, ThreadsAssumption
    DEF CallAcquire, Goto, TypeOK, DepthExact, OwnerKnown, MutexExact,
        InMutex, PlacesFit
  <2>3. MutexExact' /\ DeadIsFree'
    BY <1>3, ThreadsAssumption
    DEF CallAcquire, Goto, TypeOK, DepthExact, MutexExact, InMutex, PlacesFit,
        DeadIsFree
  <2>4. PlacesFit'
    BY <1>3
    DEF CallAcquire, Goto, TypeOK, DepthExact, MutexExact, OwnerKnown,
        InMutex, PlacesFit
  <2> QED
    BY <2>1, <2>2, <2>3, <2>4
<1>4. ASSUME NEW t \in Threads, LoadOwner(t) PROVE IInv'
  <2>1. TypeOK'
    BY <1>4, BoundsAssumption
    DEF LoadOwner, Goto, TypeOK, Places, DepthExact, PlacesFit
  <2>2. DepthExact' /\ OwnerKnown'
    BY <1>4, ThreadsAssumption
    DEF LoadOwner, Goto, TypeOK, DepthExact, OwnerKnown, MutexExact, InMutex,
        PlacesFit
  <2>3. MutexExact' /\ DeadIsFree'
    BY <1>4, ThreadsAssumption
    DEF LoadOwner, Goto, TypeOK, DepthExact, OwnerKnown, MutexExact, InMutex,
        PlacesFit, DeadIsFree
  <2>4. PlacesFit'
    BY <1>4
    DEF LoadOwner, Goto, TypeOK, DepthExact, MutexExact, OwnerKnown, InMutex,
        PlacesFit
  <2> QED
    BY <2>1, <2>2, <2>3, <2>4
<1>5. ASSUME NEW t \in Threads, TakeMutex(t) PROVE IInv'
  <2>1. TypeOK'
    BY <1>5, BoundsAssumption
    DEF TakeMutex, Goto, TypeOK, Places, DepthExact, PlacesFit
  <2>2. DepthExact' /\ OwnerKnown'
    BY <1>5, ThreadsAssumption
    DEF TakeMutex, Goto, TypeOK, DepthExact, OwnerKnown, MutexExact, InMutex,
        PlacesFit
  <2>3. MutexExact' /\ DeadIsFree'
    BY <1>5, ThreadsAssumption
    DEF TakeMutex, Goto, TypeOK, DepthExact, MutexExact, InMutex, PlacesFit,
        DeadIsFree
  <2>4. PlacesFit'
    BY <1>5
    DEF TakeMutex, Goto, TypeOK, DepthExact, MutexExact, OwnerKnown, InMutex,
        PlacesFit
  <2> QED
    BY <2>1, <2>2, <2>3, <2>4
<1>6. ASSUME NEW t \in Threads, TakeMutexFails(t) PROVE IInv'
  <2>1. TypeOK'
    BY <1>6, BoundsAssumption
    DEF TakeMutexFails, Goto, TypeOK, Places, DepthExact, PlacesFit
  <2>2. DepthExact' /\ OwnerKnown'
    BY <1>6, ThreadsAssumption
    DEF TakeMutexFails, Goto, TypeOK, DepthExact, OwnerKnown, MutexExact,
        InMutex, PlacesFit
  <2>3. MutexExact' /\ DeadIsFree'
    BY <1>6, ThreadsAssumption
    DEF TakeMutexFails, Goto, TypeOK, DepthExact, MutexExact, InMutex,
        PlacesFit, DeadIsFree
  <2>4. PlacesFit'
    BY <1>6
    DEF TakeMutexFails, Goto, TypeOK, DepthExact, MutexExact, OwnerKnown,
        InMutex, PlacesFit
  <2> QED
    BY <2>1, <2>2, <2>3, <2>4
<1>7. ASSUME NEW t \in Threads, StoreOwner(t) PROVE IInv'
  <2>1. TypeOK'
    BY <1>7, BoundsAssumption
    DEF StoreOwner, Goto, TypeOK, Places, DepthExact, PlacesFit
  <2>2. DepthExact' /\ OwnerKnown'
    BY <1>7, ThreadsAssumption
    DEF StoreOwner, Goto, TypeOK, DepthExact, OwnerKnown, MutexExact, InMutex,
        PlacesFit
  <2>3. MutexExact' /\ DeadIsFree'
    BY <1>7, ThreadsAssumption
    DEF StoreOwner, Goto, TypeOK, DepthExact, MutexExact, InMutex, PlacesFit,
        DeadIsFree
  <2>4. PlacesFit'
    BY <1>7
    DEF StoreOwner, Goto, TypeOK, DepthExact, MutexExact, OwnerKnown, InMutex,
        PlacesFit
  <2> QED
    BY <2>1, <2>2, <2>3, <2>4
<1>8. ASSUME NEW t \in Threads, CallRelease(t) PROVE IInv'
  <2>1. TypeOK'
    BY <1>8, BoundsAssumption
    DEF CallRelease, Goto, TypeOK, Places, DepthExact, PlacesFit
  <2>2. DepthExact' /\ OwnerKnown'
    BY <1>8, ThreadsAssumption
    DEF CallRelease, Goto, TypeOK, DepthExact, OwnerKnown, MutexExact,
        InMutex, PlacesFit
  <2>3. MutexExact' /\ DeadIsFree'
    BY <1>8, ThreadsAssumption
    DEF CallRelease, Goto, TypeOK, DepthExact, MutexExact, InMutex, PlacesFit,
        DeadIsFree
  <2>4. PlacesFit'
    BY <1>8
    DEF CallRelease, Goto, TypeOK, DepthExact, MutexExact, OwnerKnown,
        InMutex, PlacesFit
  <2> QED
    BY <2>1, <2>2, <2>3, <2>4
<1>9. ASSUME NEW t \in Threads, CountDown(t) PROVE IInv'
  <2>1. TypeOK'
    BY <1>9, BoundsAssumption
    DEF CountDown, Goto, TypeOK, Places, DepthExact, PlacesFit
  <2>2. DepthExact' /\ OwnerKnown'
    BY <1>9, ThreadsAssumption
    DEF CountDown, Goto, TypeOK, DepthExact, OwnerKnown, MutexExact, InMutex,
        PlacesFit
  <2>3. MutexExact' /\ DeadIsFree'
    BY <1>9, ThreadsAssumption
    DEF CountDown, Goto, TypeOK, DepthExact, MutexExact, InMutex, PlacesFit,
        DeadIsFree
  <2>4. PlacesFit'
    BY <1>9
    DEF CountDown, Goto, TypeOK, DepthExact, MutexExact, OwnerKnown, InMutex,
        PlacesFit
  <2> QED
    BY <2>1, <2>2, <2>3, <2>4
<1>10. ASSUME NEW t \in Threads, DropOwner(t) PROVE IInv'
  <2>1. TypeOK'
    BY <1>10, BoundsAssumption
    DEF DropOwner, Goto, TypeOK, Places, DepthExact, PlacesFit
  <2>2. DepthExact' /\ OwnerKnown'
    BY <1>10, ThreadsAssumption
    DEF DropOwner, Goto, TypeOK, DepthExact, OwnerKnown, MutexExact, InMutex,
        PlacesFit
  <2>3. MutexExact' /\ DeadIsFree'
    BY <1>10, ThreadsAssumption
    DEF DropOwner, Goto, TypeOK, DepthExact, MutexExact, InMutex, PlacesFit,
        DeadIsFree
  <2>4. PlacesFit'
    BY <1>10
    DEF DropOwner, Goto, TypeOK, DepthExact, MutexExact, OwnerKnown, InMutex,
        PlacesFit
  <2> QED
    BY <2>1, <2>2, <2>3, <2>4
<1>11. ASSUME NEW t \in Threads, Unlock(t) PROVE IInv'
  <2>1. TypeOK'
    BY <1>11, BoundsAssumption
    DEF Unlock, Goto, TypeOK, Places, DepthExact, PlacesFit
  <2>2. DepthExact' /\ OwnerKnown'
    BY <1>11, ThreadsAssumption
    DEF Unlock, Goto, TypeOK, DepthExact, OwnerKnown, MutexExact, InMutex,
        PlacesFit
  <2>3. MutexExact' /\ DeadIsFree'
    BY <1>11, ThreadsAssumption
    DEF Unlock, Goto, TypeOK, DepthExact, MutexExact, InMutex, PlacesFit,
        DeadIsFree
  <2>4. PlacesFit'
    BY <1>11
    DEF Unlock, Goto, TypeOK, DepthExact, MutexExact, OwnerKnown, InMutex,
        PlacesFit
  <2> QED
    BY <2>1, <2>2, <2>3, <2>4
<1> QED
  BY <1>1, <1>2, <1>3, <1>4, <1>5, <1>6, <1>7, <1>8, <1>9, <1>10, <1>11
  DEF Next, Proceed

\* The inductive invariant holds in every reachable state.
THEOREM Invariance == Spec => []IInv
  BY InitIInv, NextIInv, PTL DEF Spec

\* Every variable keeps its type; the depth never goes below zero.
THEOREM TypeCorrect == Spec => []TypeOK
<1>1. IInv => TypeOK
  BY DEF IInv
<1> QED
  BY <1>1, Invariance, PTL

\* One thread at a time has the lock, for any set of threads.
THEOREM Exclusion == Spec => []Exclusive
<1>1. IInv => Exclusive
  BY DEF IInv, DepthExact, Exclusive
<1> QED
  BY <1>1, Invariance, PTL

\* The depth counts the holder's acquires exactly.
THEOREM DepthCounts == Spec => []DepthExact
<1>1. IInv => DepthExact
  BY DEF IInv
<1> QED
  BY <1>1, Invariance, PTL

\* No thread waits for a mutex it holds itself.
THEOREM Reentrant == Spec => []NoSelfWait
<1>1. IInv => NoSelfWait
  BY DEF IInv, MutexExact, InMutex, PlacesFit, NoSelfWait, TypeOK
<1> QED
  BY <1>1, Invariance, PTL

\* The mutex is free when nobody has the lock and no call is under way.
THEOREM Freed == Spec => []FreeWhenIdle
<1>1. IInv => FreeWhenIdle
  BY DEF IInv, TypeOK, MutexExact, InMutex, FreeWhenIdle, Quiet
<1> QED
  BY <1>1, Invariance, PTL

-----------------------------------------------------------------------------
(***************************************************************************)
(* OpRegion is a client of the lock.                                       *)
(***************************************************************************)
\* The calls of the region code use the lock by its own operations only.
THEOREM StepIsLockStep == [OpNext]_allvars => [Next]_vars
<1> SUFFICES ASSUME [OpNext]_allvars PROVE [Next]_vars
  OBVIOUS
<1>1. CASE UNCHANGED allvars
  BY <1>1 DEF allvars
<1>2. CASE NamespaceLoaded \/ InitializeRegions \/ DeinitializeRegions
  BY <1>2 DEF NamespaceLoaded, InitializeRegions, DeinitializeRegions, Next
<1>3. ASSUME NEW t \in Threads, RegionStep(t) PROVE [Next]_vars
  <2>1. CASE LockStep(t)
    BY <2>1 DEF LockStep, Next, Proceed, CountDown, DropOwner
  <2>2. CASE NewCall(t)
    BY <2>2 DEF NewCall
  <2>3. CASE Upgrade(t) \/ LeaveRegions(t)
    BY <2>3 DEF Upgrade, LeaveRegions, Next, Proceed
  <2>4. CASE \/ Unlink(t) \/ Detach(t) \/ Unreg(t) \/ Unhandled(t)
             \/ region_run_reg(t) \/ Io(t) \/ RunReg(t)
             \/ uacpi_initialize_opregion_node(t)
             \/ uacpi_opregion_uninstall_handler(t)
             \/ Install(t) \/ Uninstall(t) \/ uacpi_reg_all_opregions(t)
    BY <2>4
    DEF Unlink, Detach, Unreg, Unhandled, region_run_reg, Io, RunReg,
        uacpi_initialize_opregion_node, uacpi_opregion_uninstall_handler,
        Install, Uninstall, uacpi_reg_all_opregions
  <2> QED
    BY <1>3, <2>1, <2>2, <2>3, <2>4 DEF RegionStep
<1> QED
  BY <1>1, <1>2, <1>3 DEF OpNext

\* The region code is a client of the recursive lock.
THEOREM ImplementsLock == OpSpec => Spec
<1>1. OpInit => Init
  BY DEF OpInit
<1>2. [OpNext]_allvars => [Next]_vars
  BY StepIsLockStep
<1> QED
  BY <1>1, <1>2, PTL DEF OpSpec, Spec

\* Two threads are never inside the opregion lock together, whatever their
\* calls, the callbacks and _REG do.
THEOREM RegionsExclusive == OpSpec => []Exclusive
BY ImplementsLock, Exclusion, PTL

-----------------------------------------------------------------------------
(***************************************************************************)
(* The order of the two locks.                                             *)
(***************************************************************************)
\* Who is on the way into the opregion lock has let go of the namespace.
Upgrading == \A t \in Threads : pc[t] \in {"acquire", "take", "store"} => ns # t

\* A call enters the opregion lock without the namespace, and takes the
\* namespace only when it is through.
THEOREM NextUpgrading == TypeOK /\ Upgrading /\ [OpNext]_allvars => Upgrading'
<1> SUFFICES ASSUME TypeOK, Upgrading, [OpNext]_allvars,
                    NEW u \in Threads, pc'[u] \in {"acquire", "take", "store"}
             PROVE  ns' # u
  BY DEF Upgrading
<1> USE DEF TypeOK, Upgrading
<1>1. CASE UNCHANGED allvars
  BY <1>1 DEF allvars, opvars, vars
<1>2. CASE NamespaceLoaded \/ InitializeRegions \/ DeinitializeRegions
  BY <1>2
  DEF NamespaceLoaded, InitializeRegions, DeinitializeRegions, opvars, vars,
      uacpi_recursive_lock_init, uacpi_recursive_lock_deinit
<1>3. ASSUME NEW t \in Threads, RegionStep(t) PROVE ns' # u
  <2>1. CASE LockStep(t)
    BY <2>1
    DEF LockStep, opvars, LoadOwner, TakeMutex, StoreOwner, TakeMutexFails,
        CountDown, DropOwner, Unlock, Goto
  <2>2. CASE NewCall(t)
    BY <2>2, ThreadsAssumption DEF NewCall, Unlocked, Lock, vars
  <2>3. CASE Unlocked(t) /\ Upgrade(t)
    BY <2>3, ThreadsAssumption
    DEF Upgrade, Unlocked, Lock, vars, CallAcquire, Goto
  <2>4. CASE Unlocked(t) /\ LeaveRegions(t)
    BY <2>4, ThreadsAssumption DEF LeaveRegions, Unlocked, vars, CallRelease, Goto
  <2>5. CASE Unlocked(t) /\ (\/ Unlink(t) \/ Unreg(t) \/ Unhandled(t) \/ RunReg(t)
                             \/ Install(t) \/ Uninstall(t)
                             \/ uacpi_reg_all_opregions(t))
    BY <2>5
    DEF Unlink, Unreg, Unhandled, RunReg, Install, Uninstall,
        uacpi_reg_all_opregions, vars
  <2>6. CASE Unlocked(t) /\ (Detach(t) \/ region_run_reg(t) \/ Io(t))
    BY <2>6, ThreadsAssumption
    DEF Detach, region_run_reg, Io, Unlocked, Lock, Drop, vars
  <2>7. CASE Unlocked(t) /\ (\/ uacpi_initialize_opregion_node(t)
                             \/ uacpi_opregion_uninstall_handler(t))
    BY <2>7, ThreadsAssumption
    DEF uacpi_initialize_opregion_node, uacpi_opregion_uninstall_handler,
        Unlocked, vars
  <2> QED
    BY <1>3, <2>1, <2>2, <2>3, <2>4, <2>5, <2>6, <2>7 DEF RegionStep
<1> QED
  BY <1>1, <1>2, <1>3 DEF OpNext

\* Nobody waits for the opregion lock with the namespace in hand, nor for an
\* opregion lock that is his own.
THEOREM LocksInOrder == OpSpec => []LockOrder
<1>1. OpInit => Upgrading
  BY DEF OpInit, Init, Upgrading
<1>2. OpSpec => []TypeOK
  BY ImplementsLock, TypeCorrect, PTL
<1>3. OpSpec => []NoSelfWait
  BY ImplementsLock, Reentrant, PTL
<1>4. NoSelfWait /\ Upgrading => LockOrder
  BY DEF LockOrder, Upgrading
<1> QED
  BY <1>1, <1>2, <1>3, <1>4, NextUpgrading, PTL DEF OpSpec

-----------------------------------------------------------------------------
(***************************************************************************)
(* Sequences: the stack of a thread, the lists of handlers and of regions. *)
(***************************************************************************)
\* u is s with f for its last element.
Topped(s, u, f) ==
  /\ Len(u) = Len(s) /\ u[Len(s)] = f
  /\ \A k \in 1 .. Len(s) - 1 : u[k] = s[k]
\* ... and with g above it.
Pushed(s, u, f, g) ==
  /\ Len(u) = Len(s) + 1 /\ u[Len(s)] = f /\ u[Len(s) + 1] = g
  /\ \A k \in 1 .. Len(s) - 1 : u[k] = s[k]
\* u is s without its last element.
Popped(s, u) ==
  /\ Len(u) = Len(s) - 1
  /\ \A k \in 1 .. Len(s) - 1 : u[k] = s[k]

\* A return takes the last element off.
LEMMA PopSeq ==
    ASSUME NEW S, NEW s \in Seq(S), s # <<>>
    PROVE  Front(s) \in Seq(S) /\ Popped(s, Front(s))
<1>1. Len(s) \in Nat /\ Len(s) # 0 /\ Len(s) - 1 \in Nat
  OBVIOUS
<1>2. Front(s) = SubSeq(s, 1, Len(s) - 1)
  BY DEF Front
<1>3. \A k \in 1 .. Len(s) - 1 : s[k] \in S
  BY <1>1
<1>4. Front(s) = [k \in 1 .. Len(s) - 1 |-> s[k]]
  BY <1>1, <1>2
<1>5. Front(s) \in Seq(S) /\ Len(Front(s)) = Len(s) - 1
  BY <1>1, <1>3, <1>4
<1> QED
  BY <1>4, <1>5 DEF Popped

\* A frame goes on: the last element is another.
LEMMA TopSeq ==
    ASSUME NEW S, NEW s \in Seq(S), s # <<>>, NEW f \in S
    PROVE  LET u == Append(Front(s), f) IN u \in Seq(S) /\ Topped(s, u, f)
<1>1. Front(s) \in Seq(S) /\ Popped(s, Front(s))
  BY PopSeq
<1>2. Len(s) \in Nat /\ Len(s) # 0
  OBVIOUS
<1> QED
  BY <1>1, <1>2 DEF Popped, Topped

\* A frame calls another one.
LEMMA PushSeq ==
    ASSUME NEW S, NEW s \in Seq(S), s # <<>>, NEW f \in S, NEW g \in S
    PROVE  LET u == Append(Front(s), f) \o <<g>>
           IN u \in Seq(S) /\ Pushed(s, u, f, g)
<1> DEFINE v == Append(Front(s), f)
<1>1. v \in Seq(S) /\ Topped(s, v, f)
  BY TopSeq
<1> HIDE DEF v
<1>2. v \o <<g>> \in Seq(S) /\ Pushed(s, v \o <<g>>, f, g)
  BY <1>1 DEF Topped, Pushed
<1> QED
  BY <1>2 DEF v

\* The first element is taken off when it has been dealt with.
LEMMA TailSeq ==
    ASSUME NEW S, NEW s \in Seq(S), s # <<>>
    PROVE  Head(s) \in Range(s) /\ Head(s) \in S /\ Tail(s) \in Seq(S)
           /\ Range(Tail(s)) \subseteq Range(s)
BY DEF Range

\* A new first element, as the lists of the code get it.
LEMMA ConsSeq ==
    ASSUME NEW S, NEW s \in Seq(S), NEW x \in S
    PROVE  LET u == <<x>> \o s
           IN /\ u \in Seq(S) /\ Range(u) = Range(s) \cup {x}
              /\ IsInjective(s) /\ x \notin Range(s) => IsInjective(u)
<1> DEFINE u == <<x>> \o s
<1>1. u \in Seq(S) /\ Len(u) = Len(s) + 1 /\ u[1] = x
      /\ \A k \in 1 .. Len(s) : u[k + 1] = s[k]
  OBVIOUS
<1>2. Len(s) \in Nat /\ DOMAIN s = 1 .. Len(s) /\ DOMAIN u = 1 .. Len(s) + 1
  BY <1>1
<1> HIDE DEF u
<1>3. \A k \in 2 .. Len(s) + 1 : k - 1 \in 1 .. Len(s) /\ u[k] = s[k - 1]
  BY <1>1, <1>2
<1>4. Range(u) = Range(s) \cup {x}
  <2>1. ASSUME NEW y \in Range(u) PROVE y \in Range(s) \cup {x}
    <3>1. PICK k \in 1 .. Len(s) + 1 : u[k] = y
      BY <1>2, <2>1 DEF Range
    <3>2. CASE k = 1
      BY <1>1, <3>1, <3>2
    <3>3. CASE k # 1
      BY <1>2, <1>3, <3>1, <3>3 DEF Range
    <3> QED
      BY <3>2, <3>3
  <2>2. ASSUME NEW k \in 1 .. Len(s) PROVE s[k] \in Range(u)
    BY <1>1, <1>2 DEF Range
  <2>3. x \in Range(u)
    BY <1>1, <1>2 DEF Range
  <2> QED
    BY <1>2, <2>1, <2>2, <2>3 DEF Range
<1>5. ASSUME IsInjective(s), x \notin Range(s) PROVE IsInjective(u)
  <2> SUFFICES ASSUME NEW a \in 1 .. Len(s) + 1, NEW b \in 1 .. Len(s) + 1,
                      u[a] = u[b]
               PROVE  a = b
    BY <1>2 DEF IsInjective
  <2>1. \A k \in 1 .. Len(s) : s[k] # x
    BY <1>2, <1>5 DEF Range
  <2>2. CASE a = 1 \/ b = 1
    BY <1>1, <1>2, <1>3, <2>1, <2>2
  <2>3. CASE a # 1 /\ b # 1
    BY <1>2, <1>3, <1>5, <2>3 DEF IsInjective
  <2> QED
    BY <2>2, <2>3
<1> QED
  BY <1>1, <1>4, <1>5 DEF u

\* A set of naturals has a least element.
LEMMA LeastIndex ==
    ASSUME NEW T \in SUBSET Nat, T # {}
    PROVE  \E x \in T : \A y \in T : x <= y
<1>1. PICK x \in T : \A y \in T : <<y, x>> \notin OpToRel(<, Nat)
  BY NatLessThanWellFounded, WFMin
<1>2. \A y \in T : ~(y < x)
  BY <1>1 DEF OpToRel
<1> QED
  BY <1>2

\* What is taken out of a list is no longer on it, and the rest still is.
LEMMA RemoveSeq ==
    ASSUME NEW S, NEW s \in Seq(S), IsInjective(s), NEW x
    PROVE  LET u == RemoveFirst(s, x)
           IN u \in Seq(S) /\ IsInjective(u) /\ Range(u) = Range(s) \ {x}
<1> DEFINE n == Len(s)
           I == {i \in 1 .. n : s[i] = x}
           k == CHOOSE i \in I : \A j \in I : i <= j
           u == SubSeq(s, 1, k - 1) \o SubSeq(s, k + 1, n)
<1>1. n \in Nat /\ DOMAIN s = 1 .. n /\ \A i \in 1 .. n : s[i] \in S
  OBVIOUS
<1>2. CASE I = {}
  <2>1. \A i \in 1 .. n : s[i] # x
    BY <1>2
  <2>2. RemoveFirst(s, x) = s
    BY <2>1 DEF RemoveFirst
  <2> QED
    BY <1>1, <2>1, <2>2 DEF Range
<1>3. CASE I # {}
  <2>1. I \in SUBSET Nat
    BY <1>1
  <2>2. k \in I
    <3> HIDE DEF I
    <3> QED
      BY <1>3, <2>1, LeastIndex
  <2>3. RemoveFirst(s, x) = u
    <3>1. \E i \in 1 .. n : s[i] = x
      BY <1>3
    <3>2. SelectInSeq(s, LAMBDA v : v = x) = k
      BY <1>3 DEF SelectInSeq, Min
    <3> HIDE DEF k
    <3> QED
      BY <3>1, <3>2 DEF RemoveFirst, RemoveAt
  <2>4. k \in 1 .. n /\ s[k] = x
    BY <2>2
  <2> HIDE DEF k, I
  <2>5. \A i \in 1 .. n : i # k => s[i] # x
    BY <1>1, <2>4 DEF IsInjective
  <2> DEFINE w == [i \in 1 .. n - 1 |-> IF i < k THEN s[i] ELSE s[i + 1]]
  <2>6. u = w
    <3> DEFINE p == SubSeq(s, 1, k - 1)
               q == SubSeq(s, k + 1, n)
    <3>1. p = [i \in 1 .. k - 1 |-> s[i]]
      BY <1>1, <2>4
    <3>2. q = [i \in 1 .. n - k |-> s[i + k]]
      BY <1>1, <2>4
    <3> HIDE DEF p, q
    <3>3. k - 1 \in Nat /\ n - k \in Nat /\ n - 1 \in Nat
          /\ n - 1 = (k - 1) + (n - k)
      BY <1>1, <2>4
    <3>4. \A i \in 1 .. k - 1 : s[i] \in S
      BY <1>1, <2>4
    <3>5. \A i \in 1 .. n - k : s[i + k] \in S
      BY <1>1, <2>4
    <3>6. p \in Seq(S) /\ Len(p) = k - 1
      BY <3>1, <3>3, <3>4
    <3>7. q \in Seq(S) /\ Len(q) = n - k
      BY <3>2, <3>3, <3>5
    <3>8. p \o q \in Seq(S) /\ Len(p \o q) = n - 1
      BY <3>3, <3>6, <3>7
    <3>9. \A i \in 1 .. n - 1 : (p \o q)[i] = w[i]
      <4> TAKE i \in 1 .. n - 1
      <4>1. CASE i < k
        <5>1. i \in 1 .. k - 1
          BY <1>1, <2>4, <4>1
        <5>2. (p \o q)[i] = p[i]
          BY <3>6, <3>7, <5>1
        <5> QED
          BY <3>1, <4>1, <5>1, <5>2
      <4>2. CASE ~(i < k)
        <5>1. i - (k - 1) \in 1 .. n - k /\ i - (k - 1) + k = i + 1
          BY <1>1, <2>4, <4>2
        <5>2. Len(p) \in Nat /\ Len(q) \in Nat /\ i \in (Len(p) + 1) .. (Len(p) + Len(q))
          BY <1>1, <2>4, <3>6, <3>7, <4>2
        <5>3. (p \o q)[i] = q[i - Len(p)]
          BY <3>6, <3>7, <5>2
        <5>4. (p \o q)[i] = q[i - (k - 1)]
          BY <3>6, <5>3
        <5>5. q[i - (k - 1)] = s[i - (k - 1) + k]
          BY <3>2, <5>1
        <5> QED
          BY <4>2, <5>1, <5>4, <5>5
      <4> QED
        BY <4>1, <4>2
    <3>10. p \o q = w
      <4> DEFINE r == p \o q
      <4>3. r \in Seq(S) /\ Len(r) = n - 1
        BY <3>8
      <4>4. \A i \in 1 .. n - 1 : r[i] = w[i]
        BY <3>9
      <4> HIDE DEF r
      <4>1. r = [i \in 1 .. n - 1 |-> r[i]]
        BY <4>3
      <4> HIDE DEF w
      <4>2. r = [i \in 1 .. n - 1 |-> w[i]]
        BY <4>1, <4>4
      <4> QED
        BY <4>2 DEF r, w
    <3> QED
      BY <3>10 DEF p, q
  <2> HIDE DEF u
  <2>7. w \in Seq(S) /\ DOMAIN w = 1 .. n - 1
    BY <1>1, <2>4
  <2>8. \A i \in 1 .. n - 1 :
          \/ i < k /\ i \in 1 .. n /\ w[i] = s[i]
          \/ i >= k /\ i + 1 \in 1 .. n /\ i + 1 # k /\ w[i] = s[i + 1]
    BY <1>1, <2>4
  <2>9. \A i \in 1 .. n :
          \/ i = k
          \/ i < k /\ i \in 1 .. n - 1 /\ w[i] = s[i]
          \/ i > k /\ i - 1 \in 1 .. n - 1 /\ w[i - 1] = s[i]
    BY <1>1, <2>4
  <2> HIDE DEF w
  <2>10. IsInjective(w)
    <3> SUFFICES ASSUME NEW a \in 1 .. n - 1, NEW b \in 1 .. n - 1, w[a] = w[b]
                 PROVE  a = b
      BY <2>7 DEF IsInjective
    <3>1. CASE a < k /\ b < k
      BY <1>1, <2>4, <2>8, <3>1 DEF IsInjective
    <3>2. CASE a < k /\ b >= k
      <4>1. s[a] = s[b + 1] /\ a \in 1 .. n /\ b + 1 \in 1 .. n
        BY <1>1, <2>4, <2>8, <3>2
      <4>2. a = b + 1
        BY <1>1, <4>1 DEF IsInjective
      <4> QED
        BY <1>1, <2>4, <3>2, <4>2
    <3>3. CASE a >= k /\ b < k
      <4>1. s[b] = s[a + 1] /\ b \in 1 .. n /\ a + 1 \in 1 .. n
        BY <1>1, <2>4, <2>8, <3>3
      <4>2. b = a + 1
        BY <1>1, <4>1 DEF IsInjective
      <4> QED
        BY <1>1, <2>4, <3>3, <4>2
    <3>4. CASE a >= k /\ b >= k
      <4>1. s[b + 1] = s[a + 1] /\ b + 1 \in 1 .. n /\ a + 1 \in 1 .. n
        BY <1>1, <2>4, <2>8, <3>4
      <4>2. b + 1 = a + 1
        BY <1>1, <4>1 DEF IsInjective
      <4> QED
        BY <4>2
    <3> QED
      BY <1>1, <2>4, <3>1, <3>2, <3>3, <3>4
  <2>11. Range(w) = Range(s) \ {x}
    <3>1. ASSUME NEW i \in 1 .. n - 1 PROVE w[i] \in Range(s) \ {x}
      BY <1>1, <2>4, <2>5, <2>8 DEF Range
    <3>2. ASSUME NEW i \in 1 .. n, s[i] # x PROVE s[i] \in Range(w)
      <4>1. i # k
        BY <2>4, <3>2
      <4> QED
        BY <2>7, <2>9, <4>1 DEF Range
    <3> QED
      BY <1>1, <2>7, <3>1, <3>2 DEF Range
  <2> QED
    BY <2>3, <2>6, <2>7, <2>10, <2>11
<1> QED
  BY <1>2, <1>3

\* A set of indices has a greatest element.
LEMMA GreatestIndex ==
    ASSUME NEW n \in Nat, NEW T \in SUBSET (1 .. n), T # {}
    PROVE  \E x \in T : \A y \in T : y <= x
<1> DEFINE U == {n - y : y \in T}
<1>1. U \in SUBSET Nat /\ U # {}
  <2>1. \A y \in T : n - y \in Nat
    OBVIOUS
  <2> QED
    BY <2>1
<1>2. PICK u \in U : \A v \in U : u <= v
  <2> HIDE DEF U
  <2> QED
    BY <1>1, LeastIndex
<1>3. PICK x \in T : u = n - x
  OBVIOUS
<1>4. \A y \in T : n - x <= n - y
  BY <1>2, <1>3
<1> QED
  BY <1>3, <1>4

-----------------------------------------------------------------------------
(***************************************************************************)
(* What the searches of the code answer.                                   *)
(***************************************************************************)
\* The devices, as a sequence.
LEMMA DevicesSeq ==
  /\ Devices \in Seq(Range(Devices)) /\ DOMAIN Devices = 1 .. Len(Devices)
  /\ Len(Devices) \in Nat
  /\ \A k \in DOMAIN Devices : Devices[k] \in Range(Devices)
  /\ \A o \in Offers : o[1] \in Range(Devices)
<1>1. Range(Devices) = {Devices[k] : k \in DOMAIN Devices}
  BY DEF Range
<1> QED
  BY <1>1, DevicesAssumption

\* find_handler answers with a handler of the device, or with none.
LEMMA FoundSound ==
    ASSUME OpTypes, NEW d \in Range(Devices), NEW space
    PROVE  LET h == find_handler(d, space)
           IN /\ h \in Ids \cup {NoHandler}
              /\ h # NoHandler => h \in Range(lists[d])
<1> DEFINE s == lists[d]
           I == {i \in 1 .. Len(s) : hnd[s[i]].space = space}
           k == CHOOSE i \in I : \A j \in I : i <= j
<1>1. s \in Seq(Ids) /\ Len(s) \in Nat /\ DOMAIN s = 1 .. Len(s)
  BY DEF OpTypes
<1>2. find_handler(d, space) = LET m == IF I # {} THEN k ELSE 0
                               IN IF m = 0 THEN NoHandler ELSE s[m]
  BY DEF find_handler, SelectInSeq, Min
<1>3. CASE I = {}
  BY <1>2, <1>3
<1>4. CASE I # {}
  <2>1. I \in SUBSET Nat
    BY <1>1
  <2>2. k \in I
    <3> HIDE DEF I
    <3> QED
      BY <1>4, <2>1, LeastIndex
  <2> HIDE DEF k
  <2>3. k \in 1 .. Len(s) /\ k # 0
    BY <1>1, <2>2
  <2> HIDE DEF I
  <2>4. find_handler(d, space) = s[k]
    BY <1>2, <1>4, <2>3
  <2>5. s[k] \in Ids /\ s[k] \in Range(s)
    BY <1>1, <2>3 DEF Range
  <2> QED
    BY <2>4, <2>5
<1> QED
  BY <1>3, <1>4

\* The search upwards answers with a handler, or with none.
LEMMA NearestSound ==
    ASSUME OpTypes, NEW d, NEW space
    PROVE  Nearest(d, space) \in Ids \cup {NoHandler}
<1> DEFINE with == {k \in Above(d) : find_handler(Devices[k], space) # NoHandler}
           best == CHOOSE k \in with : \A j \in with : j <= k
<1>1. Nearest(d, space) = IF with = {} THEN NoHandler
                          ELSE find_handler(Devices[best], space)
  BY DEF Nearest
<1>2. CASE with = {}
  BY <1>1, <1>2
<1>3. CASE with # {}
  <2>1. with \in SUBSET (1 .. Len(Devices)) /\ Len(Devices) \in Nat
    BY DevicesSeq DEF Above
  <2>2. best \in with
    <3> HIDE DEF with
    <3> QED
      BY <1>3, <2>1, GreatestIndex
  <2>3. Devices[best] \in Range(Devices)
    BY <2>1, <2>2, DevicesSeq
  <2> HIDE DEF with, best
  <2> QED
    BY <1>1, <1>3, <2>3, FoundSound
<1> QED
  BY <1>2, <1>3

\* The order of an iteration is a sequence of regions.
LEMMA OrderSeq == Order \in Seq(Names) /\ Len(Order) \in Nat
<1> DEFINE n == Cardinality(Names)
<1>1. n \in Nat /\ ExistsBijection(1 .. n, Names)
  BY RegionsAssumption, FS_CardinalityType DEF Names
<1>2. \E f \in [1 .. n -> Names] : IsInjective(f)
  <2>1. PICK f \in Bijection(1 .. n, Names) : TRUE
    BY <1>1 DEF ExistsBijection
  <2>2. f \in [1 .. n -> Names] /\ \A a, b \in 1 .. n : f[a] = f[b] => a = b
    BY <2>1 DEF Bijection, Injection, IsInjective
  <2> QED
    BY <2>2 DEF IsInjective
<1>3. Order \in [1 .. n -> Names]
  BY <1>2 DEF Order, SetToSeq
<1> QED
  BY <1>1, <1>3

\* What is asked of a region that is to be visited, and the recursion of Visit:
\* f is that function up to n.
Wanted(d, space, temps, stop, r) ==
  LET e == Regions[r].dev
  IN /\ reg[r].exists /\ Regions[r].space = space /\ Below(d, e)
     /\ Regions[r].temp => temps
     /\ stop => \A k \in DOMAIN Devices :
                  Below(d, Devices[k]) /\ Devices[k] # d /\ Below(Devices[k], e)
                    => find_handler(Devices[k], space) = NoHandler
Visiting(d, space, temps, stop, f, n) ==
  f = [k \in 0 .. n |-> IF k = 0 THEN <<>>
                        ELSE IF Wanted(d, space, temps, stop, Order[k])
                             THEN Append(f[k - 1], Order[k])
                        ELSE f[k - 1]]
Longer(W, s, r) == IF W THEN Append(s, r) ELSE s

\* There is such a function for every number of regions.
LEMMA VisitingExists ==
    ASSUME NEW d, NEW space, NEW temps, NEW stop, NEW n \in Nat
    PROVE  \E f : Visiting(d, space, temps, stop, f, n)
<1> DEFINE W(k) == Wanted(d, space, temps, stop, Order[k])
           T == {k \in Nat : ~\E f : Visiting(d, space, temps, stop, f, k)}
<1> SUFFICES ASSUME T # {} PROVE FALSE
  OBVIOUS
<1>1. PICK k \in T : \A j \in T : k <= j
  <2>1. T \in SUBSET Nat
    OBVIOUS
  <2> HIDE DEF T
  <2> QED
    BY <2>1, LeastIndex
<1>2. k # 0
  <2>1. Visiting(d, space, temps, stop, [j \in 0 .. 0 |-> <<>>], 0)
    BY DEF Visiting
  <2> QED
    BY <2>1
<1>3. k - 1 \in Nat /\ k - 1 \notin T
  BY <1>1, <1>2
<1>4. PICK f : Visiting(d, space, temps, stop, f, k - 1)
  BY <1>3
<1> DEFINE g == [j \in 0 .. k |-> IF j < k THEN f[j] ELSE Longer(W(k), f[k - 1], Order[k])]
<1>5. /\ DOMAIN f = 0 .. (k - 1) /\ f[0] = <<>>
      /\ \A j \in 1 .. (k - 1) : f[j] = Longer(W(j), f[j - 1], Order[j])
  <2>1. 0 \in 0 .. (k - 1) /\ \A j \in 1 .. (k - 1) : j \in 0 .. (k - 1) /\ j # 0
    BY <1>3
  <2> QED
    BY <1>4, <2>1 DEF Visiting, Longer
<1> HIDE DEF W
<1>6. \A j \in 0 .. k : g[j] = IF j = 0 THEN <<>> ELSE Longer(W(j), g[j - 1], Order[j])
  <2> SUFFICES ASSUME NEW j \in 0 .. k
               PROVE  g[j] = IF j = 0 THEN <<>> ELSE Longer(W(j), g[j - 1], Order[j])
    OBVIOUS
  <2>1. CASE j = 0
    BY <1>2, <1>5, <2>1
  <2>2. CASE j \in 1 .. (k - 1)
    BY <1>5, <2>2
  <2>3. CASE j = k
    BY <1>2, <1>3, <2>3
  <2> QED
    BY <1>3, <2>1, <2>2, <2>3
<1>7. Visiting(d, space, temps, stop, g, k)
  BY <1>6 DEF Visiting, W, Longer
<1> QED
  BY <1>1, <1>7

\* An iteration visits regions that are there.
LEMMA VisitSound ==
    ASSUME OpTypes, NEW d, NEW space, NEW temps, NEW stop
    PROVE  LET s == Visit(d, space, temps, stop)
           IN s \in Seq(Names) /\ \A q \in Range(s) : reg[q].exists
<1> DEFINE n == Len(Order)
           f == CHOOSE f : Visiting(d, space, temps, stop, f, n)
           Good(s) == s \in Seq(Names) /\ \A q \in Range(s) : reg[q].exists
<1>1. n \in Nat /\ \A k \in 1 .. n : Order[k] \in Names
  BY OrderSeq
<1>2. Visiting(d, space, temps, stop, f, n)
  BY <1>1, VisitingExists
<1>3. Visit(d, space, temps, stop) = f[n]
  BY DEF Visit, Visiting, Wanted
<1> HIDE DEF f
<1>4. f[0] = <<>>
      /\ \A k \in 1 .. n : f[k] = Longer(Wanted(d, space, temps, stop, Order[k]),
                                         f[k - 1], Order[k])
  <2> HIDE DEF n
  <2>1. 0 \in 0 .. n /\ \A k \in 1 .. n : k \in 0 .. n /\ k # 0
    BY <1>1
  <2> QED
    BY <1>2, <2>1 DEF Visiting, Longer
<1> DEFINE T == {k \in 0 .. n : ~Good(f[k])}
<1>5. T = {}
  <2> SUFFICES ASSUME T # {} PROVE FALSE
    OBVIOUS
  <2>1. PICK k \in T : \A j \in T : k <= j
    <3>1. T \in SUBSET Nat
      BY <1>1
    <3> HIDE DEF T
    <3> QED
      BY <3>1, LeastIndex
  <2>2. k # 0
    <3>1. Good(<<>>)
      BY DEF Range
    <3> QED
      BY <1>4, <2>1, <3>1
  <2>3. k \in 1 .. n /\ k - 1 \in 0 .. n /\ k - 1 \notin T
    BY <1>1, <2>1, <2>2
  <2>4. Good(f[k - 1])
    BY <2>3
  <2> HIDE DEF T
  <2>5. Good(f[k])
    <3>1. CASE Wanted(d, space, temps, stop, Order[k])
      <4> DEFINE v == f[k - 1]
                 r == Order[k]
      <4>1. f[k] = Append(v, r) /\ r \in Names /\ reg[r].exists /\ v \in Seq(Names)
        BY <1>1, <1>4, <2>3, <2>4, <3>1 DEF Longer, Wanted
      <4>2. \A q \in Range(v) : reg[q].exists
        BY <2>4
      <4> HIDE DEF v, r
      <4>3. Append(v, r) \in Seq(Names) /\ Range(Append(v, r)) \subseteq Range(v) \cup {r}
        BY <4>1 DEF Range
      <4> QED
        BY <4>1, <4>2, <4>3
    <3>2. CASE ~Wanted(d, space, temps, stop, Order[k])
      BY <1>4, <2>3, <2>4, <3>2 DEF Longer
    <3> QED
      BY <3>1, <3>2
  <2> QED
    BY <2>1, <2>5 DEF T
<1>6. Good(f[n])
  BY <1>1, <1>5
<1> QED
  BY <1>3, <1>6

-----------------------------------------------------------------------------
(***************************************************************************)
(* The calls of one thread: s is its stack, p its place in the lock, h how *)
(* often it has the lock, and m whether it has the namespace.              *)
(***************************************************************************)
StackOk(s, t) ==
  /\ Len(s) <= 3
  /\ \A k \in DOMAIN s : FrameFits(s[k])
  /\ Len(s) > 0 => s[1].call \in Acquiring /\ (s[1].call \in Api <=> t \in Users)
  /\ Len(s) > 1 => MayCall(s[1], s[2])
  /\ Len(s) > 2 => MayCallAgain(s[2], s[3])
Under(s) == IF Len(s) > 1 THEN 1 ELSE 0
HeldOk(s, p, h) ==
  /\ s = <<>> => p = "ready" /\ h = 0
  /\ s # <<>> /\ Last(s).at = "acquire" =>
       /\ Last(s).held = Under(s)
       /\ p \in {"ready", "acquire", "take", "store"}
       /\ h # Under(s) => h = Under(s) + 1 /\ p = "ready"
       /\ Last(s).call = "uninstall_node" /\ p = "ready" => h # Under(s)
  /\ s # <<>> /\ Last(s).at = "release" =>
       /\ p \in {"ready", "release", "drop", "unlock"}
       /\ h = Under(s) + (IF p = "release" THEN 1 ELSE 0)
  /\ s # <<>> /\ Last(s).at \notin {"acquire", "release"} =>
       /\ p = "ready"
       /\ h = Under(s) + (IF Inside(Last(s)) THEN 1 ELSE 0)
NsOk(s, m) == m <=> s # <<>> /\ ~Away(Last(s))
Fits(t, s, p, h, m) == StackOk(s, t) /\ HeldOk(s, p, h) /\ NsOk(s, m)

\* CallsFit, thread by thread.
LEMMA CallsFitNow ==
  CallsFit <=> \A t \in Threads : Fits(t, th[t], pc[t], held[t], ns = t)
BY DEF CallsFit, Fits, StackFit, StackOk, HeldFit, HeldOk, NsFit, NsOk, Under,
       Beneath, Idle, Unlocked, Fr

\* ... and after a step.
LEMMA CallsFitNext ==
  CallsFit' <=> \A t \in Threads : Fits(t, th'[t], pc'[t], held'[t], ns' = t)
BY DEF CallsFit, Fits, StackFit, StackOk, HeldFit, HeldOk, NsFit, NsOk, Under,
       Beneath, Idle, Unlocked, Fr

\* A step of t leaves the calls of the others as they are.
Others(t) ==
  \A u \in Threads : u # t => /\ th'[u] = th[u] /\ pc'[u] = pc[u] /\ held'[u] = held[u]
                              /\ (ns' = u <=> ns = u)
\* A step of t is to be looked at for t only.
LEMMA ThreadStep ==
    ASSUME CallsFit, NEW t \in Threads, Others(t),
           Fits(t, th'[t], pc'[t], held'[t], ns' = t)
    PROVE  CallsFit'
<1> SUFFICES ASSUME NEW u \in Threads
             PROVE  Fits(u, th'[u], pc'[u], held'[u], ns' = u)
  BY CallsFitNext
<1>1. CASE u = t
  BY <1>1
<1>2. CASE u # t
  <2>1. /\ th'[u] = th[u] /\ pc'[u] = pc[u] /\ held'[u] = held[u]
        /\ (ns' = u <=> ns = u)
    BY <1>2 DEF Others
  <2>2. Fits(u, th[u], pc[u], held[u], ns = u)
    BY CallsFitNow
  <2> QED
    BY <2>1, <2>2 DEF Fits, NsOk
<1> QED
  BY <1>1, <1>2

\* The lengths a stack can have.
LEMMA ThreeAtMost ==
    ASSUME NEW n \in Nat, n <= 3
    PROVE  n = 0 \/ n = 1 \/ n = 2 \/ n = 3
OBVIOUS

\* The lengths of a stack with a call on it.
LEMMA OneOrMore ==
    ASSUME NEW n \in Nat, n # 0
    PROVE  n = 1 \/ n > 1
OBVIOUS

\* The last element of a stack.
LEMMA LastSeq ==
    ASSUME NEW S, NEW s \in Seq(S), s # <<>>
    PROVE  Last(s) = s[Len(s)] /\ Len(s) \in Nat \ {0} /\ Last(s) \in S
BY DEF Last

\* The call goes on: it is still the same call.
SameCall(e, f) ==
  /\ f.call = e.call /\ f.r = e.r /\ f.unreg = e.unreg
  /\ f.call \in {"region_uninstall", "_REG"} => f.code = e.code
Settled(f) == f.at \notin {"acquire", "release"}

\* The call on top goes on: the stack still is one the code can have.
LEMMA RetopStack ==
    ASSUME NEW t, NEW s \in Seq(FrameType), s # <<>>, NEW u \in Seq(FrameType), NEW f,
           StackOk(s, t), Topped(s, u, f), SameCall(Last(s), f), FrameFits(f)
    PROVE  /\ StackOk(u, t) /\ Last(u) = f /\ u # <<>> /\ Len(u) = Len(s)
           /\ DOMAIN u = 1 .. Len(s) /\ \A k \in 1 .. Len(s) : k # Len(s) => u[k] = s[k]
<1>1. Last(s) = s[Len(s)] /\ Len(s) \in Nat \ {0}
  BY LastSeq
<1>2. Len(u) = Len(s) /\ Last(u) = f /\ u # <<>> /\ DOMAIN u = 1 .. Len(s)
      /\ DOMAIN s = 1 .. Len(s)
  BY <1>1, LastSeq DEF Topped
<1>3. \A k \in 1 .. Len(s) : k # Len(s) => u[k] = s[k]
  BY <1>1 DEF Topped
<1>4. StackOk(u, t)
  <2>1. \A k \in DOMAIN u : FrameFits(u[k])
    BY <1>1, <1>2, <1>3 DEF StackOk, Topped
  <2>2. StackOk(s, t)
    OBVIOUS
  <2>3. SameCall(s[Len(s)], f) /\ u[Len(s)] = f
    BY <1>1 DEF Topped
  <2>4. CASE Len(s) = 1
    BY <1>2, <2>1, <2>2, <2>3, <2>4 DEF StackOk, SameCall
  <2>5. CASE Len(s) = 2
    <3>1. u[1] = s[1] /\ u[2] = f /\ Len(u) = 2 /\ SameCall(s[2], f)
      BY <1>2, <1>3, <2>3, <2>5
    <3>2. MayCall(s[1], s[2]) /\ s[1].call \in Acquiring
          /\ (s[1].call \in Api <=> t \in Users)
      BY <2>2, <2>5 DEF StackOk
    <3>3. MayCall(s[1], f)
      BY <3>1, <3>2 DEF MayCall, SameCall
    <3> QED
      BY <2>1, <3>1, <3>2, <3>3 DEF StackOk
  <2>6. CASE Len(s) = 3
    <3>1. u[1] = s[1] /\ u[2] = s[2] /\ u[3] = f /\ Len(u) = 3 /\ SameCall(s[3], f)
      BY <1>2, <1>3, <2>3, <2>6
    <3>2. /\ MayCall(s[1], s[2]) /\ s[1].call \in Acquiring
          /\ s[1].call \in Api <=> t \in Users
          /\ MayCallAgain(s[2], s[3])
      BY <2>2, <2>6 DEF StackOk
    <3>3. MayCallAgain(s[2], f)
      BY <3>1, <3>2 DEF MayCallAgain, SameCall
    <3> QED
      BY <2>1, <3>1, <3>2, <3>3 DEF StackOk
  <2>7. Len(s) \in Nat /\ Len(s) # 0 /\ Len(s) <= 3
    BY <1>1, <2>2 DEF StackOk
  <2>8. Len(s) = 1 \/ Len(s) = 2 \/ Len(s) = 3
    BY <2>7, ThreeAtMost
  <2> QED
    BY <2>4, <2>5, <2>6, <2>8
<1> QED
  BY <1>2, <1>3, <1>4

\* ... and fits the locks.
LEMMA RetopFits ==
    ASSUME NEW t, NEW s \in Seq(FrameType), s # <<>>, NEW u \in Seq(FrameType), NEW f,
           NEW h, NEW m, NEW n \in BOOLEAN, Fits(t, s, "ready", h, m), Topped(s, u, f),
           SameCall(Last(s), f), FrameFits(f), Settled(Last(s)), Settled(f),
           Inside(Last(s)) <=> Inside(f), n <=> ~Away(f)
    PROVE  Fits(t, u, "ready", h, n)
<1>1. Last(s) = s[Len(s)] /\ Len(s) \in Nat \ {0}
  BY LastSeq
<1>2. StackOk(u, t) /\ Last(u) = f /\ u # <<>> /\ Len(u) = Len(s)
  BY RetopStack DEF Fits
<1>3. HeldOk(u, "ready", h)
  BY <1>1, <1>2 DEF Fits, HeldOk, Under, Settled
<1> QED
  BY <1>2, <1>3 DEF Fits, NsOk

\* A call made by the call on top fits the locks.
LEMMA PushFits ==
    ASSUME NEW t, NEW s \in Seq(FrameType), s # <<>>, NEW u \in Seq(FrameType), NEW f,
           NEW g, NEW h, NEW m \in BOOLEAN, Fits(t, s, "ready", h, m), Pushed(s, u, f, g),
           SameCall(Last(s), f), FrameFits(f), FrameFits(g),
           Settled(Last(s)), g.at = "start",
           g.call \in {"region_uninstall", "_REG", "io"}, ~Away(Last(s)),
           \/ Len(s) = 1 /\ Inside(Last(s)) /\ MayCall(f, g)
           \/ Len(s) = 2 /\ ~Inside(Last(s)) /\ MayCallAgain(f, g)
    PROVE  Fits(t, u, "ready", h, m)
<1>1. Last(s) = s[Len(s)] /\ Len(s) \in Nat \ {0}
  BY LastSeq
<1>2. Len(u) = Len(s) + 1 /\ Last(u) = g /\ u # <<>> /\ DOMAIN u = 1 .. Len(s) + 1
      /\ DOMAIN s = 1 .. Len(s)
  BY <1>1, LastSeq DEF Pushed
<1>3. StackOk(u, t)
  <2>1. CASE Len(s) = 1 /\ MayCall(f, g)
    BY <1>1, <1>2, <2>1 DEF Fits, StackOk, Pushed, SameCall
  <2>2. CASE Len(s) = 2 /\ MayCallAgain(f, g)
    <3>1. u[1] = s[1] /\ u[2] = f /\ u[3] = g /\ Len(u) = 3
      BY <1>2, <2>2 DEF Pushed
    <3>2. MayCall(s[1], s[2]) /\ SameCall(s[2], f)
      BY <1>1, <2>2 DEF Fits, StackOk
    <3>3. MayCall(s[1], f)
      BY <3>2 DEF MayCall, SameCall
    <3>4. FrameFits(s[1]) /\ s[1].call \in Acquiring /\ (s[1].call \in Api <=> t \in Users)
      BY <1>1, <1>2, <2>2 DEF Fits, StackOk
    <3>5. \A k \in DOMAIN u : k = 1 \/ k = 2 \/ k = 3
      BY <1>2, <2>2
    <3> QED
      BY <2>2, <3>1, <3>3, <3>4, <3>5 DEF StackOk
  <2> QED
    BY <2>1, <2>2
<1>4. HeldOk(u, "ready", h)
  <2>1. h = 1
    BY <1>1 DEF Fits, HeldOk, Under, Settled
  <2>2. ~Inside(g) /\ Under(u) = 1
    BY <1>1, <1>2 DEF Inside, Outside, Under
  <2> QED
    BY <1>2, <2>1, <2>2 DEF HeldOk
<1>5. ~Away(g)
  BY DEF Away, Api
<1> QED
  BY <1>2, <1>3, <1>4, <1>5 DEF Fits, NsOk

\* So does what is left when a call returns.
LEMMA PopFits ==
    ASSUME NEW t, NEW s \in Seq(FrameType), NEW u \in Seq(FrameType),
           Len(s) > 1, NEW h, NEW m, Fits(t, s, "ready", h, m), Popped(s, u),
           Last(s).at # "acquire", ~Inside(Last(s)), ~Away(Last(s))
    PROVE  Fits(t, u, "ready", h, m)
<1>1. s # <<>> /\ Last(s) = s[Len(s)] /\ Len(s) \in Nat
  BY LastSeq
<1>2. Len(s) = 2 \/ Len(s) = 3
  <2>1. Len(s) <= 3
    BY DEF Fits, StackOk
  <2>2. Len(s) = 0 \/ Len(s) = 1 \/ Len(s) = 2 \/ Len(s) = 3
    BY <1>1, <2>1, ThreeAtMost
  <2>3. Len(s) # 0 /\ Len(s) # 1
    BY <1>1
  <2> QED
    BY <2>2, <2>3
<1>3. Len(u) = Len(s) - 1 /\ u # <<>> /\ DOMAIN u = 1 .. Len(s) - 1
      /\ \A k \in DOMAIN u : u[k] = s[k] /\ k \in DOMAIN s
  BY <1>1, <1>2 DEF Popped
<1>4. Last(u) = u[Len(u)]
  BY <1>3, LastSeq
<1>5. h = 1
  BY <1>1, <1>2 DEF Fits, HeldOk, Under
<1>6. StackOk(u, t)
  BY <1>1, <1>2, <1>3 DEF Fits, StackOk
<1>7. Last(u).at \notin {"acquire", "release"} /\ ~Away(Last(u))
      /\ (Inside(Last(u)) <=> Len(u) = 1)
  <2>1. CASE Len(s) = 2
    <3>1. Last(u) = s[1] /\ MayCall(s[1], s[2]) /\ Len(u) = 1
      BY <1>3, <1>4, <2>1 DEF Fits, StackOk
    <3> QED
      BY <3>1 DEF MayCall, Inside, Outside, Away, Acquiring, Api
  <2>2. CASE Len(s) = 3
    <3>1. Last(u) = s[2] /\ MayCallAgain(s[2], s[3]) /\ Len(u) = 2
      BY <1>3, <1>4, <2>2 DEF Fits, StackOk
    <3> QED
      BY <3>1 DEF MayCallAgain, Inside, Outside, Away, Acquiring, Api
  <2> QED
    BY <1>2, <2>1, <2>2
<1>8. HeldOk(u, "ready", h)
  BY <1>3, <1>5, <1>7, <1>2 DEF HeldOk, Under
<1> QED
  BY <1>1, <1>3, <1>6, <1>7, <1>8 DEF Fits, NsOk

-----------------------------------------------------------------------------
(***************************************************************************)
(* Steps of the calls.                                                     *)
(***************************************************************************)
SameOthers(t) == \A u \in Threads : u # t => th'[u] = th[u]
Topping(t, f) ==
  /\ th' \in [Threads -> Seq(FrameType)] /\ SameOthers(t)
  /\ f \in FrameType /\ Topped(th[t], th'[t], f)
Pushing(t, f, g) ==
  /\ th' \in [Threads -> Seq(FrameType)] /\ SameOthers(t)
  /\ f \in FrameType /\ g \in FrameType /\ Pushed(th[t], th'[t], f, g)
Popping(t) ==
  /\ th' \in [Threads -> Seq(FrameType)] /\ SameOthers(t)
  /\ Popped(th[t], th'[t])

\* Set goes on with the call on top.
LEMMA SetTops ==
    ASSUME OpTypes, NEW t \in Threads, ~Idle(t), NEW f \in FrameType, Set(t, f)
    PROVE  Topping(t, f)
<1>1. th \in [Threads -> Seq(FrameType)] /\ th[t] \in Seq(FrameType) /\ th[t] # <<>>
  BY DEF OpTypes, Idle
<1>2. LET u == Append(Front(th[t]), f) IN u \in Seq(FrameType) /\ Topped(th[t], u, f)
  BY <1>1, TopSeq
<1>3. th' = [th EXCEPT ![t] = Append(Front(th[t]), f)]
  BY DEF Set
<1> QED
  BY <1>1, <1>2, <1>3 DEF Topping, SameOthers

PushesTo(t, f, g) == th' = [th EXCEPT ![t] = Append(Front(@), f) \o << g >>]
\* A call puts its frame on top.
LEMMA CallPushes ==
    ASSUME OpTypes, NEW t \in Threads, ~Idle(t), NEW f \in FrameType,
           NEW g \in FrameType, PushesTo(t, f, g)
    PROVE  Pushing(t, f, g)
<1>1. th \in [Threads -> Seq(FrameType)] /\ th[t] \in Seq(FrameType) /\ th[t] # <<>>
  BY DEF OpTypes, Idle
<1>2. LET u == Append(Front(th[t]), f) \o <<g>>
      IN u \in Seq(FrameType) /\ Pushed(th[t], u, f, g)
  BY <1>1, PushSeq
<1>3. th' = [th EXCEPT ![t] = Append(Front(th[t]), f) \o <<g>>]
  BY DEF PushesTo
<1> QED
  BY <1>1, <1>2, <1>3 DEF Pushing, SameOthers

\* A return takes it off.
LEMMA ReturnPops ==
    ASSUME OpTypes, NEW t \in Threads, ~Idle(t), Return(t)
    PROVE  Popping(t)
<1>1. th \in [Threads -> Seq(FrameType)] /\ th[t] \in Seq(FrameType) /\ th[t] # <<>>
  BY DEF OpTypes, Idle
<1>2. Front(th[t]) \in Seq(FrameType) /\ Popped(th[t], Front(th[t]))
  BY <1>1, PopSeq
<1>3. th' = [th EXCEPT ![t] = Front(th[t])]
  BY DEF Return
<1> QED
  BY <1>1, <1>2, <1>3 DEF Popping, SameOthers

\* The lock is not concerned; the namespace is kept, taken or dropped.
LockKept == pc' = pc /\ held' = held
NsMoves(t, f) ==
  \/ ns' = ns /\ (Away(f) <=> Away(Fr(t)))
  \/ Lock(t) /\ ~Away(f)
  \/ Drop(t) /\ Away(f)
Ready(t) == t \in Threads /\ ~Idle(t) /\ pc[t] = "ready" /\ OpTypes /\ CallsFit

\* What is known of the stack of a thread about to make a step.
LEMMA ReadyStack ==
    ASSUME NEW t, Ready(t)
    PROVE  /\ th[t] \in Seq(FrameType) /\ th[t] # <<>> /\ Fr(t) = Last(th[t])
           /\ Fr(t) \in FrameType /\ Fr(t) = th[t][Len(th[t])]
           /\ Fits(t, th[t], "ready", held[t], ns = t) /\ FrameFits(Fr(t))
           /\ Len(th[t]) \in Nat /\ Len(th[t]) # 0
<1>1. th[t] \in Seq(FrameType) /\ th[t] # <<>> /\ Fr(t) = Last(th[t])
  BY DEF Ready, Idle, OpTypes, Fr
<1>2. Fits(t, th[t], "ready", held[t], ns = t)
  BY CallsFitNow DEF Ready
<1>3. Fr(t) \in FrameType /\ Len(th[t]) \in Nat /\ Len(th[t]) # 0
      /\ Fr(t) = th[t][Len(th[t])]
  BY <1>1, LastSeq
<1>4. FrameFits(Fr(t))
  BY <1>1, <1>2, <1>3 DEF Fits, StackOk
<1> QED
  BY <1>1, <1>2, <1>3, <1>4

\* CallsFit, when the call on top goes on.
LEMMA TopFits ==
    ASSUME NEW t, Ready(t), LockKept, NEW f, Topping(t, f), SameCall(Fr(t), f),
           FrameFits(f), Settled(Fr(t)), Settled(f), Inside(Fr(t)) <=> Inside(f),
           NsMoves(t, f)
    PROVE  CallsFit'
<1>1. /\ th[t] \in Seq(FrameType) /\ th[t] # <<>> /\ Fr(t) = Last(th[t])
      /\ Fits(t, th[t], "ready", held[t], ns = t) /\ t \in Threads
      /\ CallsFit /\ pc[t] = "ready"
  BY ReadyStack DEF Ready
<1>2. (ns' = t) <=> ~Away(f)
  <2>1. ns = t <=> ~Away(Fr(t))
    BY <1>1 DEF Fits, NsOk
  <2> QED
    BY <1>1, <2>1, ThreadsAssumption DEF NsMoves, Lock, Drop
<1>3. th'[t] \in Seq(FrameType) /\ Topped(th[t], th'[t], f)
  BY <1>1 DEF Topping
<1>4. (ns' = t) \in BOOLEAN
  OBVIOUS
<1>5. Fits(t, th'[t], "ready", held[t], ns' = t)
  BY <1>1, <1>2, <1>3, <1>4, RetopFits
<1>6. Others(t)
  BY <1>1, ThreadsAssumption DEF Others, Topping, SameOthers, LockKept, NsMoves, Lock, Drop
<1> QED
  BY <1>1, <1>5, <1>6, ThreadStep DEF LockKept

\* CallsFit, when only the stack of t changes.
LEMMA StackFits ==
    ASSUME NEW t, Ready(t), LockKept, ns' = ns, SameOthers(t),
           Fits(t, th'[t], "ready", held[t], ns = t)
    PROVE  CallsFit'
<1>1. t \in Threads /\ CallsFit /\ pc[t] = "ready"
  BY DEF Ready
<1>2. Others(t)
  BY DEF Others, SameOthers, LockKept
<1> QED
  BY <1>1, <1>2, ThreadStep DEF LockKept

\* CallsFit, when the call on top makes a call.
LEMMA CalledFits ==
    ASSUME NEW t, Ready(t), LockKept, ns' = ns, NEW f, NEW g, Pushing(t, f, g),
           SameCall(Fr(t), f), FrameFits(f), FrameFits(g), Settled(Fr(t)),
           g.at = "start", g.call \in {"region_uninstall", "_REG", "io"}, ~Away(Fr(t)),
           \/ Len(th[t]) = 1 /\ Inside(Fr(t)) /\ MayCall(f, g)
           \/ Len(th[t]) = 2 /\ ~Inside(Fr(t)) /\ MayCallAgain(f, g)
    PROVE  CallsFit'
<1>1. /\ th[t] \in Seq(FrameType) /\ th[t] # <<>> /\ Fr(t) = Last(th[t])
      /\ Fits(t, th[t], "ready", held[t], ns = t)
  BY ReadyStack
<1>2. th'[t] \in Seq(FrameType) /\ Pushed(th[t], th'[t], f, g) /\ SameOthers(t)
  BY DEF Pushing, Ready
<1>3. (ns = t) \in BOOLEAN
  OBVIOUS
<1>4. Fits(t, th'[t], "ready", held[t], ns = t)
  BY <1>1, <1>2, <1>3, PushFits
<1> QED
  BY <1>2, <1>4, StackFits

\* CallsFit, when the call on top returns.
LEMMA ReturnedFits ==
    ASSUME NEW t, Ready(t), LockKept, ns' = ns, Popping(t), Len(th[t]) > 1,
           Fr(t).at # "acquire", ~Inside(Fr(t)), ~Away(Fr(t))
    PROVE  CallsFit'
<1>1. /\ th[t] \in Seq(FrameType) /\ Fr(t) = Last(th[t])
      /\ Fits(t, th[t], "ready", held[t], ns = t)
  BY ReadyStack
<1>2. th'[t] \in Seq(FrameType) /\ Popped(th[t], th'[t]) /\ SameOthers(t)
  BY DEF Popping, Ready
<1>3. Fits(t, th'[t], "ready", held[t], ns = t)
  BY <1>1, <1>2, PopFits
<1> QED
  BY <1>2, <1>3, StackFits

\* Where on its stack a call of each kind is.
LEMMA Shape ==
    ASSUME NEW t, NEW s \in Seq(FrameType), s # <<>>, StackOk(s, t), NEW f, f = s[Len(s)]
    PROVE  /\ DOMAIN s = 1 .. Len(s) /\ (Len(s) = 1 \/ Len(s) = 2 \/ Len(s) = 3)
           /\ FrameFits(f) /\ f.call \in DOMAIN PlacesOf
           /\ f.call = "region_uninstall" => Len(s) = 2 /\ MayCall(s[1], f)
           /\ f.call = "_REG" =>
                \/ Len(s) = 2 /\ MayCall(s[1], f)
                \/ Len(s) = 3 /\ MayCallAgain(s[2], f) /\ s[2].call = "region_uninstall"
                   /\ MayCall(s[1], s[2])
           /\ f.call = "io" =>
                \/ Len(s) = 1
                \/ Len(s) = 3 /\ MayCallAgain(s[2], f) /\ s[2].call = "_REG"
                   /\ MayCall(s[1], s[2])
           /\ f.call \in Acquiring \ {"io"} => Len(s) = 1
<1>1. Len(s) \in Nat /\ Len(s) # 0 /\ DOMAIN s = 1 .. Len(s)
  BY LastSeq
<1>2. Len(s) = 1 \/ Len(s) = 2 \/ Len(s) = 3
  <2>1. Len(s) <= 3
    BY DEF StackOk
  <2> QED
    BY <1>1, <2>1, ThreeAtMost
<1>3. f \in FrameType
  BY <1>1
<1>4. f.call \in DOMAIN PlacesOf /\ FrameFits(f)
  BY <1>1, <1>2, <1>3 DEF FrameType, StackOk
<1>5. CASE Len(s) = 1
  BY <1>1, <1>4, <1>5 DEF StackOk, Acquiring, Api
<1>6. CASE Len(s) = 2
  <2>1. MayCall(s[1], f)
    BY <1>6 DEF StackOk
  <2>2. f.call = "region_uninstall" \/ f.call = "_REG"
    BY <2>1 DEF MayCall
  <2> QED
    BY <1>1, <1>4, <1>6, <2>1, <2>2 DEF Acquiring, Api
<1>7. CASE Len(s) = 3
  <2>1. MayCallAgain(s[2], f) /\ MayCall(s[1], s[2])
    BY <1>7 DEF StackOk
  <2>2. \/ f.call = "_REG" /\ s[2].call = "region_uninstall"
        \/ f.call = "io" /\ s[2].call = "_REG"
    BY <2>1 DEF MayCallAgain
  <2> QED
    BY <1>1, <1>4, <1>7, <2>1, <2>2 DEF Acquiring, Api
<1> QED
  BY <1>2, <1>5, <1>6, <1>7

\* A thread outside the opregion lock is in one call, or in none.
Flat(s) == s = <<>> \/ (Len(s) = 1 /\ s[1].call \in Acquiring /\ s[1].at \in Outside
                        /\ DOMAIN s = 1 .. 1)
InLockOf(s) == s # <<>> /\ s[1].at \notin Outside

\* A thread outside the opregion lock has one call at most.
LEMMA FlatOrIn ==
    ASSUME NEW t, NEW s \in Seq(FrameType), StackOk(s, t)
    PROVE  (InLockOf(s) \/ Flat(s)) /\ (Len(s) > 1 => InLockOf(s))
<1>1. CASE s = <<>>
  BY <1>1 DEF Flat
<1>2. CASE s # <<>>
  <2>1. Len(s) \in Nat /\ Len(s) # 0 /\ DOMAIN s = 1 .. Len(s)
    BY <1>2, LastSeq
  <2>2. CASE Len(s) = 1
    BY <1>2, <2>1, <2>2 DEF Flat, InLockOf, StackOk
  <2>3. CASE Len(s) > 1
    <3>1. MayCall(s[1], s[2])
      BY <2>3 DEF StackOk
    <3> QED
      BY <1>2, <2>3, <3>1 DEF MayCall, InLockOf, Outside
  <2> QED
    BY <2>1, <2>2, <2>3
<1> QED
  BY <1>1, <1>2

\* Who is at a place inside the opregion lock has it.
LEMMA InLockHolds ==
    ASSUME NEW t, NEW s \in Seq(FrameType), NEW p, NEW h, NEW m, Fits(t, s, p, h, m),
           InLockOf(s)
    PROVE  h > 0
<1>1. s # <<>> /\ Last(s) = s[Len(s)] /\ Len(s) \in Nat /\ Len(s) # 0
  BY LastSeq DEF InLockOf
<1>2. CASE Len(s) = 1
  <2>1. Inside(Last(s))
    BY <1>1, <1>2 DEF Fits, StackOk, InLockOf, Inside
  <2> QED
    BY <1>1, <1>2, <2>1 DEF Fits, HeldOk, Under, Inside, Outside
<1>3. CASE Len(s) > 1
  <2>1. HeldOk(s, p, h) /\ Under(s) = 1 /\ s # <<>>
    BY <1>1, <1>3 DEF Fits, Under
  <2>2. CASE Last(s).at = "acquire"
    BY <2>1, <2>2 DEF HeldOk
  <2>3. CASE Last(s).at = "release"
    BY <2>1, <2>3 DEF HeldOk
  <2>4. CASE Last(s).at \notin {"acquire", "release"}
    BY <2>1, <2>4 DEF HeldOk
  <2> QED
    BY <2>2, <2>3, <2>4
<1>4. Len(s) = 1 \/ Len(s) > 1
  BY <1>1, OneOrMore
<1> QED
  BY <1>2, <1>3, <1>4

\* One thread at a time is inside; the others are in one call at most.
Alone(t) == \A u \in Threads : u # t => Flat(th[u]) /\ ~InLock(u)
\* ... and so is the only one there.
LEMMA InLockAlone ==
    ASSUME IInv, OpTypes, CallsFit, NEW t \in Threads, InLock(t)
    PROVE  Alone(t)
<1>1. \A u \in Threads : InLock(u) => held[u] > 0
  <2> SUFFICES ASSUME NEW u \in Threads, InLock(u) PROVE held[u] > 0
    OBVIOUS
  <2>1. th[u] \in Seq(FrameType) /\ Fits(u, th[u], pc[u], held[u], ns = u)
    BY CallsFitNow DEF OpTypes
  <2>2. InLockOf(th[u])
    BY DEF InLock, InLockOf, Idle
  <2> QED
    BY <2>1, <2>2, InLockHolds
<1>2. \A u \in Threads : InLock(u) => u = t
  BY <1>1 DEF IInv, DepthExact
<1>3. ASSUME NEW u \in Threads, u # t PROVE Flat(th[u]) /\ ~InLock(u)
  <2>1. th[u] \in Seq(FrameType) /\ StackOk(th[u], u)
    BY CallsFitNow DEF OpTypes, Fits
  <2>2. ~InLock(u)
    BY <1>2, <1>3
  <2> QED
    BY <2>1, <2>2, FlatOrIn DEF InLock, InLockOf, Idle
<1> QED
  BY <1>3 DEF Alone

-----------------------------------------------------------------------------
(***************************************************************************)
(* What the regions and the handlers have to do with the calls: T gives    *)
(* the stacks, H the handlers, R the regions, L the lists.                 *)
(***************************************************************************)
CallIn(s, call, r) == s # <<>> /\ s[1].call = call /\ s[1].r = r
DoingIn(s, r, call, ats) ==
  \E k \in DOMAIN s : s[k].call = call /\ s[k].r = r /\ s[k].at \in ats
LeavingIn(s, r) ==
  \E k \in DOMAIN s : s[k].call = "region_uninstall" /\ s[k].r = r /\ s[k].at # "start"
LetGoIn(s, h) ==
  s # <<>> /\ s[1].call = "uninstall" /\ s[1].h = h /\ s[1].at \in {"regs", "end"}
Undone == {"detached", "unreg", "end"}

MakingOk(s, r, x) ==
  CallIn(s, "initialize_node", r) =>
    /\ ~x.exists
    /\ s[1].at \in {"start", "acquire", "locked", "failed"} => x.handler = NoHandler
EndingOk(s, r, x) ==
  CallIn(s, "uninstall_node", r) =>
    /\ x.exists
    /\ s[1].at \in {"leave", "release"} /\ Len(s) = 1 => x.handler = NoHandler
TodoOk(s, R) == InLockOf(s) => \A q \in Range(s[1].todo) : R[q].exists
ReleasedOk(T) ==
  \A t, u \in Threads, r \in Names :
    CallIn(T[t], "uninstall_node", r) /\ T[t][1].at = "release" => ~InLockOf(T[u])
OneNode(T) ==
  \A t, u \in Threads, r \in Names, c, e \in NodeCalls :
    CallIn(T[t], c, r) /\ CallIn(T[u], e, r) => t = u
Orphans(T, R) ==
  \A r \in Names : ~R[r].exists /\ R[r].handler # NoHandler
                     => \E t \in Threads : CallIn(T[t], "initialize_node", r)
NodesOk(T, R) ==
  /\ \A t \in Threads : TodoOk(T[t], R)
  /\ \A t \in Threads, r \in Names : MakingOk(T[t], r, R[r]) /\ EndingOk(T[t], r, R[r])
  /\ ReleasedOk(T) /\ OneNode(T) /\ Orphans(T, R)

ListedIn(L, h) == \E d \in Range(Devices) : h \in Range(L[d])
ListsShape(L) ==
  /\ \A d \in Range(Devices) : IsInjective(L[d])
  /\ \A d, e \in Range(Devices) : \A h \in Range(L[d]) : h \in Range(L[e]) => d = e
OwnLists(s, L) ==
  InLockOf(s) =>
    /\ s[1].call = "install" /\ s[1].at = "regions" => s[1].h \in Ids
    /\ s[1].call = "uninstall" /\ s[1].at = "regions" => s[1].h \in Range(L[s[1].dev])
    /\ s[1].call = "uninstall" /\ s[1].at \in {"regs", "end"} =>
         s[1].h \in Ids /\ ~ListedIn(L, s[1].h)
ListsOk(T, L) == ListsShape(L) /\ \A t \in Threads : OwnLists(T[t], L)

HandlerOk(x, mine, one, leaving) ==
  /\ x.refs = Cardinality(mine) + (IF one THEN 1 ELSE 0)
  /\ IsInjective(x.regions)
  /\ \A r \in Names : r \in Range(x.regions) <=> r \in mine /\ r \notin leaving
MineOf(R, h) == {r \in Names : R[r].handler = h}
LeavingSet(T) == {r \in Names : \E t \in Threads : LeavingIn(T[t], r)}
LetGoAny(T, h) == \E t \in Threads : LetGoIn(T[t], h)
HandlersOk(T, H, R, L) ==
  \A h \in Ids : HandlerOk(H[h], MineOf(R, h), ListedIn(L, h) \/ LetGoAny(T, h),
                           LeavingSet(T))

Known(f, x, told_to, making) ==
  /\ f.call = "region_uninstall" =>
       /\ f.at # "start" => x.handler # NoHandler
       /\ f.at = "detach" => x.attached
       /\ f.at \in {"detached", "unreg", "end"} => told_to = NoHandler
  /\ f.call = "io" =>
       /\ f.at \in {"attach", "attached", "access", "callback"} =>
            x.exists /\ x.handler # NoHandler
       /\ f.at \in {"attach", "attached"} => ~x.attached
       /\ f.at = "attached" => told_to = x.handler
       /\ f.at \in {"access", "callback"} => x.attached
       /\ f.at = "callback" => f.h = x.handler
  /\ f.call = "_REG" /\ f.at = "start" =>
       /\ x.regged <=> f.code = "connect" /\ Regions[f.r].dev \in HasReg
       /\ x.exists \/ making
OwnKnown(s, R, sv) ==
  \A k \in DOMAIN s :
    Known(s[k], R[s[k].r], sv[s[k].r], CallIn(s, "initialize_node", s[k].r))
TellOk(x, tl, told_to, hasreg, moving, telling) ==
  /\ x.attached => x.exists /\ x.handler # NoHandler
  /\ tl = "connect" => hasreg
  /\ moving \/ told_to = IF x.attached THEN x.handler ELSE NoHandler
  /\ telling \/ (x.regged <=> tl = "connect")
Moving(T, r) ==
  \/ \E t \in Threads : DoingIn(T[t], r, "region_uninstall", Undone)
  \/ \E t \in Threads : DoingIn(T[t], r, "io", {"attached"})
Telling(T, r) == \E t \in Threads : DoingIn(T[t], r, "_REG", {"start"})
ToldOk(T, R, tl, sv) ==
  /\ \A t \in Threads : OwnKnown(T[t], R, sv)
  /\ \A r \in Names : TellOk(R[r], tl[r], sv[r], Regions[r].dev \in HasReg,
                             Moving(T, r), Telling(T, r))

\* The parts of the invariant as functions of the state.
LEMMA NodesNow == NodesFit <=> NodesOk(th, reg)
<1>1. \A t, c, r : InCall(t, c, r) <=> CallIn(th[t], c, r)
  BY DEF InCall, CallIn, Idle
<1>2. \A t : InLock(t) <=> InLockOf(th[t])
  BY DEF InLock, InLockOf, Idle
<1>3. NodesFit => NodesOk(th, reg)
  <2> SUFFICES ASSUME NodesFit PROVE NodesOk(th, reg)
    OBVIOUS
  <2>1. ASSUME NEW t \in Threads PROVE TodoOk(th[t], reg)
    BY <1>2, <2>1 DEF NodesFit, TodoOk
  <2>2. ASSUME NEW t \in Threads, NEW r \in Names
        PROVE  MakingOk(th[t], r, reg[r]) /\ EndingOk(th[t], r, reg[r])
    BY <1>1, <1>2, <2>2 DEF NodesFit, MakingOk, EndingOk
  <2>3. ReleasedOk(th)
    BY <1>1, <1>2 DEF NodesFit, ReleasedOk
  <2>4. OneNode(th) /\ Orphans(th, reg)
    BY <1>1, <1>2 DEF NodesFit, OneNode, Orphans
  <2> QED
    BY <2>1, <2>2, <2>3, <2>4 DEF NodesOk
<1>4. NodesOk(th, reg) => NodesFit
  <2> SUFFICES ASSUME NodesOk(th, reg) PROVE NodesFit
    OBVIOUS
  <2>1. ASSUME NEW t \in Threads, NEW r \in Names
        PROVE  /\ InCall(t, "initialize_node", r) =>
                    /\ ~reg[r].exists
                    /\ th[t][1].at \in {"start", "acquire", "locked", "failed"}
                         => reg[r].handler = NoHandler
               /\ InCall(t, "uninstall_node", r) =>
                    /\ reg[r].exists
                    /\ th[t][1].at \in {"leave", "release"} /\ Len(th[t]) = 1
                         => reg[r].handler = NoHandler
                    /\ th[t][1].at = "release" => \A u \in Threads : ~InLock(u)
    BY <1>1, <1>2, <2>1 DEF NodesOk, MakingOk, EndingOk, ReleasedOk
  <2>2. ASSUME NEW t \in Threads PROVE InLock(t) => \A q \in Range(th[t][1].todo) : reg[q].exists
    BY <1>2, <2>2 DEF NodesOk, TodoOk
  <2>3. OneNode(th) /\ Orphans(th, reg)
    BY DEF NodesOk
  <2> QED
    BY <1>1, <1>2, <2>1, <2>2, <2>3 DEF NodesFit, OneNode, Orphans
<1> QED
  BY <1>3, <1>4
\* NodesFit after a step.
LEMMA NodesNext == NodesFit' <=> NodesOk(th', reg')
<1>1. \A t, c, r : InCall(t, c, r)' <=> CallIn(th'[t], c, r)
  BY DEF InCall, CallIn, Idle
<1>2. \A t : InLock(t)' <=> InLockOf(th'[t])
  BY DEF InLock, InLockOf, Idle
<1>3. NodesFit' => NodesOk(th', reg')
  <2> SUFFICES ASSUME NodesFit' PROVE NodesOk(th', reg')
    OBVIOUS
  <2>1. ASSUME NEW t \in Threads PROVE TodoOk(th'[t], reg')
    BY <1>2, <2>1 DEF NodesFit, TodoOk
  <2>2. ASSUME NEW t \in Threads, NEW r \in Names
        PROVE  MakingOk(th'[t], r, reg'[r]) /\ EndingOk(th'[t], r, reg'[r])
    BY <1>1, <1>2, <2>2 DEF NodesFit, MakingOk, EndingOk
  <2>3. ReleasedOk(th')
    BY <1>1, <1>2 DEF NodesFit, ReleasedOk
  <2>4. OneNode(th') /\ Orphans(th', reg')
    BY <1>1, <1>2 DEF NodesFit, OneNode, Orphans
  <2> QED
    BY <2>1, <2>2, <2>3, <2>4 DEF NodesOk
<1>4. NodesOk(th', reg') => NodesFit'
  <2> SUFFICES ASSUME NodesOk(th', reg') PROVE NodesFit'
    OBVIOUS
  <2>1. ASSUME NEW t \in Threads, NEW r \in Names
        PROVE  /\ InCall(t, "initialize_node", r)' =>
                    /\ ~reg'[r].exists
                    /\ th'[t][1].at \in {"start", "acquire", "locked", "failed"}
                         => reg'[r].handler = NoHandler
               /\ InCall(t, "uninstall_node", r)' =>
                    /\ reg'[r].exists
                    /\ th'[t][1].at \in {"leave", "release"} /\ Len(th'[t]) = 1
                         => reg'[r].handler = NoHandler
                    /\ th'[t][1].at = "release" => \A u \in Threads : ~InLock(u)'
    BY <1>1, <1>2, <2>1 DEF NodesOk, MakingOk, EndingOk, ReleasedOk
  <2>2. ASSUME NEW t \in Threads PROVE InLock(t)' => \A q \in Range(th'[t][1].todo) : reg'[q].exists
    BY <1>2, <2>2 DEF NodesOk, TodoOk
  <2>3. OneNode(th') /\ Orphans(th', reg')
    BY DEF NodesOk
  <2> QED
    BY <1>1, <1>2, <2>1, <2>2, <2>3 DEF NodesFit, OneNode, Orphans
<1> QED
  BY <1>3, <1>4
\* ListsFit as a function of the state.
LEMMA ListsNow == ListsFit <=> ListsOk(th, lists)
BY DEF ListsFit, ListsOk, ListsShape, OwnLists, ListedIn, InLists, InLock, InLockOf, Idle
\* ListsFit after a step.
LEMMA ListsNext == ListsFit' <=> ListsOk(th', lists')
BY DEF ListsFit, ListsOk, ListsShape, OwnLists, ListedIn, InLists, InLock, InLockOf, Idle
\* ToldFits as a function of the state.
LEMMA ToldNow == ToldFits <=> ToldOk(th, reg, told, served)
BY DEF ToldFits, ToldOk, OwnKnown, Known, RegionKnown, TellOk, Moving, Telling, Doing,
       DoingIn, Undone, CallIn, InCall, Idle
\* ToldFits after a step.
LEMMA ToldNext == ToldFits' <=> ToldOk(th', reg', told', served')
BY DEF ToldFits, ToldOk, OwnKnown, Known, RegionKnown, TellOk, Moving, Telling, Doing,
       DoingIn, Undone, CallIn, InCall, Idle
\* HandlersExact as a function of the state.
LEMMA HandlersNow == HandlersExact <=> HandlersOk(th, hnd, reg, lists)
<1> DEFINE mine(h) == {r \in Names : reg[r].handler = h}
           unref(h) == {t \in Threads : ~Idle(t) /\ th[t][1].call = "uninstall"
                                        /\ th[t][1].h = h /\ ~InLists(h)
                                        /\ th[t][1].at \in {"regs", "end"}}
<1>1. \A h : (InLists(h) \/ unref(h) # {}) <=> (ListedIn(lists, h) \/ LetGoAny(th, h))
  BY DEF InLists, ListedIn, LetGoAny, LetGoIn, Idle
<1>2. \A r \in Names : Leaving(r) <=> r \in LeavingSet(th)
  BY DEF Leaving, LeavingSet, LeavingIn
<1>3. \A h : mine(h) = MineOf(reg, h)
  BY DEF MineOf
<1> HIDE DEF unref
<1>4. HandlersExact <=>
        \A h \in Ids :
          /\ hnd[h].refs = Cardinality(mine(h))
                           + (IF InLists(h) \/ unref(h) # {} THEN 1 ELSE 0)
          /\ IsInjective(hnd[h].regions)
          /\ \A r \in Names :
               r \in Range(hnd[h].regions) <=> reg[r].handler = h /\ ~Leaving(r)
  BY DEF HandlersExact, unref
<1> QED
  BY <1>1, <1>2, <1>3, <1>4 DEF HandlersOk, HandlerOk, MineOf
\* HandlersExact after a step.
LEMMA HandlersNext == HandlersExact' <=> HandlersOk(th', hnd', reg', lists')
<1> DEFINE mine(h) == {r \in Names : reg'[r].handler = h}
           unref(h) == {t \in Threads : ~(th'[t] = <<>>) /\ th'[t][1].call = "uninstall"
                                        /\ th'[t][1].h = h /\ ~InLists(h)'
                                        /\ th'[t][1].at \in {"regs", "end"}}
<1>1. \A h : (InLists(h)' \/ unref(h) # {}) <=> (ListedIn(lists', h) \/ LetGoAny(th', h))
  BY DEF InLists, ListedIn, LetGoAny, LetGoIn
<1>2. \A r \in Names : Leaving(r)' <=> r \in LeavingSet(th')
  BY DEF Leaving, LeavingSet, LeavingIn
<1>3. \A h : mine(h) = MineOf(reg', h)
  BY DEF MineOf
<1> HIDE DEF unref
<1>4. HandlersExact' <=>
        \A h \in Ids :
          /\ hnd'[h].refs = Cardinality(mine(h))
                           + (IF InLists(h)' \/ unref(h) # {} THEN 1 ELSE 0)
          /\ IsInjective(hnd'[h].regions)
          /\ \A r \in Names :
               r \in Range(hnd'[h].regions) <=> reg'[r].handler = h /\ ~Leaving(r)'
  BY DEF HandlersExact, unref, Idle
<1> QED
  BY <1>1, <1>2, <1>3, <1>4 DEF HandlersOk, HandlerOk, MineOf

-----------------------------------------------------------------------------
(***************************************************************************)
(* The thread inside the opregion lock, with stack s: the rest of the      *)
(* invariant is about its calls only.                                      *)
(***************************************************************************)
LeavingOf(s) == {r \in Names : LeavingIn(s, r)}
MovingIn(s, r) ==
  DoingIn(s, r, "region_uninstall", Undone) \/ DoingIn(s, r, "io", {"attached"})
TellingIn(s, r) == DoingIn(s, r, "_REG", {"start"})
NodeOk(s, R) == \A r \in Names : MakingOk(s, r, R[r]) /\ EndingOk(s, r, R[r])
HeldBy(s, H, R, L) ==
  \A h \in Ids : HandlerOk(H[h], MineOf(R, h), ListedIn(L, h) \/ LetGoIn(s, h), LeavingOf(s))
ToldBy(s, R, tl, sv) ==
  \A r \in Names : TellOk(R[r], tl[r], sv[r], Regions[r].dev \in HasReg,
                          MovingIn(s, r), TellingIn(s, r))
Core(s, H, R, L, tl, sv) ==
  /\ InLockOf(s) /\ NodeOk(s, R) /\ TodoOk(s, R)
  /\ ListsShape(L) /\ OwnLists(s, L)
  /\ HeldBy(s, H, R, L)
  /\ OwnKnown(s, R, sv) /\ ToldBy(s, R, tl, sv)

FlatBut(T, t) == \A u \in Threads : u # t => Flat(T[u])

\* A call outside the lock leaves no mark on a region or a handler.
LEMMA FlatSilent ==
    ASSUME NEW s, Flat(s)
    PROVE  /\ \A r : ~LeavingIn(s, r) /\ ~MovingIn(s, r) /\ ~TellingIn(s, r)
           /\ \A h : ~LetGoIn(s, h)
           /\ \A R, sv : OwnKnown(s, R, sv)
           /\ ~InLockOf(s)
<1>1. CASE s = <<>>
  BY <1>1 DEF LeavingIn, MovingIn, TellingIn, DoingIn, LetGoIn, OwnKnown, InLockOf
<1>2. CASE s # <<>>
  <2>1. /\ DOMAIN s = {1} /\ s[1].call \in Acquiring /\ s[1].at \in Outside
    BY <1>2 DEF Flat
  <2>2. s[1].call # "region_uninstall" /\ s[1].call # "_REG"
        /\ s[1].at \in {"start", "acquire", "failed", "release"}
    BY <2>1 DEF Acquiring, Api, Outside
  <2>3. \A R, sv : OwnKnown(s, R, sv)
    BY <2>1, <2>2 DEF OwnKnown, Known
  <2>4. \A r : ~LeavingIn(s, r) /\ ~MovingIn(s, r) /\ ~TellingIn(s, r)
    BY <2>1, <2>2 DEF LeavingIn, MovingIn, TellingIn, DoingIn
  <2>5. (\A h : ~LetGoIn(s, h)) /\ ~InLockOf(s)
    BY <1>2, <2>1, <2>2 DEF LetGoIn, InLockOf
  <2> QED
    BY <2>3, <2>4, <2>5
<1> QED
  BY <1>1, <1>2

\* The marks on the regions are those of the thread inside.
LEMMA Seen ==
    ASSUME NEW T, NEW t \in Threads, FlatBut(T, t)
    PROVE  /\ LeavingSet(T) = LeavingOf(T[t])
           /\ \A h : LetGoAny(T, h) <=> LetGoIn(T[t], h)
           /\ \A r : Moving(T, r) <=> MovingIn(T[t], r)
           /\ \A r : Telling(T, r) <=> TellingIn(T[t], r)
<1>1. \A u \in Threads : u # t =>
        /\ \A r : ~LeavingIn(T[u], r) /\ ~MovingIn(T[u], r) /\ ~TellingIn(T[u], r)
        /\ \A h : ~LetGoIn(T[u], h)
  BY FlatSilent DEF FlatBut
<1>2. LeavingSet(T) = LeavingOf(T[t])
  BY <1>1 DEF LeavingSet, LeavingOf
<1>3. \A h : LetGoAny(T, h) <=> LetGoIn(T[t], h)
  BY <1>1 DEF LetGoAny
<1>4. \A r : Moving(T, r) <=> MovingIn(T[t], r)
  BY <1>1 DEF Moving, MovingIn
<1>5. \A r : Telling(T, r) <=> TellingIn(T[t], r)
  BY <1>1 DEF Telling, TellingIn
<1> QED
  BY <1>2, <1>3, <1>4, <1>5

Rest(T, H, R, L, tl, sv) ==
  NodesOk(T, R) /\ ListsOk(T, L) /\ HandlersOk(T, H, R, L) /\ ToldOk(T, R, tl, sv)

\* OpInv, taken apart.
LEMMA RestNow ==
  OpInv <=> IInv /\ OpTypes /\ CallsFit /\ Rest(th, hnd, reg, lists, told, served)
BY NodesNow, ListsNow, HandlersNow, ToldNow DEF OpInv, Rest
\* ... and after a step.
LEMMA RestNext ==
  OpInv' <=> IInv' /\ OpTypes' /\ CallsFit' /\ Rest(th', hnd', reg', lists', told', served')
BY NodesNext, ListsNext, HandlersNext, ToldNext DEF OpInv, Rest

\* The thread inside has the core of the invariant.
LEMMA CoreHas ==
    ASSUME NEW T, NEW H, NEW R, NEW L, NEW tl, NEW sv, NEW t \in Threads, FlatBut(T, t),
           InLockOf(T[t]), Rest(T, H, R, L, tl, sv)
    PROVE  Core(T[t], H, R, L, tl, sv)
<1>1. NodeOk(T[t], R) /\ TodoOk(T[t], R) /\ ListsShape(L) /\ OwnLists(T[t], L)
  BY DEF Rest, NodesOk, NodeOk, ListsOk
<1>2. HeldBy(T[t], H, R, L)
  BY Seen DEF Rest, HandlersOk, HeldBy
<1>3. OwnKnown(T[t], R, sv) /\ ToldBy(T[t], R, tl, sv)
  BY Seen DEF Rest, ToldOk, ToldBy, TellOk
<1> QED
  BY <1>1, <1>2, <1>3 DEF Core

\* While t is inside, nodes do not come and go, and a region gets a handler only
\* when it is there or being created by t.
Moved(s, R, R2) ==
  \A r \in Names :
    /\ R2[r].exists = R[r].exists
    /\ \/ R2[r].handler = R[r].handler \/ R2[r].handler = NoHandler
       \/ R[r].exists \/ CallIn(s, "initialize_node", r)
Stays(s, u) == InLockOf(u) /\ u[1].call = s[1].call /\ u[1].r = s[1].r

\* The core after a step of the thread inside gives back the rest.
LEMMA CoreRest ==
    ASSUME NEW T, NEW H, NEW R, NEW L, NEW tl, NEW sv, NEW t \in Threads, FlatBut(T, t),
           InLockOf(T[t]), Rest(T, H, R, L, tl, sv),
           NEW U, NEW H2, NEW R2, NEW L2, NEW tl2, NEW sv2,
           \A u \in Threads : u # t => U[u] = T[u],
           Core(U[t], H2, R2, L2, tl2, sv2), Moved(T[t], R, R2), Stays(T[t], U[t])
    PROVE  Rest(U, H2, R2, L2, tl2, sv2)
<1>1. FlatBut(U, t)
  BY DEF FlatBut
<1>2. \A u \in Threads : u # t => ~InLockOf(U[u]) /\ ~InLockOf(T[u])
  BY <1>1, FlatSilent DEF FlatBut
<1>3. \A u \in Threads : \A c, r : CallIn(U[u], c, r) <=> CallIn(T[u], c, r)
  BY DEF CallIn, Stays, InLockOf
<1>4. NodesOk(T, R)
  BY DEF Rest
<1>5. NodesOk(U, R2)
  <2>1. ASSUME NEW u \in Threads PROVE TodoOk(U[u], R2)
    BY <1>2 DEF Core, TodoOk
  <2>2. ReleasedOk(U)
    <3> SUFFICES ASSUME NEW u \in Threads, NEW r \in Names,
                        CallIn(U[u], "uninstall_node", r), U[u][1].at = "release"
                 PROVE  FALSE
      BY DEF ReleasedOk
    <3>1. CASE u = t
      BY <3>1 DEF Stays, InLockOf, Outside
    <3>2. CASE u # t
      BY <1>3, <1>4, <3>2 DEF NodesOk, ReleasedOk
    <3> QED
      BY <3>1, <3>2
  <2>3. OneNode(U)
    BY <1>3, <1>4 DEF NodesOk, OneNode
  <2>4. Orphans(U, R2)
    <3> SUFFICES ASSUME NEW r \in Names, ~R2[r].exists, R2[r].handler # NoHandler
                 PROVE  \E u \in Threads : CallIn(T[u], "initialize_node", r)
      BY <1>3 DEF Orphans
    <3> QED
      BY <1>4 DEF Moved, NodesOk, Orphans
  <2>5. ASSUME NEW u \in Threads, NEW r \in Names
        PROVE  MakingOk(U[u], r, R2[r]) /\ EndingOk(U[u], r, R2[r])
    <3>1. CASE u = t
      BY <3>1 DEF Core, NodeOk
    <3>2. CASE u # t
      <4>1. U[u] = T[u] /\ MakingOk(T[u], r, R[r]) /\ EndingOk(T[u], r, R[r])
        BY <1>4, <3>2 DEF NodesOk
      <4>2. MakingOk(U[u], r, R2[r])
        <5>1. CallIn(T[u], "initialize_node", r) => ~CallIn(T[t], "initialize_node", r)
          BY <1>4, <3>2 DEF NodesOk, OneNode, NodeCalls
        <5> QED
          BY <4>1, <5>1 DEF MakingOk, Moved
      <4>3. EndingOk(U[u], r, R2[r])
        <5>1. CallIn(T[u], "uninstall_node", r) => T[u][1].at # "release"
          BY <1>4 DEF NodesOk, ReleasedOk
        <5>2. CallIn(T[u], "uninstall_node", r) => T[u][1].at # "leave"
          BY <3>2 DEF FlatBut, Flat, CallIn, Outside
        <5> QED
          BY <4>1, <5>1, <5>2 DEF EndingOk, Moved
      <4> QED
        BY <4>2, <4>3
    <3> QED
      BY <3>1, <3>2
  <2> QED
    BY <2>1, <2>2, <2>3, <2>4, <2>5 DEF NodesOk
<1>6. ListsOk(U, L2)
  <2>1. ASSUME NEW u \in Threads PROVE OwnLists(U[u], L2)
    BY <1>2 DEF Core, OwnLists
  <2> QED
    BY <2>1 DEF Core, ListsOk
<1>7. HandlersOk(U, H2, R2, L2)
  BY <1>1, Seen DEF Core, HandlersOk, HeldBy
<1>8. ToldOk(U, R2, tl2, sv2)
  <2>1. ASSUME NEW u \in Threads PROVE OwnKnown(U[u], R2, sv2)
    BY <1>1, FlatSilent DEF Core, FlatBut
  <2> QED
    BY <1>1, <2>1, Seen DEF Core, ToldOk, ToldBy, TellOk
<1> QED
  BY <1>5, <1>6, <1>7, <1>8 DEF Rest

\* The indices of a stack.
LEMMA Indices ==
    ASSUME NEW n \in Nat, n # 0
    PROVE  /\ 1 \in 1 .. n /\ n \in 1 .. n /\ (n > 1 => 1 \in 1 .. n - 1)
           /\ \A k \in 1 .. n : k # n => k \in 1 .. n - 1
           /\ \A k \in 1 .. n : k \in 1 .. n - 1 \/ k = n
           /\ \A k \in 1 .. n - 1 : k \in 1 .. n
OBVIOUS

\* What is known of a stack whose last element is another.
LEMMA ToppedFacts ==
    ASSUME NEW S, NEW s \in Seq(S), NEW u \in Seq(S), s # <<>>, NEW f, Topped(s, u, f)
    PROVE  /\ Len(s) \in Nat /\ Len(s) # 0 /\ DOMAIN s = 1 .. Len(s)
           /\ Len(u) = Len(s) /\ DOMAIN u = 1 .. Len(s) /\ u # <<>>
           /\ Last(s) = s[Len(s)] /\ u[Len(s)] = f
           /\ 1 \in 1 .. Len(s) /\ Len(s) \in 1 .. Len(s)
           /\ \A k \in 1 .. Len(s) : k # Len(s) => u[k] = s[k]
<1>1. Len(s) \in Nat /\ Len(s) # 0 /\ DOMAIN s = 1 .. Len(s) /\ Last(s) = s[Len(s)]
  BY LastSeq
<1>2. 1 \in 1 .. Len(s) /\ Len(s) \in 1 .. Len(s)
      /\ \A k \in 1 .. Len(s) : k # Len(s) => k \in 1 .. Len(s) - 1
  BY <1>1, Indices
<1>3. Len(u) = Len(s) /\ DOMAIN u = 1 .. Len(u) /\ u # <<>>
  BY <1>1 DEF Topped
<1> QED
  BY <1>1, <1>2, <1>3 DEF Topped

\* What is known of a stack without its last element.
LEMMA PoppedFacts ==
    ASSUME NEW S, NEW s \in Seq(S), NEW u \in Seq(S), Len(s) > 1, Popped(s, u)
    PROVE  /\ Len(s) \in Nat /\ Len(s) # 0 /\ DOMAIN s = 1 .. Len(s) /\ s # <<>>
           /\ Len(u) = Len(s) - 1 /\ DOMAIN u = 1 .. Len(s) - 1 /\ u # <<>>
           /\ u[1] = s[1] /\ (Len(u) = 1 => Len(s) = 2)
           /\ \A k \in 1 .. Len(s) - 1 : u[k] = s[k] /\ k \in 1 .. Len(s)
           /\ \A k \in 1 .. Len(s) : k \in 1 .. Len(s) - 1 \/ k = Len(s)
<1>1. s # <<>> /\ Len(s) \in Nat /\ Len(s) # 0 /\ DOMAIN s = 1 .. Len(s)
  BY LastSeq
<1>2. 1 \in 1 .. Len(s) - 1 /\ (\A k \in 1 .. Len(s) - 1 : k \in 1 .. Len(s))
      /\ \A k \in 1 .. Len(s) : k \in 1 .. Len(s) - 1 \/ k = Len(s)
  BY <1>1, Indices
<1>3. Len(u) = Len(s) - 1 /\ DOMAIN u = 1 .. Len(u) /\ u # <<>>
      /\ (Len(u) = 1 => Len(s) = 2)
  BY <1>1 DEF Popped
<1> QED
  BY <1>1, <1>2, <1>3 DEF Popped

\* u is s with g above it.
Extended(s, u, g) ==
  /\ Len(u) = Len(s) + 1 /\ u[Len(s) + 1] = g
  /\ \A k \in 1 .. Len(s) : u[k] = s[k]

\* What is known of a stack with one element more.
LEMMA ExtendedFacts ==
    ASSUME NEW S, NEW s \in Seq(S), NEW u \in Seq(S), s # <<>>, NEW g, Extended(s, u, g)
    PROVE  /\ Len(s) \in Nat /\ Len(s) # 0 /\ DOMAIN s = 1 .. Len(s)
           /\ DOMAIN u = 1 .. Len(s) + 1 /\ u # <<>> /\ Len(u) > 1 /\ Len(u) = Len(s) + 1
           /\ u[1] = s[1] /\ u[Len(s) + 1] = g
           /\ \A k \in 1 .. Len(s) : u[k] = s[k] /\ k \in 1 .. Len(s) + 1
           /\ \A k \in 1 .. Len(s) + 1 : k \in 1 .. Len(s) \/ k = Len(s) + 1
           /\ Len(s) + 1 \in 1 .. Len(s) + 1
<1>1. Len(s) \in Nat /\ Len(s) # 0 /\ DOMAIN s = 1 .. Len(s)
  BY LastSeq
<1>2. 1 \in 1 .. Len(s) /\ (\A k \in 1 .. Len(s) : k \in 1 .. Len(s) + 1)
      /\ (\A k \in 1 .. Len(s) + 1 : k \in 1 .. Len(s) \/ k = Len(s) + 1)
      /\ Len(s) + 1 \in 1 .. Len(s) + 1
  BY <1>1
<1>3. Len(u) = Len(s) + 1 /\ DOMAIN u = 1 .. Len(u) /\ u # <<>> /\ Len(u) > 1
  BY <1>1 DEF Extended
<1> QED
  BY <1>1, <1>2, <1>3 DEF Extended

\* A call that calls another goes on at its place first; the other then starts.
LEMMA PushSplit ==
    ASSUME NEW S, NEW s \in Seq(S), NEW u \in Seq(S), s # <<>>, NEW f \in S, NEW g,
           Pushed(s, u, f, g)
    PROVE  \E v \in Seq(S) : Topped(s, v, f) /\ Extended(v, u, g)
<1> DEFINE v == Append(Front(s), f)
<1>1. v \in Seq(S) /\ Topped(s, v, f)
  BY TopSeq
<1> HIDE DEF v
<1>2. Len(s) \in Nat /\ Len(s) # 0 /\ \A k \in 1 .. Len(s) : k \in 1 .. Len(s) - 1 \/ k = Len(s)
  BY LastSeq
<1>3. Extended(v, u, g)
  BY <1>1, <1>2 DEF Topped, Pushed, Extended
<1> QED
  BY <1>1, <1>3

\* A call that returns goes on at any place first.
LEMMA PopSplit ==
    ASSUME NEW S, NEW s \in Seq(S), NEW u \in Seq(S), s # <<>>, NEW f \in S, Popped(s, u)
    PROVE  \E v \in Seq(S) : Topped(s, v, f) /\ Popped(v, u)
<1> DEFINE v == Append(Front(s), f)
<1>1. v \in Seq(S) /\ Topped(s, v, f)
  BY TopSeq
<1> HIDE DEF v
<1>2. Popped(v, u)
  BY <1>1 DEF Topped, Popped
<1> QED
  BY <1>1, <1>2

\* The call on top goes on: its mark on the region stays what it is.
Plain(e, f) ==
  /\ f.call = e.call /\ f.r = e.r
  /\ f.call = "region_uninstall" =>
       (f.at = "start" <=> e.at = "start") /\ (f.at \in Undone <=> e.at \in Undone)
  /\ f.call = "io" => (f.at = "attached" <=> e.at = "attached")
  /\ f.call = "_REG" => (f.at = "start" <=> e.at = "start")
  /\ f.call = "uninstall" =>
       \A h : f.h = h /\ f.at \in {"regs", "end"} <=> e.h = h /\ e.at \in {"regs", "end"}
FirstOk(u, R, L) == InLockOf(u) /\ NodeOk(u, R) /\ TodoOk(u, R) /\ OwnLists(u, L)
SameMarks(s, u) ==
  /\ \A r : LeavingIn(u, r) <=> LeavingIn(s, r)
  /\ \A r : (MovingIn(u, r) <=> MovingIn(s, r)) /\ (TellingIn(u, r) <=> TellingIn(s, r))
  /\ \A h : LetGoIn(u, h) <=> LetGoIn(s, h)

\* Such a step leaves all the marks what they are.
LEMMA PlainMarks ==
    ASSUME NEW s \in Seq(FrameType), NEW u \in Seq(FrameType), s # <<>>, NEW f,
           Topped(s, u, f), Plain(Last(s), f)
    PROVE  SameMarks(s, u)
<1> DEFINE n == Len(s)
           e == s[n]
<1>1. n \in Nat /\ n # 0 /\ e = Last(s) /\ DOMAIN s = 1 .. n
  BY ToppedFacts
<1>2. DOMAIN u = 1 .. n /\ u[n] = f /\ u # <<>> /\ \A k \in 1 .. n : k # n => u[k] = s[k]
  BY ToppedFacts
<1>3. Plain(e, f) /\ n \in 1 .. n /\ 1 \in 1 .. n
  BY <1>1, ToppedFacts
<1>4. \A k \in 1 .. n : Plain(s[k], u[k])
  <2> TAKE k \in 1 .. n
  <2>1. CASE k = n
    BY <1>2, <1>3, <2>1
  <2>2. CASE k # n
    <3>1. u[k] = s[k]
      BY <1>2, <2>2
    <3> QED
      BY <3>1, Zenon DEF Plain
  <2> QED
    BY <2>1, <2>2
<1> HIDE DEF n, e
<1>5. \A r : LeavingIn(u, r) <=> LeavingIn(s, r)
  BY <1>1, <1>2, <1>4 DEF LeavingIn, Plain
<1>6. \A r : MovingIn(u, r) <=> MovingIn(s, r)
  BY <1>1, <1>2, <1>4 DEF MovingIn, DoingIn, Plain
<1>7. \A r : TellingIn(u, r) <=> TellingIn(s, r)
  BY <1>1, <1>2, <1>4 DEF TellingIn, DoingIn, Plain
<1>9. \A h : LetGoIn(u, h) <=> LetGoIn(s, h)
  BY <1>2, <1>3, <1>4 DEF LetGoIn, Plain
<1> QED
  BY <1>5, <1>6, <1>7, <1>9 DEF SameMarks

\* With the same marks, only the calls themselves are to be looked at.
LEMMA CoreSame ==
    ASSUME NEW s, NEW u, NEW H, NEW R, NEW L, NEW tl, NEW sv, Core(s, H, R, L, tl, sv),
           SameMarks(s, u), FirstOk(u, R, L), OwnKnown(u, R, sv)
    PROVE  Core(u, H, R, L, tl, sv)
<1>1. LeavingOf(u) = LeavingOf(s)
  BY DEF LeavingOf, SameMarks
<1>2. HeldBy(u, H, R, L)
  BY <1>1 DEF Core, HeldBy, SameMarks, HandlerOk
<1>3. ToldBy(u, R, tl, sv)
  BY DEF Core, ToldBy, SameMarks, TellOk
<1> QED
  BY <1>2, <1>3 DEF Core, FirstOk

\* The first call of the stack is untouched by what is above it.
LEMMA FirstKept ==
    ASSUME NEW s \in Seq(FrameType), NEW u \in Seq(FrameType), s # <<>>, u # <<>>,
           u[1] = s[1], NEW R, NEW L, FirstOk(s, R, L),
           Len(u) = 1 => \A r \in Names : EndingOk(u, r, R[r])
    PROVE  FirstOk(u, R, L) /\ Stays(s, u)
<1>1. InLockOf(u) /\ TodoOk(u, R) /\ OwnLists(u, L) /\ Stays(s, u)
  BY DEF FirstOk, InLockOf, TodoOk, OwnLists, Stays
<1>2. \A r \in Names : MakingOk(u, r, R[r])
  BY DEF FirstOk, NodeOk, MakingOk, CallIn
<1>3. Len(u) # 1 => \A r \in Names : EndingOk(u, r, R[r])
  BY DEF FirstOk, NodeOk, EndingOk, CallIn
<1> QED
  BY <1>1, <1>2, <1>3 DEF FirstOk, NodeOk

\* The core, when the call on top goes on with its marks.
LEMMA CoreTop ==
    ASSUME NEW s \in Seq(FrameType), NEW u \in Seq(FrameType), s # <<>>, NEW f,
           Topped(s, u, f), Plain(Last(s), f),
           NEW H, NEW R, NEW L, NEW tl, NEW sv, Core(s, H, R, L, tl, sv),
           Known(f, R[f.r], sv[f.r], CallIn(s, "initialize_node", f.r)),
           Len(s) = 1 => FirstOk(u, R, L)
    PROVE  Core(u, H, R, L, tl, sv) /\ Stays(s, u)
<1> DEFINE n == Len(s)
<1>1. n \in Nat /\ n # 0 /\ Last(s) = s[n] /\ DOMAIN s = 1 .. n /\ 1 \in 1 .. n
  BY ToppedFacts
<1>2. DOMAIN u = 1 .. n /\ u[n] = f /\ \A k \in 1 .. n : k # n => u[k] = s[k]
  BY ToppedFacts
<1>3. u # <<>> /\ Len(u) = n
  BY ToppedFacts
<1>4. u[1].call = s[1].call /\ u[1].r = s[1].r
  <2> HIDE DEF n
  <2> QED
    BY <1>1, <1>2 DEF Plain
<1>5. FirstOk(u, R, L) /\ Stays(s, u)
  <2>1. CASE n = 1
    BY <1>4, <2>1 DEF Stays, FirstOk
  <2>2. CASE n # 1
    <3> HIDE DEF n
    <3>1. u[1] = s[1]
      BY <1>1, <1>2, <2>2
    <3>2. FirstOk(s, R, L)
      BY DEF Core, FirstOk
    <3> QED
      BY <1>3, <2>2, <3>1, <3>2, FirstKept
  <2> QED
    BY <2>1, <2>2
<1>6. \A r : CallIn(u, "initialize_node", r) <=> CallIn(s, "initialize_node", r)
  BY <1>3, <1>4 DEF CallIn
<1>7. OwnKnown(u, R, sv)
  <2> SUFFICES ASSUME NEW k \in 1 .. n
               PROVE  Known(u[k], R[u[k].r], sv[u[k].r], CallIn(s, "initialize_node", u[k].r))
    BY <1>2, <1>6 DEF OwnKnown, Known
  <2>1. CASE k = n
    BY <1>2, <2>1
  <2>2. CASE k # n
    BY <1>1, <1>2, <2>2 DEF Core, OwnKnown
  <2> QED
    BY <2>1, <2>2
<1> QED
  BY <1>5, <1>7, PlainMarks, CoreSame

\* A call that has left no mark returns.
LEMMA CorePop ==
    ASSUME NEW s \in Seq(FrameType), NEW u \in Seq(FrameType), Len(s) > 1, Popped(s, u),
           NEW H, NEW R, NEW L, NEW tl, NEW sv, Core(s, H, R, L, tl, sv),
           NEW e, e = s[Len(s)],
           e.call = "region_uninstall" => e.at = "start",
           e.call = "io" => e.at # "attached",
           e.call = "_REG" => e.at # "start",
           Len(s) = 2 /\ s[1].call = "uninstall_node" => R[s[1].r].handler = NoHandler
    PROVE  Core(u, H, R, L, tl, sv) /\ Stays(s, u)
<1> DEFINE n == Len(s)
<1>1. DOMAIN s = 1 .. n /\ s # <<>>
  BY PoppedFacts
<1>2. DOMAIN u = 1 .. n - 1 /\ \A k \in 1 .. n - 1 : u[k] = s[k] /\ k \in 1 .. n
  BY PoppedFacts
<1>3. u # <<>> /\ u[1] = s[1] /\ (Len(u) = 1 => Len(s) = 2)
  BY PoppedFacts
<1>4. \A k \in 1 .. n : k \in 1 .. n - 1 \/ k = n
  BY PoppedFacts
<1> HIDE DEF n
<1>5. FirstOk(s, R, L)
  BY DEF Core, FirstOk
<1>6. Len(u) = 1 => \A r \in Names : EndingOk(u, r, R[r])
  <2> SUFFICES ASSUME Len(u) = 1, NEW r \in Names PROVE EndingOk(u, r, R[r])
    OBVIOUS
  <2>1. Len(s) = 2
    BY <1>3
  <2>2. EndingOk(s, r, R[r])
    BY DEF Core, NodeOk
  <2> QED
    BY <1>1, <1>3, <2>1, <2>2 DEF EndingOk, CallIn
<1>7. FirstOk(u, R, L) /\ Stays(s, u)
  BY <1>1, <1>3, <1>5, <1>6, FirstKept
<1>8. \A r : CallIn(u, "initialize_node", r) <=> CallIn(s, "initialize_node", r)
  BY <1>1, <1>3 DEF CallIn
<1>9. OwnKnown(u, R, sv)
  BY <1>1, <1>2, <1>8 DEF Core, OwnKnown, Known
<1>10. SameMarks(s, u)
  <2>0. e = s[n]
    BY DEF n
  <2>1. \A r : LeavingIn(u, r) <=> LeavingIn(s, r)
    BY <1>1, <1>2, <1>4, <2>0 DEF LeavingIn
  <2>2. \A r : MovingIn(u, r) <=> MovingIn(s, r)
    BY <1>1, <1>2, <1>4, <2>0 DEF MovingIn, DoingIn, Undone
  <2>3. \A r : TellingIn(u, r) <=> TellingIn(s, r)
    BY <1>1, <1>2, <1>4, <2>0 DEF TellingIn, DoingIn
  <2>4. \A h : LetGoIn(u, h) <=> LetGoIn(s, h)
    BY <1>1, <1>3 DEF LetGoIn
  <2> QED
    BY <2>1, <2>2, <2>3, <2>4 DEF SameMarks
<1> QED
  BY <1>7, <1>9, <1>10, CoreSame

\* What the steps assign.
With(g, k, v) == [g EXCEPT ![k] = v]
Regged(R, r, v) == [R EXCEPT ![r].regged = v]
Attached(R, r) == [R EXCEPT ![r].attached = TRUE]
Handled(R, r, h) == [R EXCEPT ![r].handler = h]
Let(R, r) == [R EXCEPT ![r].handler = NoHandler, ![r].attached = FALSE]
UnlinkedIn(H, h, r) == [H EXCEPT ![h].regions = RemoveFirst(@, r)]
NewHandler(space) == [space |-> space, regions |-> <<>>, refs |-> 1]
PutOn(L, d, h) == [L EXCEPT ![d] = <<h>> \o @]
TakenOff(L, d, h) == [L EXCEPT ![d] = RemoveFirst(@, h)]

Framed(s) == \A k \in DOMAIN s : FrameFits(s[k])
RegionCalls == {"region_uninstall", "io", "_REG"}

\* A call about a region is about one there is.
LEMMA FramedRegion ==
    ASSUME NEW s, Framed(s), NEW k \in DOMAIN s
    PROVE  s[k].r \in Names \/ s[k].call \notin RegionCalls
BY DEF Framed, FrameFits, Api, RegionCalls

\* The frames of a stack stay frames when the last is another.
LEMMA ToppedFramed ==
    ASSUME NEW S, NEW s \in Seq(S), NEW u \in Seq(S), s # <<>>, NEW f, Topped(s, u, f),
           Framed(s), FrameFits(f)
    PROVE  Framed(u)
BY ToppedFacts DEF Framed

\* What the first call has still to visit is regions.
LEMMA TodoNames ==
    ASSUME NEW s \in Seq(FrameType), s # <<>>
    PROVE  s[1] \in FrameType /\ Range(s[1].todo) \subseteq Names
<1>1. Len(s) \in Nat /\ Len(s) # 0
  BY LastSeq
<1>2. s[1] \in FrameType
  BY <1>1, Indices
<1>3. s[1].todo \in Seq(Names)
  BY <1>2 DEF FrameType
<1>4. Range(s[1].todo) \subseteq Names
  BY <1>3 DEF Range
<1> QED
  BY <1>2, <1>4

\* A call starts above the one that makes it.
LEMMA ExtendedMarks ==
    ASSUME NEW s \in Seq(FrameType), NEW u \in Seq(FrameType), s # <<>>, NEW g,
           Extended(s, u, g), g.at = "start", g.call \in RegionCalls
    PROVE  /\ \A r : LeavingIn(u, r) <=> LeavingIn(s, r)
           /\ \A r : MovingIn(u, r) <=> MovingIn(s, r)
           /\ \A r : TellingIn(u, r) <=> TellingIn(s, r) \/ (g.call = "_REG" /\ g.r = r)
           /\ \A h : LetGoIn(u, h) <=> LetGoIn(s, h)
<1> DEFINE n == Len(s)
           m == Len(s) + 1
<1>1. DOMAIN s = 1 .. n /\ DOMAIN u = 1 .. m /\ u # <<>> /\ u[1] = s[1] /\ u[m] = g
      /\ m \in 1 .. m
  BY ExtendedFacts
<1>2. \A k \in 1 .. n : u[k] = s[k] /\ k \in 1 .. m
  BY ExtendedFacts
<1>3. \A k \in 1 .. m : k \in 1 .. n \/ k = m
  BY ExtendedFacts
<1> HIDE DEF n, m
<1>4. \A r : LeavingIn(u, r) <=> LeavingIn(s, r)
  BY <1>1, <1>2, <1>3 DEF LeavingIn
<1>5. \A r : MovingIn(u, r) <=> MovingIn(s, r)
  BY <1>1, <1>2, <1>3 DEF MovingIn, DoingIn, Undone
<1>6. \A r : TellingIn(u, r) <=> TellingIn(s, r) \/ (g.call = "_REG" /\ g.r = r)
  BY <1>1, <1>2, <1>3 DEF TellingIn, DoingIn
<1>7. \A h : LetGoIn(u, h) <=> LetGoIn(s, h)
  BY <1>1 DEF LetGoIn
<1> QED
  BY <1>4, <1>5, <1>6, <1>7

\* A call that starts does not concern the first one.
LEMMA ExtendedFirst ==
    ASSUME NEW s \in Seq(FrameType), NEW u \in Seq(FrameType), s # <<>>, NEW g,
           Extended(s, u, g), NEW R, NEW L, FirstOk(s, R, L)
    PROVE  /\ FirstOk(u, R, L) /\ Stays(s, u)
           /\ \A r : CallIn(u, "initialize_node", r) <=> CallIn(s, "initialize_node", r)
<1>1. u # <<>> /\ Len(u) > 1 /\ u[1] = s[1]
  BY ExtendedFacts
<1>2. Len(u) # 1
  BY <1>1, ExtendedFacts
<1> QED
  BY <1>1, <1>2, FirstKept DEF CallIn

\* What the calls know, with a call more.
LEMMA ExtendedKnown ==
    ASSUME NEW s \in Seq(FrameType), NEW u \in Seq(FrameType), s # <<>>, NEW g,
           Extended(s, u, g), NEW R, NEW sv, OwnKnown(s, R, sv),
           Known(g, R[g.r], sv[g.r], CallIn(s, "initialize_node", g.r))
    PROVE  OwnKnown(u, R, sv)
<1> DEFINE n == Len(s)
           m == Len(s) + 1
<1>1. DOMAIN s = 1 .. n /\ DOMAIN u = 1 .. m /\ u # <<>> /\ u[1] = s[1] /\ u[m] = g
      /\ m \in 1 .. m
  BY ExtendedFacts
<1>2. \A k \in 1 .. n : u[k] = s[k] /\ k \in 1 .. m
  BY ExtendedFacts
<1>3. \A k \in 1 .. m : k \in 1 .. n \/ k = m
  BY ExtendedFacts
<1> HIDE DEF n, m
<1>4. \A r : CallIn(u, "initialize_node", r) <=> CallIn(s, "initialize_node", r)
  BY <1>1 DEF CallIn
<1> QED
  BY <1>1, <1>2, <1>3, <1>4 DEF OwnKnown, Known

\* The core, when an access or an uninstall starts.
LEMMA CoreExtend ==
    ASSUME NEW s \in Seq(FrameType), NEW u \in Seq(FrameType), s # <<>>, NEW g,
           Extended(s, u, g), g.at = "start", g.call \in {"region_uninstall", "io"},
           NEW H, NEW R, NEW L, NEW tl, NEW sv, Core(s, H, R, L, tl, sv)
    PROVE  Core(u, H, R, L, tl, sv) /\ Stays(s, u)
<1>1. FirstOk(s, R, L) /\ OwnKnown(s, R, sv)
  BY DEF Core, FirstOk
<1>2. FirstOk(u, R, L) /\ Stays(s, u)
  BY <1>1, ExtendedFirst
<1>3. OwnKnown(u, R, sv)
  <2>1. Known(g, R[g.r], sv[g.r], CallIn(s, "initialize_node", g.r))
    BY DEF Known
  <2> QED
    BY <1>1, <2>1, ExtendedKnown
<1>4. SameMarks(s, u)
  BY ExtendedMarks DEF SameMarks, RegionCalls
<1> QED
  BY <1>2, <1>3, <1>4, CoreSame

\* The regions but for what firmware has been told of them.
SameRegs(R, R2) ==
  \A q \in Names : R2[q].exists = R[q].exists /\ R2[q].handler = R[q].handler
                   /\ R2[q].attached = R[q].attached
RegType == [Names -> [handler : Ids \cup {NoHandler}, attached : BOOLEAN,
                      regged : BOOLEAN, exists : BOOLEAN]]

\* region_run_reg is about to tell firmware of a region, which is marked first.
LEMMA CoreExtendReg ==
    ASSUME NEW s \in Seq(FrameType), NEW u \in Seq(FrameType), s # <<>>, NEW g,
           Extended(s, u, g), g.at = "start", g.call = "_REG", Framed(s),
           \A k \in DOMAIN s : ~(s[k].call = "_REG" /\ s[k].at = "start"),
           NEW H, NEW R \in RegType, NEW L, NEW tl, NEW sv, Core(s, H, R, L, tl, sv),
           NEW r \in Names, r = g.r, NEW v \in BOOLEAN,
           v <=> g.code = "connect" /\ Regions[r].dev \in HasReg,
           R[r].exists \/ CallIn(s, "initialize_node", r),
           NEW R2, R2 = Regged(R, r, v)
    PROVE  Core(u, H, R2, L, tl, sv) /\ Stays(s, u) /\ Moved(s, R, R2)
<1> USE DEF Regged
<1>1. SameRegs(R, R2) /\ R2[r].regged = v /\ \A q \in Names : q # r => R2[q] = R[q]
  BY DEF RegType, SameRegs
<1>2. FirstOk(s, R2, L)
  <2>1. NodeOk(s, R2)
    BY <1>1 DEF Core, NodeOk, SameRegs, MakingOk, EndingOk
  <2>2. TodoOk(s, R2)
    BY <1>1, TodoNames DEF Core, TodoOk, SameRegs
  <2> QED
    BY <2>1, <2>2 DEF Core, FirstOk
<1>3. FirstOk(u, R2, L) /\ Stays(s, u)
  BY <1>2, ExtendedFirst
<1>4. OwnKnown(s, R2, sv)
  <2> SUFFICES ASSUME NEW k \in DOMAIN s
               PROVE  Known(s[k], R2[s[k].r], sv[s[k].r], CallIn(s, "initialize_node", s[k].r))
    BY DEF OwnKnown
  <2>1. Known(s[k], R[s[k].r], sv[s[k].r], CallIn(s, "initialize_node", s[k].r))
    BY DEF Core, OwnKnown
  <2>2. CASE s[k].r \in Names
    BY <1>1, <2>1, <2>2 DEF Known, SameRegs
  <2>3. CASE s[k].call \notin RegionCalls
    BY <2>3 DEF Known, RegionCalls
  <2> QED
    BY <2>2, <2>3, FramedRegion
<1>5. OwnKnown(u, R2, sv)
  <2>1. Known(g, R2[g.r], sv[g.r], CallIn(s, "initialize_node", g.r))
    BY <1>1 DEF Known, SameRegs
  <2>2. ASSUME NEW Q, OwnKnown(s, Q, sv),
               Known(g, Q[g.r], sv[g.r], CallIn(s, "initialize_node", g.r))
        PROVE  OwnKnown(u, Q, sv)
    BY <2>2, ExtendedKnown
  <2> QED
    BY <1>4, <2>1, <2>2
<1>6. /\ LeavingOf(u) = LeavingOf(s)
      /\ \A h : LetGoIn(u, h) <=> LetGoIn(s, h)
  BY ExtendedMarks DEF LeavingOf, RegionCalls
<1>7. \A h : MineOf(R2, h) = MineOf(R, h)
  BY <1>1 DEF MineOf, SameRegs
<1>8. HeldBy(u, H, R2, L)
  BY <1>6, <1>7 DEF Core, HeldBy, HandlerOk
<1>9. ToldBy(u, R2, tl, sv)
  <2> SUFFICES ASSUME NEW q \in Names
               PROVE  TellOk(R2[q], tl[q], sv[q], Regions[q].dev \in HasReg,
                             MovingIn(u, q), TellingIn(u, q))
    BY DEF ToldBy
  <2>1. TellOk(R[q], tl[q], sv[q], Regions[q].dev \in HasReg, MovingIn(s, q), TellingIn(s, q))
    BY DEF Core, ToldBy
  <2>2. (MovingIn(u, q) <=> MovingIn(s, q)) /\ (TellingIn(u, q) <=> TellingIn(s, q) \/ g.r = q)
    BY ExtendedMarks DEF RegionCalls
  <2>3. CASE q = r
    BY <1>1, <2>1, <2>2, <2>3 DEF TellOk, SameRegs
  <2>4. CASE q # r
    BY <1>1, <2>1, <2>2, <2>4 DEF TellOk
  <2> QED
    BY <2>3, <2>4
<1>10. Moved(s, R, R2)
  BY <1>1 DEF Moved, SameRegs
<1> QED
  BY <1>3, <1>5, <1>8, <1>9, <1>10 DEF Core, FirstOk

\* Firmware's _REG is told, or there is none to tell.
LEMMA CoreTell ==
    ASSUME NEW s \in Seq(FrameType), NEW u \in Seq(FrameType), Len(s) > 1, s # <<>>, NEW f,
           Topped(s, u, f), NEW e, e = Last(s), e.call = "_REG", e.at = "start",
           f.call = "_REG", f.r = e.r, f.at = "body",
           \A k \in DOMAIN s : k # Len(s) => s[k].call # "_REG",
           NEW H, NEW R, NEW L, NEW tl, NEW sv, Core(s, H, R, L, tl, sv),
           NEW r \in Names, r = e.r, DOMAIN tl = Names, NEW tl2,
           \/ Regions[r].dev \in HasReg /\ tl2 = With(tl, r, e.code)
           \/ Regions[r].dev \notin HasReg /\ tl2 = tl
    PROVE  Core(u, H, R, L, tl2, sv) /\ Stays(s, u)
<1> USE DEF With
<1> DEFINE n == Len(s)
<1>1. n \in Nat /\ n # 0 /\ DOMAIN s = 1 .. n /\ DOMAIN u = 1 .. n /\ u # <<>>
      /\ e = s[n] /\ u[n] = f /\ 1 \in 1 .. n /\ n \in 1 .. n /\ Len(u) = n
  BY ToppedFacts
<1>2. \A k \in 1 .. n : k # n => u[k] = s[k]
  BY ToppedFacts
<1>3. n # 1
  BY <1>1
<1> HIDE DEF n
<1>4. u[1] = s[1]
  BY <1>1, <1>2, <1>3
<1>5. FirstOk(u, R, L) /\ Stays(s, u)
  <2>1. FirstOk(s, R, L) /\ Len(u) # 1
    BY <1>1, <1>3 DEF Core, FirstOk
  <2> QED
    BY <1>1, <1>4, <2>1, FirstKept
<1>6. /\ \A q : LeavingIn(u, q) <=> LeavingIn(s, q)
      /\ \A q : MovingIn(u, q) <=> MovingIn(s, q)
      /\ \A h : LetGoIn(u, h) <=> LetGoIn(s, h)
      /\ \A q : ~TellingIn(u, q) /\ (TellingIn(s, q) <=> q = r)
  <2>1. \A q : LeavingIn(u, q) <=> LeavingIn(s, q)
    BY <1>1, <1>2 DEF LeavingIn
  <2>2. \A q : MovingIn(u, q) <=> MovingIn(s, q)
    BY <1>1, <1>2 DEF MovingIn, DoingIn
  <2>3. \A h : LetGoIn(u, h) <=> LetGoIn(s, h)
    BY <1>1, <1>4 DEF LetGoIn
  <2>4. n = Len(s)
    BY DEF n
  <2>5. \A q : ~TellingIn(u, q)
    BY <1>1, <1>2, <2>4 DEF TellingIn, DoingIn
  <2>6. \A q : TellingIn(s, q) <=> q = r
    BY <1>1, <2>4 DEF TellingIn, DoingIn
  <2> QED
    BY <2>1, <2>2, <2>3, <2>5, <2>6
<1>7. OwnKnown(u, R, sv)
  <2>1. \A q : CallIn(u, "initialize_node", q) <=> CallIn(s, "initialize_node", q)
    BY <1>1, <1>4 DEF CallIn
  <2> SUFFICES ASSUME NEW k \in 1 .. n
               PROVE  Known(u[k], R[u[k].r], sv[u[k].r], CallIn(s, "initialize_node", u[k].r))
    BY <1>1, <2>1 DEF OwnKnown, Known
  <2>2. CASE k = n
    BY <1>1, <2>2 DEF Known
  <2>3. CASE k # n
    BY <1>1, <1>2, <2>3 DEF Core, OwnKnown
  <2> QED
    BY <2>2, <2>3
<1>8. HeldBy(u, H, R, L)
  <2>1. LeavingOf(u) = LeavingOf(s)
    BY <1>6 DEF LeavingOf
  <2> QED
    BY <1>6, <2>1 DEF Core, HeldBy, HandlerOk
<1>9. ToldBy(u, R, tl2, sv)
  <2> SUFFICES ASSUME NEW q \in Names
               PROVE  TellOk(R[q], tl2[q], sv[q], Regions[q].dev \in HasReg,
                             MovingIn(u, q), TellingIn(u, q))
    BY DEF ToldBy
  <2>1. TellOk(R[q], tl[q], sv[q], Regions[q].dev \in HasReg, MovingIn(s, q), TellingIn(s, q))
    BY DEF Core, ToldBy
  <2>2. CASE q = r
    <3>1. R[r].regged <=> e.code = "connect" /\ Regions[r].dev \in HasReg
      <4>1. Known(e, R[r], sv[r], CallIn(s, "initialize_node", r))
        BY <1>1 DEF Core, OwnKnown
      <4> QED
        BY <4>1 DEF Known
    <3>2. CASE Regions[r].dev \in HasReg
      <4>1. tl2[r] = e.code
        BY <3>2
      <4> QED
        BY <1>6, <2>1, <2>2, <3>1, <3>2, <4>1 DEF TellOk
    <3>3. CASE Regions[r].dev \notin HasReg
      BY <1>6, <2>1, <2>2, <3>1, <3>3 DEF TellOk
    <3> QED
      BY <3>2, <3>3
  <2>3. CASE q # r
    <3>1. tl2[q] = tl[q]
      BY <2>3
    <3> QED
      BY <1>6, <2>1, <2>3, <3>1 DEF TellOk
  <2> QED
    BY <2>2, <2>3
<1> QED
  BY <1>5, <1>7, <1>8, <1>9 DEF Core, FirstOk

-----------------------------------------------------------------------------
(***************************************************************************)
(* One handler: x, the regions that have it, whether a list or a user      *)
(* counts for one, and the regions that are leaving their handlers.        *)
(***************************************************************************)
HandlerType == [space : Spaces, regions : Seq(Names), refs : Nat]
UnrefOne(x) == IF x.refs = 1 THEN [space |-> "none", regions |-> <<>>, refs |-> 0]
               ELSE [x EXCEPT !.refs = @ - 1]

\* The regions of a handler can be counted.
LEMMA MineFinite ==
    ASSUME NEW R, NEW h
    PROVE  IsFiniteSet(MineOf(R, h)) /\ Cardinality(MineOf(R, h)) \in Nat
           /\ MineOf(R, h) \subseteq Names
<1>1. MineOf(R, h) \subseteq Names
  BY DEF MineOf
<1>2. IsFiniteSet(Names)
  BY RegionsAssumption DEF Names
<1> HIDE DEF MineOf, Names
<1>3. IsFiniteSet(MineOf(R, h))
  BY <1>1, <1>2, FS_Subset
<1> QED
  BY <1>1, <1>3, FS_CardinalityType

\* Nothing is on the empty list.
LEMMA NoRange == Range(<<>>) = {} /\ IsInjective(<<>>)
BY DEF Range, IsInjective

\* A region lets go of the handler that has already unlinked it.
LEMMA UnrefRegion ==
    ASSUME NEW x \in HandlerType, NEW mine, IsFiniteSet(mine), NEW one \in BOOLEAN,
           NEW r \in mine, HandlerOk(x, mine, one, {r})
    PROVE  HandlerOk(UnrefOne(x), mine \ {r}, one, {}) /\ UnrefOne(x) \in HandlerType
<1> DEFINE c == Cardinality(mine \ {r})
<1>1. c \in Nat /\ Cardinality(mine) = c + 1 /\ IsFiniteSet(mine \ {r})
  <2>1. IsFiniteSet(mine \ {r}) /\ c = Cardinality(mine) - 1
    BY FS_RemoveElement
  <2>2. c \in Nat /\ Cardinality(mine) \in Nat
    BY <2>1, FS_CardinalityType
  <2> QED
    BY <2>1, <2>2
<1>2. x.refs = c + 1 + (IF one THEN 1 ELSE 0)
  BY <1>1 DEF HandlerOk
<1>3. \A q \in Names : q \in Range(x.regions) <=> q \in mine \ {r} /\ q \notin {}
  BY DEF HandlerOk
<1>4. CASE x.refs = 1
  <2>1. c = 0 /\ ~one
    BY <1>1, <1>2, <1>4
  <2>2. mine \ {r} = {}
    BY <1>1, <2>1, FS_EmptySet
  <2>3. UnrefOne(x) = [space |-> "none", regions |-> <<>>, refs |-> 0]
    BY <1>4 DEF UnrefOne
  <2>4. UnrefOne(x) \in HandlerType
    BY <2>3 DEF HandlerType, Spaces
  <2> QED
    BY <2>1, <2>2, <2>3, <2>4, NoRange DEF HandlerOk
<1>5. CASE x.refs # 1
  <2>1. UnrefOne(x) = [x EXCEPT !.refs = @ - 1]
    BY <1>5 DEF UnrefOne
  <2>2. UnrefOne(x).refs = c + (IF one THEN 1 ELSE 0) /\ UnrefOne(x).regions = x.regions
    BY <1>1, <1>2, <2>1 DEF HandlerType
  <2>3. UnrefOne(x) \in HandlerType
    BY <1>1, <1>2, <2>1 DEF HandlerType
  <2> QED
    BY <1>3, <2>2, <2>3 DEF HandlerOk
<1> QED
  BY <1>4, <1>5

\* The user who has taken the handler off its list lets go of it.
LEMMA UnrefUser ==
    ASSUME NEW x \in HandlerType, NEW mine, IsFiniteSet(mine),
           NEW lv, HandlerOk(x, mine, TRUE, lv)
    PROVE  HandlerOk(UnrefOne(x), mine, FALSE, lv) /\ UnrefOne(x) \in HandlerType
<1> DEFINE c == Cardinality(mine)
<1>1. c \in Nat
  BY FS_CardinalityType
<1>2. x.refs = c + 1
  BY <1>1 DEF HandlerOk
<1>4. CASE x.refs = 1
  <2>1. c = 0
    BY <1>1, <1>2, <1>4
  <2>2. mine = {}
    BY <2>1, FS_EmptySet
  <2>3. UnrefOne(x) = [space |-> "none", regions |-> <<>>, refs |-> 0]
    BY <1>4 DEF UnrefOne
  <2>4. UnrefOne(x) \in HandlerType
    BY <2>3 DEF HandlerType, Spaces
  <2> QED
    BY <2>1, <2>2, <2>3, <2>4, NoRange DEF HandlerOk
<1>5. CASE x.refs # 1
  <2>1. UnrefOne(x) = [x EXCEPT !.refs = @ - 1]
    BY <1>5 DEF UnrefOne
  <2>2. UnrefOne(x).refs = c /\ UnrefOne(x).regions = x.regions
    BY <1>1, <1>2, <2>1 DEF HandlerType
  <2>3. UnrefOne(x) \in HandlerType
    BY <1>1, <1>2, <2>1 DEF HandlerType
  <2> QED
    BY <1>1, <2>2, <2>3 DEF HandlerOk
<1> QED
  BY <1>4, <1>5

\* A region is unlinked from its handler.
UnlinkOf(x, r) == [x EXCEPT !.regions = RemoveFirst(@, r)]
\* The region is off the list and leaving, and still counted.
LEMMA UnlinkOne ==
    ASSUME NEW x \in HandlerType, NEW mine, NEW one, HandlerOk(x, mine, one, {}), NEW r
    PROVE  HandlerOk(UnlinkOf(x, r), mine, one, {r}) /\ UnlinkOf(x, r) \in HandlerType
<1> DEFINE y == UnlinkOf(x, r)
<1> DEFINE g == RemoveFirst(x.regions, r)
<1>1. x.regions \in Seq(Names) /\ IsInjective(x.regions)
  BY DEF HandlerType, HandlerOk
<1>2. g \in Seq(Names) /\ IsInjective(g) /\ Range(g) = Range(x.regions) \ {r}
  BY <1>1, RemoveSeq
<1> HIDE DEF g
<1>3. y.regions = g /\ y.refs = x.refs /\ y \in HandlerType
  <2>1. y = [x EXCEPT !.regions = g]
    BY DEF g, UnlinkOf
  <2> HIDE DEF y
  <2> QED
    BY <1>2, <2>1 DEF HandlerType
<1> HIDE DEF y
<1>4. HandlerOk(y, mine, one, {r})
  BY <1>2, <1>3 DEF HandlerOk
<1> QED
  BY <1>3, <1>4 DEF y

\* A region gets a handler.
LinkOne(x, r) == [x EXCEPT !.refs = @ + 1, !.regions = <<r>> \o @]
\* The handler has one region and one reference more.
LEMMA LinkedOne ==
    ASSUME NEW x \in HandlerType, NEW mine, IsFiniteSet(mine), NEW one \in BOOLEAN,
           HandlerOk(x, mine, one, {}), NEW r \in Names, r \notin mine
    PROVE  HandlerOk(LinkOne(x, r), mine \cup {r}, one, {}) /\ LinkOne(x, r) \in HandlerType
<1> DEFINE g == <<r>> \o x.regions
           c == Cardinality(mine)
           y == LinkOne(x, r)
<1>1. x.regions \in Seq(Names) /\ IsInjective(x.regions) /\ r \notin Range(x.regions)
  BY DEF HandlerType, HandlerOk
<1>2. g \in Seq(Names) /\ IsInjective(g) /\ Range(g) = Range(x.regions) \cup {r}
  BY <1>1, ConsSeq
<1>3. c \in Nat /\ Cardinality(mine \cup {r}) = c + 1
  BY FS_AddElement, FS_CardinalityType
<1>4. x.refs = c + (IF one THEN 1 ELSE 0) /\ x.refs \in Nat
  BY <1>3 DEF HandlerOk, HandlerType
<1> HIDE DEF g, c
<1>5. y.regions = g /\ y.refs = x.refs + 1 /\ y \in HandlerType
  <2> DEFINE b == x.refs + 1
  <2>1. b \in Nat
    BY <1>4
  <2>2. y = [x EXCEPT !.refs = b, !.regions = g]
    BY DEF LinkOne, g
  <2> HIDE DEF b, y
  <2>3. y.regions = g /\ y.refs = b /\ y \in HandlerType
    BY <1>2, <2>1, <2>2 DEF HandlerType
  <2> QED
    BY <2>3 DEF b
<1>6. y.refs = Cardinality(mine \cup {r}) + (IF one THEN 1 ELSE 0)
  BY <1>3, <1>4, <1>5
<1> HIDE DEF y
<1>7. \A q \in Names : q \in Range(y.regions) <=> q \in mine \cup {r} /\ q \notin {}
  BY <1>2, <1>5 DEF HandlerOk
<1> QED
  BY <1>2, <1>5, <1>6, <1>7 DEF HandlerOk, y

\* A handler that is not allocated has no region, list or user.
LEMMA FreeOne ==
    ASSUME NEW x, NEW mine, IsFiniteSet(mine), NEW one \in BOOLEAN, NEW lv,
           HandlerOk(x, mine, one, lv), x.refs = 0
    PROVE  mine = {} /\ ~one
<1>1. Cardinality(mine) \in Nat
  BY FS_CardinalityType
<1>2. Cardinality(mine) = 0 /\ ~one
  BY <1>1 DEF HandlerOk
<1> QED
  BY <1>2, FS_EmptySet

\* What is no region's own does not matter to its handler.
LEMMA OtherOne ==
    ASSUME NEW x, NEW mine, NEW one, NEW lv, HandlerOk(x, mine, one, lv), NEW lv2,
           \A r \in mine : r \in lv <=> r \in lv2
    PROVE  HandlerOk(x, mine, one, lv2)
BY DEF HandlerOk

-----------------------------------------------------------------------------
(***************************************************************************)
(* Steps of the thread inside that change the regions and the handlers.    *)
(***************************************************************************)
\* The region that is being uninstalled: e is above the call that wants it.
Uninstalling(s) ==
  /\ s \in Seq(FrameType) /\ s # <<>> /\ Len(s) = 2 /\ DOMAIN s = 1 .. 2
  /\ s[2].call = "region_uninstall" /\ s[2].r \in Names
  /\ s[1].call \in {"install", "uninstall", "uninstall_node"}

\* The marks are those of the call on top.
LEMMA UninstallView ==
    ASSUME NEW s, Uninstalling(s)
    PROVE  /\ \A q : LeavingIn(s, q) <=> q = s[2].r /\ s[2].at # "start"
           /\ \A q : MovingIn(s, q) <=> q = s[2].r /\ s[2].at \in Undone
           /\ \A q : ~TellingIn(s, q)
           /\ \A R, sv : OwnKnown(s, R, sv) <=>
                Known(s[2], R[s[2].r], sv[s[2].r], CallIn(s, "initialize_node", s[2].r))
<1>1. \A k \in DOMAIN s : k = 1 \/ k = 2
  BY DEF Uninstalling
<1>2. 1 \in DOMAIN s /\ 2 \in DOMAIN s
  BY DEF Uninstalling
<1>3. s[1].call # "region_uninstall" /\ s[1].call # "io" /\ s[1].call # "_REG"
      /\ s[2].call = "region_uninstall"
  BY DEF Uninstalling
<1>4. \A q : LeavingIn(s, q) <=> q = s[2].r /\ s[2].at # "start"
  BY <1>1, <1>2, <1>3 DEF LeavingIn
<1>5. \A q : MovingIn(s, q) <=> q = s[2].r /\ s[2].at \in Undone
  BY <1>1, <1>2, <1>3 DEF MovingIn, DoingIn
<1>6. \A q : ~TellingIn(s, q)
  BY <1>1, <1>3 DEF TellingIn, DoingIn
<1>7. \A R, sv : Known(s[1], R[s[1].r], sv[s[1].r], CallIn(s, "initialize_node", s[1].r))
  BY <1>3 DEF Known
<1> QED
  BY <1>1, <1>2, <1>4, <1>5, <1>6, <1>7 DEF OwnKnown

\* The call on top goes on, and still is an uninstall.
LEMMA UninstallTopped ==
    ASSUME NEW s, Uninstalling(s), NEW u \in Seq(FrameType), NEW f, Topped(s, u, f),
           f.call = "region_uninstall", f.r = s[2].r
    PROVE  Uninstalling(u) /\ u[2] = f /\ u[1] = s[1] /\ Len(u) = 2 /\ u # <<>>
<1>0. s \in Seq(FrameType) /\ s # <<>>
  BY DEF Uninstalling
<1>1. Len(s) = 2
  BY DEF Uninstalling
<1>2. Len(u) = Len(s) /\ DOMAIN u = 1 .. Len(s) /\ u # <<>> /\ u[Len(s)] = f
      /\ \A k \in 1 .. Len(s) : k # Len(s) => u[k] = s[k]
  BY <1>0, ToppedFacts
<1>3. 1 \in 1 .. Len(s) /\ 1 # Len(s)
  BY <1>1
<1>4. Len(u) = 2 /\ DOMAIN u = 1 .. 2 /\ u[2] = f /\ u[1] = s[1]
  BY <1>1, <1>2, <1>3
<1> QED
  BY <1>2, <1>4 DEF Uninstalling

\* The first call of the stack stays what it is.
LEMMA UninstallFirst ==
    ASSUME NEW s, Uninstalling(s), NEW u, Uninstalling(u), u[1] = s[1], NEW R, NEW L,
           FirstOk(s, R, L)
    PROVE  FirstOk(u, R, L) /\ Stays(s, u)
           /\ \A h : LetGoIn(u, h) <=> LetGoIn(s, h)
<1>1. /\ s \in Seq(FrameType) /\ s # <<>> /\ u \in Seq(FrameType) /\ u # <<>>
      /\ Len(u) = 2
  BY DEF Uninstalling
<1>2. Len(u) # 1
  BY <1>1
<1>3. FirstOk(u, R, L) /\ Stays(s, u)
  BY <1>1, <1>2, FirstKept
<1> QED
  BY <1>1, <1>3 DEF LetGoIn

\* Unlink, of a region that has a handler.
LEMMA CoreUnlink ==
    ASSUME NEW s, Uninstalling(s), NEW u \in Seq(FrameType), NEW f, Topped(s, u, f),
           f.call = "region_uninstall", NEW r, r = s[2].r, f.r = r, s[2].at = "start",
           NEW H \in [Ids -> HandlerType], NEW R, NEW L, NEW tl, NEW sv,
           Core(s, H, R, L, tl, sv), NEW h \in Ids, h = R[r].handler, h # NoHandler,
           f.at = IF R[r].attached THEN "detach" ELSE "unreg",
           NEW H2, H2 = UnlinkedIn(H, h, r)
    PROVE  Core(u, H2, R, L, tl, sv) /\ Stays(s, u) /\ H2 \in [Ids -> HandlerType]
<1> USE DEF UnlinkedIn
<1>1. r \in Names
  BY DEF Uninstalling
<1>2. Uninstalling(u) /\ u[2] = f /\ u[1] = s[1]
  BY UninstallTopped
<1>3. FirstOk(u, R, L) /\ Stays(s, u) /\ \A g : LetGoIn(u, g) <=> LetGoIn(s, g)
  BY <1>2, UninstallFirst DEF Core, FirstOk
<1>4. f.at \in {"detach", "unreg"} /\ (f.at = "unreg" => ~R[r].attached)
      /\ (f.at = "detach" => R[r].attached)
  OBVIOUS
<1>5. /\ \A q : ~LeavingIn(s, q) /\ ~MovingIn(s, q) /\ ~TellingIn(s, q)
      /\ \A q : LeavingIn(u, q) <=> q = r
      /\ \A q : ~TellingIn(u, q) /\ (MovingIn(u, q) => q = r)
  BY <1>2, <1>4, UninstallView DEF Undone
<1>6. \A q \in Names :
        TellOk(R[q], tl[q], sv[q], Regions[q].dev \in HasReg, MovingIn(s, q), TellingIn(s, q))
  BY DEF Core, ToldBy
<1>7. ~R[r].attached => sv[r] = NoHandler
  BY <1>1, <1>5, <1>6 DEF TellOk
<1>8. OwnKnown(u, R, sv)
  <2>1. Known(f, R[r], sv[r], CallIn(u, "initialize_node", r))
    BY <1>4, <1>7 DEF Known
  <2> QED
    BY <1>2, <2>1, UninstallView
<1>9. ToldBy(u, R, tl, sv)
  BY <1>5, <1>6 DEF ToldBy, TellOk
<1>10. \A g \in Ids : HandlerOk(H[g], MineOf(R, g), ListedIn(L, g) \/ LetGoIn(s, g), {})
  <2>1. LeavingOf(s) = {}
    BY <1>5 DEF LeavingOf
  <2> QED
    BY <2>1 DEF Core, HeldBy
<1>11. LeavingOf(u) = {r}
  BY <1>1, <1>5 DEF LeavingOf
<1> DEFINE y == [H[h] EXCEPT !.regions = RemoveFirst(@, r)]
<1>12. H2[h] = y /\ \A g \in Ids : g # h => H2[g] = H[g]
  OBVIOUS
<1>13. HandlerOk(y, MineOf(R, h), ListedIn(L, h) \/ LetGoIn(s, h), {r})
       /\ y \in HandlerType
  <2>1. H[h] \in HandlerType
        /\ HandlerOk(H[h], MineOf(R, h), ListedIn(L, h) \/ LetGoIn(s, h), {})
    BY <1>10
  <2>2. y = UnlinkOf(H[h], r)
    BY DEF UnlinkOf
  <2> HIDE DEF y
  <2> QED
    BY <2>1, <2>2, UnlinkOne
<1> HIDE DEF y
<1>14. \A g \in Ids : HandlerOk(H2[g], MineOf(R, g), ListedIn(L, g) \/ LetGoIn(s, g), {r})
  <2> TAKE g \in Ids
  <2>1. CASE g = h
    BY <1>12, <1>13, <2>1
  <2>2. CASE g # h
    <3>1. \A q \in MineOf(R, g) : q \in {} <=> q \in {r}
      BY <2>2 DEF MineOf
    <3>2. HandlerOk(H[g], MineOf(R, g), ListedIn(L, g) \/ LetGoIn(s, g), {r})
      BY <1>10, <3>1, OtherOne
    <3> QED
      BY <1>12, <2>2, <3>2
  <2> QED
    BY <2>1, <2>2
<1>15. HeldBy(u, H2, R, L)
  BY <1>3, <1>11, <1>14 DEF HeldBy, HandlerOk
<1>16. H2 \in [Ids -> HandlerType]
  BY <1>12, <1>13 DEF y
<1>17. ListsShape(L)
  BY DEF Core
<1> QED
  BY <1>3, <1>8, <1>9, <1>15, <1>16, <1>17 DEF Core, FirstOk

\* The DETACH callback.
LEMMA CoreDetach ==
    ASSUME NEW s, Uninstalling(s), NEW u \in Seq(FrameType), NEW f, Topped(s, u, f),
           f.call = "region_uninstall", NEW r, r = s[2].r, f.r = r,
           s[2].at = "detach", f.at = "detached",
           NEW H, NEW R, NEW L, NEW tl, NEW sv, DOMAIN sv = Names,
           Core(s, H, R, L, tl, sv), NEW sv2, sv2 = With(sv, r, NoHandler)
    PROVE  Core(u, H, R, L, tl, sv2) /\ Stays(s, u)
<1> USE DEF With
<1>1. r \in Names /\ sv2[r] = NoHandler /\ \A q \in Names : q # r => sv2[q] = sv[q]
  BY DEF Uninstalling
<1>2. Uninstalling(u) /\ u[2] = f /\ u[1] = s[1]
  BY UninstallTopped
<1>3. FirstOk(u, R, L) /\ Stays(s, u) /\ \A g : LetGoIn(u, g) <=> LetGoIn(s, g)
  BY <1>2, UninstallFirst DEF Core, FirstOk
<1>5. /\ \A q : LeavingIn(u, q) <=> LeavingIn(s, q)
      /\ \A q : ~TellingIn(u, q) /\ ~TellingIn(s, q)
      /\ \A q : ~MovingIn(s, q) /\ (MovingIn(u, q) <=> q = r)
  BY <1>2, UninstallView DEF Undone
<1>6. \A q \in Names :
        TellOk(R[q], tl[q], sv[q], Regions[q].dev \in HasReg, MovingIn(s, q), TellingIn(s, q))
  BY DEF Core, ToldBy
<1>8. OwnKnown(u, R, sv2)
  <2>1. Known(s[2], R[r], sv[r], CallIn(s, "initialize_node", r))
    BY UninstallView DEF Core
  <2>2. Known(f, R[r], sv2[r], CallIn(u, "initialize_node", r))
    BY <1>1, <2>1 DEF Known, Uninstalling
  <2> QED
    BY <1>2, <2>2, UninstallView
<1>9. ToldBy(u, R, tl, sv2)
  <2> SUFFICES ASSUME NEW q \in Names
               PROVE  TellOk(R[q], tl[q], sv2[q], Regions[q].dev \in HasReg,
                             MovingIn(u, q), TellingIn(u, q))
    BY DEF ToldBy
  <2>1. CASE q = r
    BY <1>5, <1>6, <2>1 DEF TellOk
  <2>2. CASE q # r
    BY <1>1, <1>5, <1>6, <2>2 DEF TellOk
  <2> QED
    BY <2>1, <2>2
<1>10. LeavingOf(u) = LeavingOf(s)
  BY <1>5 DEF LeavingOf
<1>11. HeldBy(u, H, R, L)
  BY <1>3, <1>10 DEF Core, HeldBy, HandlerOk
<1> QED
  BY <1>3, <1>8, <1>9, <1>11 DEF Core, FirstOk

\* A region without a handler still is a region.
LEMMA LetType ==
    ASSUME NEW R \in RegType, NEW r \in Names
    PROVE  Let(R, r) \in RegType
<1> DEFINE x == [R[r] EXCEPT !.handler = NoHandler]
           y == [x EXCEPT !.attached = FALSE]
<1>1. R[r] \in [handler : Ids \cup {NoHandler}, attached : BOOLEAN, regged : BOOLEAN,
                exists : BOOLEAN]
  BY DEF RegType
<1>2. x \in [handler : Ids \cup {NoHandler}, attached : BOOLEAN, regged : BOOLEAN,
             exists : BOOLEAN]
  BY <1>1
<1>3. y \in [handler : Ids \cup {NoHandler}, attached : BOOLEAN, regged : BOOLEAN,
             exists : BOOLEAN]
  BY <1>2
<1>4. Let(R, r) = [R EXCEPT ![r] = y]
  BY DEF Let, RegType
<1> HIDE DEF x, y
<1> QED
  BY <1>3, <1>4 DEF RegType

\* Unhandled: the region lets go of its handler and the call returns.
LEMMA CoreUnhandled ==
    ASSUME NEW s, Uninstalling(s), NEW u \in Seq(FrameType), Popped(s, u),
           NEW r, r = s[2].r, s[2].at = "end", MayCall(s[1], s[2]),
           NEW H \in [Ids -> HandlerType], NEW R \in RegType, NEW L, NEW tl, NEW sv,
           Core(s, H, R, L, tl, sv), NEW h, h = R[r].handler,
           NEW H2, H2 = Unref(H, h),
           NEW R2, R2 = Let(R, r)
    PROVE  /\ Core(u, H2, R2, L, tl, sv) /\ Stays(s, u) /\ Moved(s, R, R2)
           /\ H2 \in [Ids -> HandlerType]
<1> USE DEF Let
<1>0. s \in Seq(FrameType) /\ Len(s) > 1
  BY DEF Uninstalling
<1>1. r \in Names /\ s \in Seq(FrameType) /\ s # <<>> /\ Len(s) = 2 /\ DOMAIN s = 1 .. 2
  BY DEF Uninstalling
<1>2. u # <<>> /\ u[1] = s[1] /\ Len(u) = 1 /\ DOMAIN u = 1 .. 1
  <2>2. u # <<>> /\ u[1] = s[1] /\ Len(u) = Len(s) - 1 /\ DOMAIN u = 1 .. Len(s) - 1
    BY <1>0, PoppedFacts
  <2>3. Len(s) - 1 = 1
    BY <1>1
  <2> QED
    BY <2>2, <2>3
<1>3. Known(s[2], R[r], sv[r], CallIn(s, "initialize_node", r))
  BY UninstallView DEF Core
<1>4. h # NoHandler /\ h \in Ids /\ sv[r] = NoHandler
  BY <1>1, <1>3 DEF Known, Uninstalling, RegType
<1>5. /\ R2[r].handler = NoHandler /\ ~R2[r].attached /\ R2[r].exists = R[r].exists
      /\ R2[r].regged = R[r].regged
      /\ \A q \in Names : q # r => R2[q] = R[q]
  BY <1>1 DEF RegType
<1>6. s[1].call \in {"install", "uninstall", "uninstall_node"}
  BY DEF Uninstalling
<1>7. FirstOk(u, R2, L) /\ Stays(s, u)
  <2>1. InLockOf(u) /\ Stays(s, u) /\ OwnLists(u, L)
    BY <1>2 DEF Core, InLockOf, Stays, OwnLists
  <2>2. TodoOk(u, R2)
    BY <1>1, <1>2, <1>5, TodoNames DEF Core, TodoOk, InLockOf
  <2>3. ASSUME NEW q \in Names PROVE MakingOk(u, q, R2[q]) /\ EndingOk(u, q, R2[q])
    <3>1. MakingOk(u, q, R2[q])
      BY <1>2, <1>6 DEF MakingOk, CallIn
    <3>2. EndingOk(s, q, R[q])
      BY DEF Core, NodeOk
    <3>3. CASE CallIn(u, "uninstall_node", q)
      <4>1. s[1].call = "uninstall_node" /\ s[1].r = q /\ CallIn(s, "uninstall_node", q)
        BY <1>1, <1>2, <3>3 DEF CallIn
      <4>2. q = r
        BY <4>1 DEF MayCall, Uninstalling
      <4>3. R2[q].exists /\ R2[q].handler = NoHandler
        BY <1>5, <3>2, <4>1, <4>2 DEF EndingOk
      <4>4. EndingOk(u, q, R2[q])
        BY <4>3 DEF EndingOk
      <4> QED
        BY <3>1, <4>4
    <3>4. CASE ~CallIn(u, "uninstall_node", q)
      <4>1. EndingOk(u, q, R2[q])
        BY <3>4 DEF EndingOk
      <4> QED
        BY <3>1, <4>1
    <3> QED
      BY <3>3, <3>4
  <2> QED
    BY <2>1, <2>2, <2>3 DEF FirstOk, NodeOk
<1>8. /\ \A q : (LeavingIn(s, q) <=> q = r) /\ (MovingIn(s, q) <=> q = r) /\ ~TellingIn(s, q)
  BY UninstallView DEF Undone
<1>9. /\ \A q : ~LeavingIn(u, q) /\ ~MovingIn(u, q) /\ ~TellingIn(u, q)
      /\ \A g : LetGoIn(u, g) <=> LetGoIn(s, g)
  BY <1>1, <1>2, <1>6 DEF LeavingIn, MovingIn, TellingIn, DoingIn, LetGoIn
<1>10. OwnKnown(u, R2, sv)
  <2>1. u[1].call \notin {"region_uninstall", "io", "_REG"}
    BY <1>2, <1>6
  <2>2. Known(u[1], R2[u[1].r], sv[u[1].r], CallIn(u, "initialize_node", u[1].r))
    BY <2>1 DEF Known
  <2> QED
    BY <1>2, <2>2 DEF OwnKnown
<1>11. ToldBy(u, R2, tl, sv)
  <2> SUFFICES ASSUME NEW q \in Names
               PROVE  TellOk(R2[q], tl[q], sv[q], Regions[q].dev \in HasReg,
                             MovingIn(u, q), TellingIn(u, q))
    BY DEF ToldBy
  <2>1. TellOk(R[q], tl[q], sv[q], Regions[q].dev \in HasReg, MovingIn(s, q), TellingIn(s, q))
    BY DEF Core, ToldBy
  <2>2. CASE q = r
    BY <1>4, <1>5, <1>8, <1>9, <2>1, <2>2 DEF TellOk
  <2>3. CASE q # r
    BY <1>5, <1>8, <1>9, <2>1, <2>3 DEF TellOk
  <2> QED
    BY <2>2, <2>3
<1>12. Moved(s, R, R2)
  BY <1>5 DEF Moved
<1>13. LeavingOf(s) = {r} /\ LeavingOf(u) = {}
  BY <1>1, <1>8, <1>9 DEF LeavingOf
<1>14. \A g \in Ids : HandlerOk(H[g], MineOf(R, g), ListedIn(L, g) \/ LetGoIn(s, g), {r})
  BY <1>13 DEF Core, HeldBy
<1>15. MineOf(R2, h) = MineOf(R, h) \ {r} /\ r \in MineOf(R, h)
  BY <1>1, <1>4, <1>5 DEF MineOf
<1>16. \A g \in Ids : g # h => MineOf(R2, g) = MineOf(R, g) /\ r \notin MineOf(R, g)
  <2>1. \A g \in Ids : g # NoHandler
    BY IdsAssumption DEF NoHandler
  <2> QED
    BY <1>1, <1>5, <2>1 DEF MineOf
<1>17. H2[h] = UnrefOne(H[h]) /\ (\A g \in Ids : g # h => H2[g] = H[g])
       /\ H2 = [H EXCEPT ![h] = UnrefOne(H[h])]
  <2>1. H2 = [H EXCEPT ![h] = UnrefOne(H[h])]
    BY DEF Unref, UnrefOne
  <2> QED
    BY <1>4, <2>1
<1>18. HandlerOk(UnrefOne(H[h]), MineOf(R, h) \ {r}, ListedIn(L, h) \/ LetGoIn(s, h), {})
       /\ UnrefOne(H[h]) \in HandlerType
  <2>1. H[h] \in HandlerType /\ IsFiniteSet(MineOf(R, h))
        /\ (ListedIn(L, h) \/ LetGoIn(s, h)) \in BOOLEAN
        /\ HandlerOk(H[h], MineOf(R, h), ListedIn(L, h) \/ LetGoIn(s, h), {r})
    BY <1>4, <1>14, MineFinite
  <2> QED
    BY <1>15, <2>1, UnrefRegion
<1>19. HeldBy(u, H2, R2, L)
  <2> SUFFICES ASSUME NEW g \in Ids
               PROVE  HandlerOk(H2[g], MineOf(R2, g), ListedIn(L, g) \/ LetGoIn(s, g), {})
    BY <1>9, <1>13 DEF HeldBy, HandlerOk
  <2>1. CASE g = h
    BY <1>15, <1>17, <1>18, <2>1
  <2>2. CASE g # h
    <3>1. \A q \in MineOf(R, g) : q \in {r} <=> q \in {}
      BY <1>16, <2>2
    <3>2. HandlerOk(H[g], MineOf(R, g), ListedIn(L, g) \/ LetGoIn(s, g), {})
      BY <1>14, <3>1, OtherOne
    <3> QED
      BY <1>16, <1>17, <2>2, <3>2
  <2> QED
    BY <2>1, <2>2
<1>20. H2 \in [Ids -> HandlerType]
  BY <1>4, <1>17, <1>18
<1>21. ListsShape(L)
  BY DEF Core
<1> QED
  BY <1>7, <1>10, <1>11, <1>12, <1>19, <1>20, <1>21 DEF Core, FirstOk

\* The first call of the stack stays what it is.
LEMMA ToppedFirst ==
    ASSUME NEW s \in Seq(FrameType), NEW u \in Seq(FrameType), s # <<>>, NEW f,
           Topped(s, u, f), f.call = Last(s).call, f.r = Last(s).r,
           NEW R, NEW L, FirstOk(s, R, L), Len(s) = 1 => FirstOk(u, R, L)
    PROVE  /\ FirstOk(u, R, L) /\ Stays(s, u)
           /\ \A r : CallIn(u, "initialize_node", r) <=> CallIn(s, "initialize_node", r)
<1> DEFINE n == Len(s)
<1>1. n \in Nat /\ n # 0 /\ Last(s) = s[n] /\ DOMAIN s = 1 .. n /\ 1 \in 1 .. n
  BY ToppedFacts
<1>2. DOMAIN u = 1 .. n /\ u[n] = f /\ \A k \in 1 .. n : k # n => u[k] = s[k]
  BY ToppedFacts
<1>3. u # <<>> /\ Len(u) = n
  BY ToppedFacts
<1>4. u[1].call = s[1].call /\ u[1].r = s[1].r
  <2> HIDE DEF n
  <2> QED
    BY <1>1, <1>2
<1>5. FirstOk(u, R, L) /\ Stays(s, u)
  <2>1. CASE n = 1
    BY <1>4, <2>1 DEF Stays, FirstOk
  <2>2. CASE n # 1
    <3> HIDE DEF n
    <3>1. u[1] = s[1]
      BY <1>1, <1>2, <2>2
    <3> QED
      BY <1>3, <2>2, <3>1, FirstKept
  <2> QED
    BY <2>1, <2>2
<1> QED
  BY <1>3, <1>4, <1>5 DEF CallIn

\* An access keeps no region of its own waiting.
LEMMA IoFirst ==
    ASSUME NEW s, s # <<>>, NEW u, u # <<>>, u[1].call = "io", u[1].at \notin Outside,
           u[1].todo = s[1].todo, NEW R, NEW L, FirstOk(s, R, L)
    PROVE  FirstOk(u, R, L)
<1>1. InLockOf(u) /\ TodoOk(u, R) /\ OwnLists(u, L)
  BY DEF FirstOk, InLockOf, TodoOk, OwnLists
<1>2. NodeOk(u, R)
  BY DEF NodeOk, MakingOk, EndingOk, CallIn
<1> QED
  BY <1>1, <1>2 DEF FirstOk

\* The first call knows of a region whether it exists and who handles it.
SameNodes(R, R2) ==
  \A q \in Names : R2[q].exists = R[q].exists /\ R2[q].handler = R[q].handler
\* ... so it does not see a region attached or told of.
LEMMA FirstSame ==
    ASSUME NEW s \in Seq(FrameType), NEW R, NEW L, FirstOk(s, R, L), NEW R2,
           SameNodes(R, R2)
    PROVE  FirstOk(s, R2, L)
<1>1. NodeOk(s, R2)
  BY DEF FirstOk, NodeOk, SameNodes, MakingOk, EndingOk
<1>2. s # <<>>
  BY DEF FirstOk, InLockOf
<1>3. TodoOk(s, R2)
  BY <1>2, TodoNames DEF FirstOk, TodoOk, SameNodes
<1> QED
  BY <1>1, <1>3 DEF FirstOk

\* An access under way: it is above calls that move nothing.
Accessing(s) ==
  /\ s \in Seq(FrameType) /\ s # <<>> /\ Last(s).call = "io" /\ Last(s).r \in Names
  /\ \A k \in DOMAIN s : k # Len(s) => s[k].call \notin {"region_uninstall", "io"}

\* The marks of the access, and what is known to it.
LEMMA AccessView ==
    ASSUME NEW s, Accessing(s)
    PROVE  /\ \A q : MovingIn(s, q) <=> q = Last(s).r /\ Last(s).at = "attached"
           /\ \A q : ~LeavingIn(s, q)
           /\ \A R, sv : OwnKnown(s, R, sv) =>
                Known(Last(s), R[Last(s).r], sv[Last(s).r],
                      CallIn(s, "initialize_node", Last(s).r))
<1> DEFINE n == Len(s)
           e == Last(s)
<1>1. n \in Nat /\ n # 0 /\ e = s[n] /\ DOMAIN s = 1 .. n
  BY LastSeq DEF Accessing
<1>2. n \in 1 .. n
  BY <1>1
<1>3. e.call = "io" /\ \A k \in 1 .. n : k # n => s[k].call \notin {"region_uninstall", "io"}
  BY <1>1 DEF Accessing
<1> HIDE DEF n, e
<1>4. \A q : MovingIn(s, q) <=> q = e.r /\ e.at = "attached"
  BY <1>1, <1>2, <1>3 DEF MovingIn, DoingIn
<1>5. \A q : ~LeavingIn(s, q)
  BY <1>1, <1>2, <1>3 DEF LeavingIn
<1>6. \A R, sv : OwnKnown(s, R, sv) =>
        Known(e, R[e.r], sv[e.r], CallIn(s, "initialize_node", e.r))
  BY <1>1, <1>2 DEF OwnKnown
<1> QED
  BY <1>4, <1>5, <1>6 DEF e

\* An access that goes on is an access.
LEMMA AccessTopped ==
    ASSUME NEW s, Accessing(s), NEW u \in Seq(FrameType), NEW f, Topped(s, u, f),
           f.call = "io", f.r = Last(s).r
    PROVE  /\ Accessing(u) /\ Last(u) = f
           /\ \A q : TellingIn(u, q) <=> TellingIn(s, q)
           /\ \A h : LetGoIn(u, h) <=> LetGoIn(s, h)
<1> DEFINE n == Len(s)
<1>0. s \in Seq(FrameType) /\ s # <<>>
  BY DEF Accessing
<1>1. n \in Nat /\ n # 0 /\ Last(s) = s[n] /\ DOMAIN s = 1 .. n /\ 1 \in 1 .. n /\ n \in 1 .. n
  BY <1>0, ToppedFacts
<1>2. DOMAIN u = 1 .. n /\ u[n] = f /\ u # <<>> /\ Len(u) = n
      /\ \A k \in 1 .. n : k # n => u[k] = s[k]
  BY <1>0, ToppedFacts
<1>3. Last(u) = f
  BY <1>2, LastSeq
<1>4. s[n].call = "io" /\ f.r \in Names
  BY <1>1 DEF Accessing
<1>5. \A k \in 1 .. n : k # n => s[k].call \notin {"region_uninstall", "io"}
  BY <1>1 DEF Accessing
<1> HIDE DEF n
<1>6. Accessing(u)
  BY <1>2, <1>3, <1>4, <1>5 DEF Accessing
<1>7. \A q : TellingIn(u, q) <=> TellingIn(s, q)
  BY <1>1, <1>2, <1>4 DEF TellingIn, DoingIn
<1>8. \A h : LetGoIn(u, h) <=> LetGoIn(s, h)
  <2>1. CASE n = 1
    BY <1>1, <1>2, <1>4, <2>1 DEF LetGoIn
  <2>2. CASE n # 1
    BY <1>0, <1>1, <1>2, <2>2 DEF LetGoIn
  <2> QED
    BY <2>1, <2>2
<1> QED
  BY <1>3, <1>6, <1>7, <1>8

\* What the calls below an access know does not depend on ATTACH and DETACH.
LEMMA AccessKnown ==
    ASSUME NEW s, Accessing(s), NEW u \in Seq(FrameType), NEW f, Topped(s, u, f),
           f.call = "io", f.r = Last(s).r,
           \A r : CallIn(u, "initialize_node", r) <=> CallIn(s, "initialize_node", r),
           Framed(s), NEW R, NEW sv, OwnKnown(s, R, sv), NEW R2, NEW sv2,
           SameNodes(R, R2), \A q \in Names : R2[q].regged = R[q].regged,
           Known(f, R2[f.r], sv2[f.r], CallIn(s, "initialize_node", f.r))
    PROVE  OwnKnown(u, R2, sv2)
<1> DEFINE n == Len(s)
<1>0. s \in Seq(FrameType) /\ s # <<>>
  BY DEF Accessing
<1>1. DOMAIN s = 1 .. n
  BY <1>0, ToppedFacts
<1>2. DOMAIN u = 1 .. n /\ u[n] = f /\ \A k \in 1 .. n : k # n => u[k] = s[k]
  BY <1>0, ToppedFacts
<1>3. \A k \in 1 .. n : k # n => s[k].call \notin {"region_uninstall", "io"}
  BY <1>1 DEF Accessing
<1> HIDE DEF n
<1> SUFFICES ASSUME NEW k \in 1 .. n
             PROVE  Known(u[k], R2[u[k].r], sv2[u[k].r], CallIn(s, "initialize_node", u[k].r))
  BY <1>2 DEF OwnKnown, Known
<1>4. CASE k = n
  BY <1>2, <1>4
<1>5. CASE k # n
  <2>1. u[k] = s[k] /\ s[k].call \notin {"region_uninstall", "io"}
    BY <1>2, <1>3, <1>5
  <2>2. Known(s[k], R[s[k].r], sv[s[k].r], CallIn(s, "initialize_node", s[k].r))
    BY <1>1 DEF OwnKnown
  <2>3. CASE s[k].r \in Names
    BY <2>1, <2>2, <2>3 DEF Known, SameNodes
  <2>4. CASE s[k].call \notin RegionCalls
    BY <2>1, <2>4 DEF Known, RegionCalls
  <2> QED
    BY <1>1, <2>3, <2>4, FramedRegion
<1> QED
  BY <1>4, <1>5

\* The ATTACH callback.
LEMMA CoreAttach ==
    ASSUME NEW s, Accessing(s), NEW u \in Seq(FrameType), NEW f, Topped(s, u, f),
           f.call = "io", NEW r, r = Last(s).r, f.r = r, Last(s).at = "attach",
           f.at = "attached", Framed(s),
           NEW H, NEW R, NEW L, NEW tl, NEW sv, DOMAIN sv = Names,
           Core(s, H, R, L, tl, sv), Len(s) = 1 => FirstOk(u, R, L),
           NEW sv2, sv2 = With(sv, r, R[r].handler)
    PROVE  Core(u, H, R, L, tl, sv2) /\ Stays(s, u)
<1> USE DEF With
<1>0. s \in Seq(FrameType) /\ s # <<>> /\ r \in Names /\ Last(s).call = "io"
  BY DEF Accessing
<1>1. sv2[r] = R[r].handler /\ \A q \in Names : q # r => sv2[q] = sv[q]
  BY <1>0
<1>2. /\ Accessing(u) /\ Last(u) = f
      /\ \A q : TellingIn(u, q) <=> TellingIn(s, q)
      /\ \A h : LetGoIn(u, h) <=> LetGoIn(s, h)
  BY AccessTopped
<1>3. /\ FirstOk(u, R, L) /\ Stays(s, u)
      /\ \A q : CallIn(u, "initialize_node", q) <=> CallIn(s, "initialize_node", q)
  <2>1. FirstOk(s, R, L)
    BY DEF Core, FirstOk
  <2> QED
    BY <1>0, <2>1, ToppedFirst
<1>4. /\ \A q : ~LeavingIn(u, q) /\ ~LeavingIn(s, q)
      /\ \A q : ~MovingIn(s, q) /\ (MovingIn(u, q) <=> q = r)
  BY <1>2, AccessView
<1>5. R[r].exists /\ R[r].handler # NoHandler /\ ~R[r].attached
  <2>1. Known(Last(s), R[r], sv[r], CallIn(s, "initialize_node", r))
    BY AccessView DEF Core
  <2> QED
    BY <1>0, <2>1 DEF Known
<1>6. OwnKnown(u, R, sv2)
  <2>1. Known(f, R[r], sv2[r], CallIn(s, "initialize_node", r))
    BY <1>1, <1>5 DEF Known
  <2>2. OwnKnown(s, R, sv) /\ SameNodes(R, R)
    BY DEF Core, SameNodes
  <2> QED
    BY <1>3, <2>1, <2>2, AccessKnown
<1>7. ToldBy(u, R, tl, sv2)
  <2> SUFFICES ASSUME NEW q \in Names
               PROVE  TellOk(R[q], tl[q], sv2[q], Regions[q].dev \in HasReg,
                             MovingIn(u, q), TellingIn(u, q))
    BY DEF ToldBy
  <2>1. TellOk(R[q], tl[q], sv[q], Regions[q].dev \in HasReg, MovingIn(s, q), TellingIn(s, q))
    BY DEF Core, ToldBy
  <2>2. CASE q = r
    BY <1>2, <1>4, <2>1, <2>2 DEF TellOk
  <2>3. CASE q # r
    BY <1>1, <1>2, <1>4, <2>1, <2>3 DEF TellOk
  <2> QED
    BY <2>2, <2>3
<1>8. HeldBy(u, H, R, L)
  <2>1. LeavingOf(u) = LeavingOf(s)
    BY <1>4 DEF LeavingOf
  <2> QED
    BY <1>2, <2>1 DEF Core, HeldBy, HandlerOk
<1> QED
  BY <1>3, <1>6, <1>7, <1>8 DEF Core, FirstOk

\* The region is attached.
LEMMA CoreAttached ==
    ASSUME NEW s, Accessing(s), NEW u \in Seq(FrameType), NEW f, Topped(s, u, f),
           f.call = "io", NEW r, r = Last(s).r, f.r = r, Last(s).at = "attached",
           f.at = "access", Framed(s),
           NEW H, NEW R \in RegType, NEW L, NEW tl, NEW sv,
           Core(s, H, R, L, tl, sv), Len(s) = 1 => FirstOk(u, R, L),
           NEW R2, R2 = Attached(R, r)
    PROVE  Core(u, H, R2, L, tl, sv) /\ Stays(s, u) /\ Moved(s, R, R2)
<1> USE DEF Attached
<1>0. s \in Seq(FrameType) /\ s # <<>> /\ r \in Names /\ Last(s).call = "io"
  BY DEF Accessing
<1>1. /\ R2[r].attached /\ \A q \in Names : q # r => R2[q] = R[q]
      /\ \A q \in Names : /\ R2[q].exists = R[q].exists /\ R2[q].handler = R[q].handler
                          /\ R2[q].regged = R[q].regged
  BY <1>0 DEF RegType
<1>2. /\ Accessing(u) /\ Last(u) = f
      /\ \A q : TellingIn(u, q) <=> TellingIn(s, q)
      /\ \A h : LetGoIn(u, h) <=> LetGoIn(s, h)
  BY AccessTopped
<1>3. /\ FirstOk(u, R2, L) /\ Stays(s, u) /\ SameNodes(R, R2)
      /\ \A q : CallIn(u, "initialize_node", q) <=> CallIn(s, "initialize_node", q)
  <2>1. FirstOk(s, R, L)
    BY DEF Core, FirstOk
  <2>2. /\ FirstOk(u, R, L) /\ Stays(s, u)
        /\ \A q : CallIn(u, "initialize_node", q) <=> CallIn(s, "initialize_node", q)
    BY <1>0, <2>1, ToppedFirst
  <2>3. SameNodes(R, R2)
    BY <1>1 DEF SameNodes
  <2>4. FirstOk(u, R2, L)
    BY <2>2, <2>3, FirstSame
  <2> QED
    BY <2>2, <2>3, <2>4
<1>4. /\ \A q : ~LeavingIn(u, q) /\ ~LeavingIn(s, q)
      /\ \A q : ~MovingIn(u, q) /\ (MovingIn(s, q) <=> q = r)
  BY <1>2, AccessView
<1>5. R[r].exists /\ R[r].handler # NoHandler /\ sv[r] = R[r].handler
  <2>1. Known(Last(s), R[r], sv[r], CallIn(s, "initialize_node", r))
    BY AccessView DEF Core
  <2> QED
    BY <1>0, <2>1 DEF Known
<1>6. OwnKnown(u, R2, sv)
  <2>1. Known(f, R2[r], sv[r], CallIn(s, "initialize_node", r))
    BY <1>0, <1>1, <1>5 DEF Known
  <2>2. OwnKnown(s, R, sv)
    BY DEF Core
  <2>3. ASSUME NEW Q, SameNodes(R, Q), \A q \in Names : Q[q].regged = R[q].regged,
               Known(f, Q[r], sv[r], CallIn(s, "initialize_node", r))
        PROVE  OwnKnown(u, Q, sv)
    BY <1>3, <2>2, <2>3, AccessKnown
  <2> QED
    BY <1>1, <1>3, <2>1, <2>3
<1>7. ToldBy(u, R2, tl, sv)
  <2> SUFFICES ASSUME NEW q \in Names
               PROVE  TellOk(R2[q], tl[q], sv[q], Regions[q].dev \in HasReg,
                             MovingIn(u, q), TellingIn(u, q))
    BY DEF ToldBy
  <2>1. TellOk(R[q], tl[q], sv[q], Regions[q].dev \in HasReg, MovingIn(s, q), TellingIn(s, q))
    BY DEF Core, ToldBy
  <2>2. CASE q = r
    BY <1>1, <1>2, <1>4, <1>5, <2>1, <2>2 DEF TellOk
  <2>3. CASE q # r
    BY <1>1, <1>2, <1>4, <2>1, <2>3 DEF TellOk
  <2> QED
    BY <2>2, <2>3
<1>8. HeldBy(u, H, R2, L)
  <2>1. LeavingOf(u) = LeavingOf(s)
    BY <1>4 DEF LeavingOf
  <2>2. \A h : MineOf(R2, h) = MineOf(R, h)
    BY <1>1 DEF MineOf
  <2> QED
    BY <1>2, <2>1, <2>2 DEF Core, HeldBy, HandlerOk
<1>9. Moved(s, R, R2)
  BY <1>1 DEF Moved
<1>10. ListsShape(L)
  BY DEF Core
<1> QED
  BY <1>3, <1>6, <1>7, <1>8, <1>9, <1>10 DEF Core, FirstOk

\* One call on the stack, and it is not about one region being told of.
Single(s, kinds) ==
  /\ s \in Seq(FrameType) /\ s # <<>> /\ Len(s) = 1 /\ DOMAIN s = 1 .. 1
  /\ s[1].call \in kinds
\* Such a call leaves no mark on a region.
LEMMA SingleView ==
    ASSUME NEW s, Single(s, Acquiring \ {"io"})
    PROVE  /\ \A q : ~LeavingIn(s, q) /\ ~MovingIn(s, q) /\ ~TellingIn(s, q)
           /\ LeavingOf(s) = {}
           /\ \A R, sv : OwnKnown(s, R, sv)
<1>1. \A k \in DOMAIN s : k = 1
  BY DEF Single
<1>2. s[1].call # "region_uninstall" /\ s[1].call # "io" /\ s[1].call # "_REG"
  BY DEF Single, Acquiring, Api
<1>3. \A q : ~LeavingIn(s, q) /\ ~MovingIn(s, q) /\ ~TellingIn(s, q)
  BY <1>1, <1>2 DEF LeavingIn, MovingIn, TellingIn, DoingIn
<1>4. \A R, sv : OwnKnown(s, R, sv)
  BY <1>1, <1>2 DEF OwnKnown, Known
<1> QED
  BY <1>3, <1>4 DEF LeavingOf

\* region_install_handler.
LEMMA CoreLink ==
    ASSUME NEW s, Single(s, {"install", "initialize_node"}),
           NEW H \in [Ids -> HandlerType], NEW R \in RegType, NEW L, NEW tl, NEW sv,
           Core(s, H, R, L, tl, sv), NEW r \in Names, NEW h \in Ids,
           R[r].handler = NoHandler, R[r].exists \/ CallIn(s, "initialize_node", r),
           s[1].call = "initialize_node" => s[1].at \in {"connect", "leave"},
           NEW H2, H2 = Linked(H, r, h), NEW R2, R2 = Handled(R, r, h)
    PROVE  Core(s, H2, R2, L, tl, sv) /\ Moved(s, R, R2) /\ H2 \in [Ids -> HandlerType]
<1> USE DEF Handled
<1>0. s \in Seq(FrameType) /\ s # <<>> /\ s[1].call \in {"install", "initialize_node"}
  BY DEF Single
<1>1. /\ R2[r].handler = h /\ \A q \in Names : q # r => R2[q] = R[q]
      /\ \A q \in Names : /\ R2[q].exists = R[q].exists /\ R2[q].attached = R[q].attached
                          /\ R2[q].regged = R[q].regged
  BY DEF RegType
<1>2. h # NoHandler /\ \A g \in Ids : g # NoHandler
  BY IdsAssumption DEF NoHandler
<1>3. /\ \A q : ~LeavingIn(s, q) /\ ~MovingIn(s, q) /\ ~TellingIn(s, q)
      /\ LeavingOf(s) = {} /\ OwnKnown(s, R2, sv)
  <2>1. Single(s, Acquiring \ {"io"})
    BY DEF Single, Acquiring, Api
  <2> QED
    BY <2>1, SingleView
<1>4. FirstOk(s, R2, L)
  <2>1. InLockOf(s) /\ OwnLists(s, L) /\ NodeOk(s, R) /\ TodoOk(s, R)
    BY DEF Core
  <2>2. TodoOk(s, R2)
    BY <1>0, <1>1, <2>1, TodoNames DEF TodoOk
  <2>3. ASSUME NEW q \in Names PROVE MakingOk(s, q, R2[q]) /\ EndingOk(s, q, R2[q])
    <3>1. MakingOk(s, q, R[q])
      BY <2>1 DEF NodeOk
    <3>2. MakingOk(s, q, R2[q])
      BY <1>1, <3>1 DEF MakingOk, CallIn
    <3>3. EndingOk(s, q, R2[q])
      BY <1>0 DEF EndingOk, CallIn
    <3> QED
      BY <3>2, <3>3
  <2> QED
    BY <2>1, <2>2, <2>3 DEF FirstOk, NodeOk
<1>5. ToldBy(s, R2, tl, sv)
  <2> SUFFICES ASSUME NEW q \in Names
               PROVE  TellOk(R2[q], tl[q], sv[q], Regions[q].dev \in HasReg,
                             MovingIn(s, q), TellingIn(s, q))
    BY DEF ToldBy
  <2>1. TellOk(R[q], tl[q], sv[q], Regions[q].dev \in HasReg, MovingIn(s, q), TellingIn(s, q))
    BY DEF Core, ToldBy
  <2>2. CASE q = r
    <3>1. ~R[r].attached
      BY <2>1, <2>2 DEF TellOk
    <3> QED
      BY <1>1, <1>3, <2>1, <2>2, <3>1 DEF TellOk
  <2>3. CASE q # r
    BY <1>1, <2>1, <2>3
  <2> QED
    BY <2>2, <2>3
<1>6. \A g \in Ids : HandlerOk(H[g], MineOf(R, g), ListedIn(L, g) \/ LetGoIn(s, g), {})
  BY <1>3 DEF Core, HeldBy
<1>7. MineOf(R2, h) = MineOf(R, h) \cup {r} /\ r \notin MineOf(R, h)
  BY <1>1, <1>2 DEF MineOf
<1>8. \A g \in Ids : g # h => MineOf(R2, g) = MineOf(R, g)
  BY <1>1, <1>2 DEF MineOf
<1>9. H2 = [H EXCEPT ![h] = LinkOne(H[h], r)]
  BY DEF Linked, LinkOne
<1>10. HandlerOk(LinkOne(H[h], r), MineOf(R, h) \cup {r}, ListedIn(L, h) \/ LetGoIn(s, h), {})
       /\ LinkOne(H[h], r) \in HandlerType
  <2>1. /\ H[h] \in HandlerType /\ IsFiniteSet(MineOf(R, h))
        /\ (ListedIn(L, h) \/ LetGoIn(s, h)) \in BOOLEAN /\ r \notin {}
        /\ HandlerOk(H[h], MineOf(R, h), ListedIn(L, h) \/ LetGoIn(s, h), {})
    BY <1>6, MineFinite
  <2> QED
    BY <1>7, <2>1, LinkedOne
<1> DEFINE y == LinkOne(H[h], r)
<1> HIDE DEF y
<1>11. H2 = [H EXCEPT ![h] = y] /\ y \in HandlerType
       /\ HandlerOk(y, MineOf(R, h) \cup {r}, ListedIn(L, h) \/ LetGoIn(s, h), {})
  BY <1>9, <1>10 DEF y
<1>12. H2 \in [Ids -> HandlerType] /\ H2[h] = y /\ \A g \in Ids : g # h => H2[g] = H[g]
  BY <1>11
<1>13. HeldBy(s, H2, R2, L)
  <2> SUFFICES ASSUME NEW g \in Ids
               PROVE  HandlerOk(H2[g], MineOf(R2, g), ListedIn(L, g) \/ LetGoIn(s, g), {})
    BY <1>3 DEF HeldBy
  <2>1. CASE g = h
    BY <1>7, <1>11, <1>12, <2>1
  <2>2. CASE g # h
    BY <1>6, <1>8, <1>12, <2>2
  <2> QED
    BY <2>1, <2>2
<1>14. Moved(s, R, R2)
  BY <1>1 DEF Moved
<1>15. ListsShape(L)
  BY DEF Core
<1> QED
  BY <1>3, <1>4, <1>5, <1>12, <1>13, <1>14, <1>15 DEF Core, FirstOk

\* The only call on the stack goes on.
LEMMA SingleTopped ==
    ASSUME NEW kinds, NEW s, Single(s, kinds), NEW u \in Seq(FrameType), NEW f,
           Topped(s, u, f), f.call = s[1].call, f.r = s[1].r
    PROVE  Single(u, kinds) /\ u[1] = f /\ Last(s) = s[1]
           /\ (InLockOf(u) => Stays(s, u))
<1>0. s \in Seq(FrameType) /\ s # <<>>
  BY DEF Single
<1>1. Len(s) = 1
  BY DEF Single
<1>2. Len(u) = Len(s) /\ DOMAIN u = 1 .. Len(s) /\ u # <<>> /\ u[Len(s)] = f
      /\ Last(s) = s[Len(s)]
  BY <1>0, ToppedFacts
<1>3. Len(u) = 1 /\ DOMAIN u = 1 .. 1 /\ u[1] = f /\ Last(s) = s[1]
  BY <1>1, <1>2
<1>4. Single(u, kinds)
  BY <1>2, <1>3 DEF Single
<1> QED
  BY <1>3, <1>4 DEF Stays

\* A handler is allocated and put on the list of its device.
Allocating(s, u, f, h, d, H, R, L, tl, sv, space) ==
  /\ Single(s, {"install"}) /\ u \in Seq(FrameType) /\ Topped(s, u, f)
  /\ f.call = "install" /\ f.r = s[1].r /\ f.at = "regions" /\ f.h = h
  /\ h \in Ids /\ d \in Range(Devices) /\ space \in Spaces
  /\ H \in [Ids -> HandlerType] /\ L \in [Range(Devices) -> Seq(Ids)]
  /\ Core(s, H, R, L, tl, sv) /\ H[h].refs = 0
  /\ \A q \in Range(f.todo) : R[q].exists
\* The core holds of the new handler and of its list.
LEMMA CoreNew ==
    ASSUME NEW s, NEW u, NEW f, NEW h, NEW d, NEW H, NEW R, NEW L, NEW tl, NEW sv,
           NEW space, Allocating(s, u, f, h, d, H, R, L, tl, sv, space),
           NEW H2, H2 = With(H, h, NewHandler(space)),
           NEW L2, L2 = PutOn(L, d, h)
    PROVE  /\ Core(u, H2, R, L2, tl, sv) /\ Stays(s, u)
           /\ H2 \in [Ids -> HandlerType] /\ L2 \in [Range(Devices) -> Seq(Ids)]
<1>0. /\ Single(s, {"install"}) /\ u \in Seq(FrameType) /\ Topped(s, u, f)
      /\ f.call = "install" /\ f.r = s[1].r /\ f.at = "regions" /\ f.h = h
      /\ h \in Ids /\ d \in Range(Devices) /\ space \in Spaces
      /\ H \in [Ids -> HandlerType] /\ L \in [Range(Devices) -> Seq(Ids)]
      /\ Core(s, H, R, L, tl, sv) /\ H[h].refs = 0
      /\ \A q \in Range(f.todo) : R[q].exists
  BY DEF Allocating
<1> USE <1>0
<1> USE DEF With, NewHandler, PutOn
<1>1. Single(u, {"install"}) /\ u[1] = f /\ Last(s) = s[1] /\ (InLockOf(u) => Stays(s, u))
  <2>1. f.call = s[1].call
    BY DEF Single
  <2> QED
    BY <2>1, SingleTopped
<1>2. u # <<>> /\ s # <<>> /\ s[1].call = "install"
  BY <1>1 DEF Single
<1>3. /\ \A q : ~LeavingIn(s, q) /\ ~MovingIn(s, q) /\ ~TellingIn(s, q)
      /\ \A q : ~LeavingIn(u, q) /\ ~MovingIn(u, q) /\ ~TellingIn(u, q)
      /\ LeavingOf(s) = {} /\ LeavingOf(u) = {} /\ OwnKnown(u, R, sv)
  <2>1. Single(s, Acquiring \ {"io"}) /\ Single(u, Acquiring \ {"io"})
    BY <1>1 DEF Single, Acquiring, Api
  <2> QED
    BY <2>1, SingleView
<1>4. \A g : ~LetGoIn(s, g) /\ ~LetGoIn(u, g)
  BY <1>1, <1>2 DEF LetGoIn
<1>5. \A g \in Ids : HandlerOk(H[g], MineOf(R, g), ListedIn(L, g), {})
  BY <1>3, <1>4 DEF Core, HeldBy, HandlerOk
<1>6. MineOf(R, h) = {} /\ ~ListedIn(L, h)
  <2>1. HandlerOk(H[h], MineOf(R, h), ListedIn(L, h), {}) /\ IsFiniteSet(MineOf(R, h))
        /\ ListedIn(L, h) \in BOOLEAN
    BY <1>5, MineFinite DEF ListedIn
  <2> QED
    BY <2>1, FreeOne
<1> DEFINE l == <<h>> \o L[d]
<1>7. l \in Seq(Ids) /\ Range(l) = Range(L[d]) \cup {h} /\ IsInjective(l)
  <2>1. h \notin Range(L[d]) /\ IsInjective(L[d]) /\ L[d] \in Seq(Ids)
    BY <1>6 DEF ListedIn, Core, ListsShape
  <2> QED
    BY <2>1, ConsSeq
<1> HIDE DEF l
<1>8. L2[d] = l /\ (\A e \in Range(Devices) : e # d => L2[e] = L[e])
      /\ L2 \in [Range(Devices) -> Seq(Ids)]
  <2>1. L2 = [L EXCEPT ![d] = l]
    BY DEF l
  <2> QED
    BY <1>7, <2>1
<1>9. \A g : ListedIn(L2, g) <=> ListedIn(L, g) \/ g = h
  BY <1>7, <1>8 DEF ListedIn
<1>10. ListsShape(L2)
  <2>1. ASSUME NEW e \in Range(Devices) PROVE IsInjective(L2[e])
    BY <1>7, <1>8 DEF Core, ListsShape
  <2>2. ASSUME NEW e \in Range(Devices), NEW e2 \in Range(Devices),
               NEW g \in Range(L2[e]), g \in Range(L2[e2])
        PROVE  e = e2
    <3>1. CASE g = h
      <4>1. \A c \in Range(Devices) : c # d => g \notin Range(L2[c])
        BY <1>6, <1>8, <3>1 DEF ListedIn
      <4> QED
        BY <2>2, <4>1
    <3>2. CASE g # h
      <4>1. g \in Range(L[e]) /\ g \in Range(L[e2])
        BY <1>7, <1>8, <2>2, <3>2
      <4> QED
        BY <4>1 DEF Core, ListsShape
    <3> QED
      BY <3>1, <3>2
  <2> QED
    BY <2>1, <2>2 DEF ListsShape
<1>11. FirstOk(u, R, L2)
  <2>1. InLockOf(u)
    BY <1>1, <1>2 DEF InLockOf, Outside
  <2>2. TodoOk(u, R) /\ OwnLists(u, L2)
    BY <1>1 DEF TodoOk, OwnLists
  <2>3. NodeOk(u, R)
    BY <1>1 DEF NodeOk, MakingOk, EndingOk, CallIn
  <2> QED
    BY <2>1, <2>2, <2>3 DEF FirstOk
<1> DEFINE y == [space |-> space, regions |-> <<>>, refs |-> 1]
<1>12. HandlerOk(y, {}, TRUE, {}) /\ y \in HandlerType
  BY NoRange, FS_EmptySet DEF HandlerOk, HandlerType
<1> HIDE DEF y
<1>13. H2[h] = y /\ (\A g \in Ids : g # h => H2[g] = H[g]) /\ H2 \in [Ids -> HandlerType]
  <2>1. H2 = [H EXCEPT ![h] = y]
    BY DEF y
  <2> QED
    BY <1>12, <2>1
<1>14. HeldBy(u, H2, R, L2)
  <2> SUFFICES ASSUME NEW g \in Ids
               PROVE  HandlerOk(H2[g], MineOf(R, g), ListedIn(L2, g), {})
    BY <1>3, <1>4 DEF HeldBy, HandlerOk
  <2>1. CASE g = h
    <3>1. ListedIn(L2, h)
      BY <1>9
    <3> QED
      BY <1>6, <1>12, <1>13, <2>1, <3>1 DEF HandlerOk
  <2>2. CASE g # h
    <3>1. ListedIn(L2, g) <=> ListedIn(L, g)
      BY <1>9, <2>2
    <3>2. HandlerOk(H[g], MineOf(R, g), ListedIn(L, g), {})
      BY <1>5
    <3> QED
      BY <1>13, <2>2, <3>1, <3>2 DEF HandlerOk
  <2> QED
    BY <2>1, <2>2
<1>15. ToldBy(u, R, tl, sv)
  BY <1>3 DEF Core, ToldBy, TellOk
<1> QED
  BY <1>1, <1>3, <1>8, <1>10, <1>11, <1>13, <1>14, <1>15 DEF Core, FirstOk

\* The handler leaves its list; the user who removes it counts for one.
LEMMA CoreDelist ==
    ASSUME NEW s, Single(s, {"uninstall"}), NEW u \in Seq(FrameType), NEW f,
           Topped(s, u, f), f.call = "uninstall", f.r = s[1].r, f.at \in {"regs", "end"},
           s[1].at = "regions", NEW h, h = s[1].h, f.h = h,
           NEW d \in Range(Devices), d = s[1].dev,
           NEW H, NEW R, NEW L \in [Range(Devices) -> Seq(Ids)],
           NEW tl, NEW sv, Core(s, H, R, L, tl, sv),
           \A q \in Range(f.todo) : R[q].exists,
           NEW L2, L2 = TakenOff(L, d, h)
    PROVE  /\ Core(u, H, R, L2, tl, sv) /\ Stays(s, u)
           /\ L2 \in [Range(Devices) -> Seq(Ids)]
<1> USE DEF TakenOff
<1>1. Single(u, {"uninstall"}) /\ u[1] = f /\ Last(s) = s[1] /\ (InLockOf(u) => Stays(s, u))
  <2>1. f.call = s[1].call
    BY DEF Single
  <2> QED
    BY <2>1, SingleTopped
<1>2. u # <<>> /\ s # <<>> /\ s[1].call = "uninstall"
  BY <1>1 DEF Single
<1>3. /\ \A q : ~LeavingIn(s, q) /\ ~MovingIn(s, q) /\ ~TellingIn(s, q)
      /\ \A q : ~LeavingIn(u, q) /\ ~MovingIn(u, q) /\ ~TellingIn(u, q)
      /\ LeavingOf(s) = {} /\ LeavingOf(u) = {} /\ OwnKnown(u, R, sv)
  <2>1. Single(s, Acquiring \ {"io"}) /\ Single(u, Acquiring \ {"io"})
    BY <1>1 DEF Single, Acquiring, Api
  <2> QED
    BY <2>1, SingleView
<1>4. \A g : ~LetGoIn(s, g) /\ (LetGoIn(u, g) <=> g = h)
  BY <1>1, <1>2 DEF LetGoIn
<1>5. \A g \in Ids : HandlerOk(H[g], MineOf(R, g), ListedIn(L, g), {})
  BY <1>3, <1>4 DEF Core, HeldBy, HandlerOk
<1>6. h \in Range(L[d]) /\ ListedIn(L, h)
  <2>1. h \in Range(L[d])
    BY <1>2 DEF Core, OwnLists
  <2> QED
    BY <2>1 DEF ListedIn
<1> DEFINE l == RemoveFirst(L[d], h)
<1>7. l \in Seq(Ids) /\ Range(l) = Range(L[d]) \ {h} /\ IsInjective(l)
  <2>1. IsInjective(L[d]) /\ L[d] \in Seq(Ids)
    BY DEF Core, ListsShape
  <2> QED
    BY <2>1, RemoveSeq
<1> HIDE DEF l
<1>8. L2[d] = l /\ (\A e \in Range(Devices) : e # d => L2[e] = L[e])
      /\ L2 \in [Range(Devices) -> Seq(Ids)]
  <2>1. L2 = [L EXCEPT ![d] = l]
    BY DEF l
  <2> QED
    BY <1>7, <2>1
<1>9. \A e \in Range(Devices) : Range(L2[e]) \subseteq Range(L[e])
  BY <1>7, <1>8
<1>10. ListsShape(L2)
  <2>1. ASSUME NEW e \in Range(Devices) PROVE IsInjective(L2[e])
    BY <1>7, <1>8 DEF Core, ListsShape
  <2> QED
    BY <1>9, <2>1 DEF Core, ListsShape
<1>11. \A g : ListedIn(L2, g) <=> ListedIn(L, g) /\ g # h
  <2>1. ~ListedIn(L2, h)
    <3> SUFFICES ASSUME NEW e \in Range(Devices), h \in Range(L2[e]) PROVE FALSE
      BY DEF ListedIn
    <3>1. e = d
      BY <1>6, <1>9 DEF Core, ListsShape
    <3> QED
      BY <1>7, <1>8, <3>1
  <2>2. ASSUME NEW g, g # h PROVE ListedIn(L2, g) <=> ListedIn(L, g)
    BY <1>7, <1>8, <2>2 DEF ListedIn
  <2> QED
    BY <2>1, <2>2
<1>12. h \in Ids
  BY <1>6 DEF Range
<1>13. FirstOk(u, R, L2)
  <2>1. InLockOf(u)
    BY <1>1, <1>2 DEF InLockOf, Outside
  <2>2. TodoOk(u, R) /\ OwnLists(u, L2)
    BY <1>1, <1>11, <1>12 DEF TodoOk, OwnLists
  <2>3. NodeOk(u, R)
    BY <1>1 DEF NodeOk, MakingOk, EndingOk, CallIn
  <2> QED
    BY <2>1, <2>2, <2>3 DEF FirstOk
<1>14. HeldBy(u, H, R, L2)
  <2> SUFFICES ASSUME NEW g \in Ids
               PROVE  HandlerOk(H[g], MineOf(R, g), ListedIn(L2, g) \/ LetGoIn(u, g), {})
    BY <1>3 DEF HeldBy
  <2>1. ListedIn(L2, g) \/ LetGoIn(u, g) <=> ListedIn(L, g)
    BY <1>4, <1>6, <1>11
  <2> QED
    BY <1>5, <2>1 DEF HandlerOk
<1>15. ToldBy(u, R, tl, sv)
  BY <1>3 DEF Core, ToldBy, TellOk
<1> QED
  BY <1>1, <1>3, <1>8, <1>10, <1>13, <1>14, <1>15 DEF Core, FirstOk

\* The user lets go of the handler.
LEMMA CoreLetGo ==
    ASSUME NEW s, Single(s, {"uninstall"}), NEW u \in Seq(FrameType), NEW f,
           Topped(s, u, f), f.call = "uninstall", f.r = s[1].r, f.at = "leave",
           s[1].at = "end", NEW h, h = s[1].h,
           NEW H \in [Ids -> HandlerType], NEW R, NEW L,
           NEW tl, NEW sv, Core(s, H, R, L, tl, sv),
           \A q \in Range(f.todo) : R[q].exists, NEW H2, H2 = Unref(H, h)
    PROVE  Core(u, H2, R, L, tl, sv) /\ Stays(s, u) /\ H2 \in [Ids -> HandlerType]
<1>1. Single(u, {"uninstall"}) /\ u[1] = f /\ Last(s) = s[1] /\ (InLockOf(u) => Stays(s, u))
  <2>1. f.call = s[1].call
    BY DEF Single
  <2> QED
    BY <2>1, SingleTopped
<1>2. u # <<>> /\ s # <<>> /\ s[1].call = "uninstall"
  BY <1>1 DEF Single
<1>3. /\ \A q : ~LeavingIn(s, q) /\ ~MovingIn(s, q) /\ ~TellingIn(s, q)
      /\ \A q : ~LeavingIn(u, q) /\ ~MovingIn(u, q) /\ ~TellingIn(u, q)
      /\ LeavingOf(s) = {} /\ LeavingOf(u) = {} /\ OwnKnown(u, R, sv)
  <2>1. Single(s, Acquiring \ {"io"}) /\ Single(u, Acquiring \ {"io"})
    BY <1>1 DEF Single, Acquiring, Api
  <2> QED
    BY <2>1, SingleView
<1>4. \A g : ~LetGoIn(u, g) /\ (LetGoIn(s, g) <=> g = h)
  BY <1>1, <1>2 DEF LetGoIn
<1>5. \A g \in Ids : HandlerOk(H[g], MineOf(R, g), ListedIn(L, g) \/ g = h, {})
  BY <1>3, <1>4 DEF Core, HeldBy, HandlerOk
<1>6. h \in Ids /\ ~ListedIn(L, h)
  BY <1>2 DEF Core, OwnLists
<1>7. H2 = [H EXCEPT ![h] = UnrefOne(H[h])]
  BY DEF Unref, UnrefOne
<1>8. HandlerOk(UnrefOne(H[h]), MineOf(R, h), FALSE, {}) /\ UnrefOne(H[h]) \in HandlerType
  <2>1. HandlerOk(H[h], MineOf(R, h), ListedIn(L, h) \/ h = h, {})
    BY <1>5, <1>6
  <2>2. HandlerOk(H[h], MineOf(R, h), TRUE, {})
    BY <2>1 DEF HandlerOk
  <2>3. H[h] \in HandlerType /\ IsFiniteSet(MineOf(R, h))
    BY <1>6, MineFinite
  <2> QED
    BY <2>2, <2>3, UnrefUser
<1> DEFINE y == UnrefOne(H[h])
<1> HIDE DEF y
<1>9. H2 = [H EXCEPT ![h] = y] /\ y \in HandlerType
      /\ HandlerOk(y, MineOf(R, h), FALSE, {})
  BY <1>7, <1>8 DEF y
<1>10. H2 \in [Ids -> HandlerType] /\ H2[h] = y /\ \A g \in Ids : g # h => H2[g] = H[g]
  BY <1>6, <1>9
<1>13. FirstOk(u, R, L)
  <2>1. InLockOf(u)
    BY <1>1, <1>2 DEF InLockOf, Outside
  <2>2. TodoOk(u, R) /\ OwnLists(u, L)
    BY <1>1 DEF TodoOk, OwnLists
  <2>3. NodeOk(u, R)
    BY <1>1 DEF NodeOk, MakingOk, EndingOk, CallIn
  <2> QED
    BY <2>1, <2>2, <2>3 DEF FirstOk
<1>14. HeldBy(u, H2, R, L)
  <2> SUFFICES ASSUME NEW g \in Ids
               PROVE  HandlerOk(H2[g], MineOf(R, g), ListedIn(L, g), {})
    BY <1>3, <1>4 DEF HeldBy, HandlerOk
  <2>1. CASE g = h
    BY <1>6, <1>9, <1>10, <2>1 DEF HandlerOk
  <2>2. CASE g # h
    <3>1. HandlerOk(H[g], MineOf(R, g), ListedIn(L, g) \/ g = h, {})
      BY <1>5
    <3> QED
      BY <1>10, <2>2, <3>1 DEF HandlerOk
  <2> QED
    BY <2>1, <2>2
<1>15. ToldBy(u, R, tl, sv)
  BY <1>3 DEF Core, ToldBy, TellOk
<1>16. ListsShape(L)
  BY DEF Core
<1> QED
  BY <1>1, <1>3, <1>10, <1>13, <1>14, <1>15, <1>16 DEF Core, FirstOk

-----------------------------------------------------------------------------
(***************************************************************************)
(* A step of the thread inside.                                            *)
(***************************************************************************)
Inner(t) == t \in Threads /\ OpInv /\ ~Idle(t) /\ Unlocked(t) /\ InLock(t)
Now(t) == Core(th[t], hnd, reg, lists, told, served)
Then(t) == Core(th'[t], hnd', reg', lists', told', served')

\* What is known of the thread inside before it makes a step.
LEMMA Within ==
    ASSUME NEW t, Inner(t)
    PROVE  /\ t \in Threads /\ Ready(t) /\ Alone(t) /\ FlatBut(th, t) /\ InLockOf(th[t])
           /\ Now(t) /\ Rest(th, hnd, reg, lists, told, served)
           /\ th[t] \in Seq(FrameType) /\ th[t] # <<>> /\ Fr(t) = Last(th[t])
           /\ Fr(t) \in FrameType /\ Fr(t) = th[t][Len(th[t])]
           /\ StackOk(th[t], t) /\ Framed(th[t]) /\ FrameFits(Fr(t))
<1>1. t \in Threads /\ Ready(t)
  BY DEF Inner, Ready, OpInv, Unlocked
<1>2. Alone(t)
  BY InLockAlone DEF Inner, OpInv
<1>3. FlatBut(th, t) /\ InLockOf(th[t])
  BY <1>2 DEF Alone, FlatBut, Inner, InLock, InLockOf, Idle
<1>4. Rest(th, hnd, reg, lists, told, served)
  BY RestNow DEF Inner
<1>5. Now(t)
  BY <1>1, <1>3, <1>4, CoreHas DEF Now
<1>6. /\ th[t] \in Seq(FrameType) /\ th[t] # <<>> /\ Fr(t) = Last(th[t])
      /\ Fr(t) \in FrameType /\ Fr(t) = th[t][Len(th[t])]
      /\ Fits(t, th[t], "ready", held[t], ns = t) /\ FrameFits(Fr(t))
  BY <1>1, ReadyStack
<1>7. StackOk(th[t], t) /\ Framed(th[t])
  BY <1>6 DEF Fits, StackOk, Framed
<1> QED
  BY <1>1, <1>2, <1>3, <1>4, <1>5, <1>6, <1>7

Types ==
  /\ lists \in [Range(Devices) -> Seq(Ids)] /\ hnd \in [Ids -> HandlerType]
  /\ reg \in RegType /\ th \in [Threads -> Seq(FrameType)]
  /\ ns \in Threads \cup {NoThread}
  /\ told \in [Names -> {"never", "connect", "disconnect"}]
  /\ served \in [Names -> Ids \cup {NoHandler}]
\* OpTypes, spelled out.
LEMMA TypesAre == (OpTypes <=> Types) /\ (OpTypes' <=> Types')
BY DEF OpTypes, Types, HandlerType, RegType

\* The invariant after a step of the thread inside, from its core.
LEMMA InnerStep ==
    ASSUME NEW t, Inner(t), IInv', Types', CallsFit', SameOthers(t), Then(t),
           Moved(th[t], reg, reg'), Stays(th[t], th'[t])
    PROVE  OpInv'
<1>1. t \in Threads /\ FlatBut(th, t) /\ InLockOf(th[t])
      /\ Rest(th, hnd, reg, lists, told, served)
  BY Within
<1>2. Rest(th', hnd', reg', lists', told', served')
  BY <1>1, CoreRest DEF SameOthers, Then
<1> QED
  BY <1>2, RestNext, TypesAre

\* Where the thread inside is: what is said of its call and its place.
LEMMA InnerAt ==
    ASSUME OpInv, NEW t \in Threads, ~Idle(t), Unlocked(t),
           Fr(t).call \in {"region_uninstall", "_REG"} \/ Fr(t).at \notin Outside
    PROVE  Inner(t)
<1>1. Ready(t)
  BY DEF Ready, OpInv, Unlocked
<1>2. th[t] \in Seq(FrameType) /\ th[t] # <<>> /\ Fr(t) = th[t][Len(th[t])]
      /\ StackOk(th[t], t)
  BY <1>1, ReadyStack DEF Fits
<1>3. InLockOf(th[t])
  <2>1. ~Flat(th[t])
    BY <1>2 DEF Flat, Acquiring, Api
  <2> QED
    BY <1>2, <2>1, FlatOrIn
<1> QED
  BY <1>3 DEF Inner, InLock, InLockOf, Idle

\* The call on top goes on, and nothing else changes but the namespace lock.
Still == lists' = lists /\ hnd' = hnd /\ reg' = reg /\ told' = told /\ served' = served
Goes(t, f) ==
  /\ Topping(t, f) /\ LockKept /\ NsMoves(t, f)
  /\ SameCall(Fr(t), f) /\ FrameFits(f) /\ Settled(Fr(t)) /\ Settled(f)
  /\ Inside(Fr(t)) <=> Inside(f)

\* The namespace lock is a thread's or nobody's.
LEMMA NsTypes ==
    ASSUME NEW t \in Threads, Types, NEW f, NsMoves(t, f)
    PROVE  ns' \in Threads \cup {NoThread}
BY DEF NsMoves, Lock, Drop, Types

\* CallsFit after such a step, and what the stack is.
LEMMA GoesFits ==
    ASSUME NEW t, Inner(t), NEW f, Goes(t, f)
    PROVE  /\ CallsFit' /\ SameOthers(t) /\ th'[t] \in Seq(FrameType)
           /\ Topped(th[t], th'[t], f)
           /\ th' \in [Threads -> Seq(FrameType)] /\ ns' \in Threads \cup {NoThread}
<1>1. t \in Threads /\ Ready(t)
  BY Within
<1>2. CallsFit'
  BY <1>1, TopFits DEF Goes
<1>3. Types
  BY TypesAre DEF Inner, OpInv
<1> QED
  BY <1>1, <1>2, <1>3, NsTypes DEF Goes, Topping

\* Regions that stay as they are.
LEMMA MovedNot == \A s, R : Moved(s, R, R)
BY DEF Moved

\* The invariant after a call goes on without touching the data.
LEMMA GoesOn ==
    ASSUME NEW t, Inner(t), IInv', NEW f, Goes(t, f), Still, Plain(Fr(t), f),
           Known(f, reg[f.r], served[f.r], CallIn(th[t], "initialize_node", f.r)),
           Len(th[t]) = 1 => FirstOk(th'[t], reg, lists)
    PROVE  OpInv'
<1>1. /\ CallsFit' /\ SameOthers(t) /\ th'[t] \in Seq(FrameType)
      /\ Topped(th[t], th'[t], f)
      /\ th' \in [Threads -> Seq(FrameType)] /\ ns' \in Threads \cup {NoThread}
  BY GoesFits
<1>2. th[t] \in Seq(FrameType) /\ th[t] # <<>> /\ Fr(t) = Last(th[t])
      /\ Core(th[t], hnd, reg, lists, told, served)
  BY Within DEF Now
<1>3. Core(th'[t], hnd, reg, lists, told, served) /\ Stays(th[t], th'[t])
  BY <1>1, <1>2, CoreTop
<1>4. Then(t) /\ Moved(th[t], reg, reg')
  BY <1>3, MovedNot DEF Then, Still
<1>5. Types'
  BY <1>1, TypesAre DEF Inner, OpInv, Types, Still
<1> QED
  BY <1>1, <1>3, <1>4, <1>5, InnerStep

\* The call on top returns.
LEMMA GoesBack ==
    ASSUME NEW t, Inner(t), IInv', Popping(t), LockKept, ns' = ns, Still,
           Len(th[t]) > 1, Fr(t).at # "acquire", ~Inside(Fr(t)), ~Away(Fr(t)),
           Fr(t).call = "region_uninstall" => Fr(t).at = "start",
           Fr(t).call = "io" => Fr(t).at # "attached",
           Fr(t).call = "_REG" => Fr(t).at # "start",
           Len(th[t]) = 2 /\ th[t][1].call = "uninstall_node"
             => reg[th[t][1].r].handler = NoHandler
    PROVE  OpInv'
<1>1. Ready(t) /\ t \in Threads
  BY Within
<1>2. CallsFit'
  BY <1>1, ReturnedFits
<1>3. th' \in [Threads -> Seq(FrameType)] /\ th'[t] \in Seq(FrameType) /\ SameOthers(t)
      /\ Popped(th[t], th'[t])
  BY <1>1 DEF Popping
<1>4. th[t] \in Seq(FrameType) /\ Fr(t) = th[t][Len(th[t])]
      /\ Core(th[t], hnd, reg, lists, told, served)
  BY Within DEF Now
<1>5. Core(th'[t], hnd, reg, lists, told, served) /\ Stays(th[t], th'[t])
  BY <1>3, <1>4, CorePop
<1>6. Then(t) /\ Moved(th[t], reg, reg')
  BY <1>5, MovedNot DEF Then, Still
<1>7. Types'
  BY <1>3, TypesAre DEF Inner, OpInv, Types, Still
<1> QED
  BY <1>2, <1>3, <1>5, <1>6, <1>7, InnerStep

-----------------------------------------------------------------------------
(***************************************************************************)
(* Frames.                                                                 *)
(***************************************************************************)
\* The places of each call, spelled out.
LEMMA PlacesAre ==
  /\ PlacesOf["io"] = Outside \cup {"locked", "attach", "attached", "refused", "access",
                                    "callback", "leave"}
  /\ PlacesOf["initialize_node"] = Outside \cup {"locked", "connect", "leave"}
  /\ PlacesOf["uninstall_node"] = (Outside \ {"failed"}) \cup {"locked", "leave"}
  /\ PlacesOf["install"] = Outside \cup {"locked", "regions", "regs", "end", "leave"}
  /\ PlacesOf["uninstall"] = Outside \cup {"locked", "regions", "regs", "end", "leave"}
  /\ PlacesOf["reg_all"] = Outside \cup {"locked", "regs", "end", "leave"}
  /\ PlacesOf["region_uninstall"] = {"start", "detach", "detached", "unreg", "end"}
  /\ PlacesOf["_REG"] = {"start", "body", "sleep", "end"}
  /\ DOMAIN PlacesOf = {"io", "initialize_node", "uninstall_node", "install", "uninstall",
                        "reg_all", "region_uninstall", "_REG"}
BY DEF PlacesOf, Acquiring, Api

At(e, a) == [e EXCEPT !.at = a]

\* A call goes on at another place, with what it has still to visit.
LEMMA MovedFrame ==
    ASSUME NEW e \in FrameType, FrameFits(e), NEW a \in PlacesOf[e.call],
           a \notin {"start", "acquire", "locked", "regs"}
    PROVE  LET f == At(e, a)
           IN /\ f \in FrameType /\ FrameFits(f) /\ f.at = a /\ SameCall(e, f)
              /\ f.call = e.call /\ f.r = e.r /\ f.todo = e.todo /\ f.h = e.h
              /\ f.dev = e.dev /\ f.space = e.space /\ f.code = e.code
              /\ f.unreg = e.unreg /\ f.held = e.held
<1> DEFINE f == At(e, a)
<1>1. e.call \in DOMAIN PlacesOf
  BY DEF FrameType
<1>2. a \in UNION {PlacesOf[c] : c \in DOMAIN PlacesOf}
  BY <1>1
<1>3. /\ f.at = a /\ f.call = e.call /\ f.r = e.r /\ f.todo = e.todo /\ f.h = e.h
      /\ f.dev = e.dev /\ f.space = e.space /\ f.code = e.code
      /\ f.unreg = e.unreg /\ f.held = e.held
  BY DEF FrameType, At
<1>4. f \in FrameType
  BY <1>2 DEF FrameType, At
<1> HIDE DEF f
<1>5. FrameFits(f)
  BY <1>3 DEF FrameFits
<1> QED
  BY <1>3, <1>4, <1>5 DEF SameCall, f

\* A new call; a call of _REG, with what it is told; a call that uninstalls the
\* region of a node that goes away.
RegCall(r, code) == [Frame("_REG", r) EXCEPT !.code = code]
EndCall(r) == [Frame("region_uninstall", r) EXCEPT !.unreg = TRUE]

\* A new call is a frame of its kind.
LEMMA NewFrame ==
    ASSUME NEW call \in {"io", "initialize_node", "uninstall_node", "region_uninstall", "_REG"},
           NEW r \in Names, NEW f, f = Frame(call, r)
    PROVE  /\ f \in FrameType /\ FrameFits(f) /\ f.call = call /\ f.at = "start"
           /\ f.r = r /\ f.code = "none" /\ ~f.unreg /\ f.todo = <<>>
<1>1. /\ f.call = call /\ f.at = "start" /\ f.r = r /\ f.code = "none" /\ ~f.unreg
      /\ f.todo = <<>>
  BY DEF Frame
<1>2. "start" \in PlacesOf[call] /\ call \in DOMAIN PlacesOf
  BY PlacesAre DEF Outside
<1>3. "start" \in UNION {PlacesOf[c] : c \in DOMAIN PlacesOf}
  BY <1>2
<1>4. f \in FrameType
  BY <1>2, <1>3 DEF FrameType, Spaces, Frame
<1>5. FrameFits(f)
  BY <1>1, <1>2 DEF FrameFits, Api
<1> QED
  BY <1>1, <1>4, <1>5

\* A call of _REG is one.
LEMMA NewRegCall ==
    ASSUME NEW r \in Names, NEW code \in {"connect", "disconnect"},
           NEW f, f = RegCall(r, code)
    PROVE  /\ f \in FrameType /\ FrameFits(f) /\ f.call = "_REG" /\ f.at = "start"
           /\ f.r = r /\ f.code = code
<1> DEFINE g == Frame("_REG", r)
<1>1. g \in FrameType /\ FrameFits(g) /\ g.call = "_REG" /\ g.at = "start" /\ g.r = r
      /\ g.todo = <<>>
  BY NewFrame
<1>2. f = [g EXCEPT !.code = code]
  BY DEF RegCall
<1> HIDE DEF g
<1>3. /\ f.call = "_REG" /\ f.at = "start" /\ f.r = r /\ f.code = code /\ f.todo = <<>>
      /\ f \in FrameType
  BY <1>1, <1>2 DEF FrameType
<1>4. FrameFits(f)
  BY <1>1, <1>3 DEF FrameFits, Api
<1> QED
  BY <1>3, <1>4

\* A call that uninstalls the region of a node is one.
LEMMA NewEndCall ==
    ASSUME NEW r \in Names, NEW f, f = EndCall(r)
    PROVE  /\ f \in FrameType /\ FrameFits(f) /\ f.call = "region_uninstall"
           /\ f.at = "start" /\ f.r = r /\ f.unreg
<1> DEFINE g == Frame("region_uninstall", r)
<1>1. /\ g \in FrameType /\ FrameFits(g) /\ g.call = "region_uninstall"
      /\ g.at = "start" /\ g.r = r /\ g.todo = <<>>
  BY NewFrame
<1>2. f = [g EXCEPT !.unreg = TRUE]
  BY DEF EndCall
<1> HIDE DEF g
<1>3. /\ f.call = "region_uninstall" /\ f.at = "start" /\ f.r = r /\ f.unreg
      /\ f.todo = <<>> /\ f \in FrameType
  BY <1>1, <1>2 DEF FrameType
<1>4. FrameFits(f)
  BY <1>1, <1>3 DEF FrameFits, Api
<1> QED
  BY <1>3, <1>4

-----------------------------------------------------------------------------
(***************************************************************************)
(* region_uninstall_handler.                                               *)
(***************************************************************************)
\* A step of a call of t, inside the opregion lock or not.
Acts(t) == OpInv /\ IInv' /\ t \in Threads /\ ~Idle(t) /\ Unlocked(t)

\* What is known of a call that uninstalls a region.
LEMMA UninstallAt ==
    ASSUME NEW t, Acts(t), Fr(t).call = "region_uninstall"
    PROVE  /\ Inner(t) /\ Uninstalling(th[t]) /\ Fr(t) = th[t][2] /\ MayCall(th[t][1], Fr(t))
           /\ Fr(t) = Last(th[t]) /\ Fr(t).r \in Names /\ Settled(Fr(t)) /\ ~Inside(Fr(t))
           /\ Fr(t) \in FrameType /\ FrameFits(Fr(t)) /\ Len(th[t]) = 2 /\ Len(th[t]) > 1
           /\ Fr(t).at \in {"start", "detach", "detached", "unreg", "end"}
           /\ \A R, sv : OwnKnown(th[t], R, sv) =>
                Known(Fr(t), R[Fr(t).r], sv[Fr(t).r], CallIn(th[t], "initialize_node", Fr(t).r))
           /\ th[t][1].call = "uninstall_node" => Fr(t).r = th[t][1].r
<1>1. Inner(t)
  BY InnerAt DEF Acts
<1>2. /\ th[t] \in Seq(FrameType) /\ th[t] # <<>> /\ Fr(t) = Last(th[t])
      /\ Fr(t) \in FrameType /\ Fr(t) = th[t][Len(th[t])]
      /\ StackOk(th[t], t) /\ FrameFits(Fr(t))
  BY <1>1, Within
<1>3. Len(th[t]) = 2 /\ MayCall(th[t][1], Fr(t)) /\ DOMAIN th[t] = 1 .. Len(th[t])
  BY <1>2, Shape
<1>4. Fr(t).at \in {"start", "detach", "detached", "unreg", "end"} /\ Fr(t).r \in Names
  BY <1>2, PlacesAre DEF FrameFits, Api
<1>5. th[t][1].call \in {"install", "uninstall", "uninstall_node"}
  BY <1>3 DEF MayCall
<1>6. Settled(Fr(t)) /\ ~Inside(Fr(t))
  BY <1>4 DEF Settled, Inside, Acquiring, Api
<1>7. Uninstalling(th[t]) /\ Fr(t) = th[t][2]
  BY <1>2, <1>3, <1>4, <1>5 DEF Uninstalling
<1>8. Len(th[t]) > 1
  BY <1>3
<1>9. th[t][1].call = "uninstall_node" => Fr(t).r = th[t][1].r
  BY <1>3 DEF MayCall
<1>10. \A R, sv : OwnKnown(th[t], R, sv) =>
         Known(Fr(t), R[Fr(t).r], sv[Fr(t).r], CallIn(th[t], "initialize_node", Fr(t).r))
  BY <1>7, UninstallView
<1> QED
  BY <1>1, <1>2, <1>3, <1>4, <1>6, <1>7, <1>8, <1>9, <1>10

\* How a call that uninstalls goes from place to place.
LEMMA UninstallGoes ==
    ASSUME NEW t, Acts(t), Fr(t).call = "region_uninstall",
           NEW a \in {"detach", "detached", "unreg", "end"}, Move(t, a), LockKept,
           NEW f, f = At(Fr(t), a), NsMoves(t, f)
    PROVE  /\ Goes(t, f) /\ f.call = "region_uninstall" /\ f.r = Fr(t).r /\ f.at = a
           /\ f.code = Fr(t).code /\ f.unreg = Fr(t).unreg /\ f \in FrameType
<1>1. /\ Fr(t) \in FrameType /\ FrameFits(Fr(t)) /\ Settled(Fr(t)) /\ ~Inside(Fr(t))
      /\ OpTypes /\ t \in Threads /\ ~Idle(t)
  BY UninstallAt DEF Acts, OpInv
<1>2. a \in PlacesOf[Fr(t).call]
  BY PlacesAre
<1>3. /\ f \in FrameType /\ FrameFits(f) /\ f.at = a /\ SameCall(Fr(t), f)
      /\ f.call = Fr(t).call /\ f.r = Fr(t).r /\ f.code = Fr(t).code /\ f.unreg = Fr(t).unreg
  BY <1>1, <1>2, MovedFrame
<1>4. Set(t, f)
  BY DEF Move, At
<1>5. Topping(t, f)
  BY <1>1, <1>3, <1>4, SetTops
<1>6. Settled(f) /\ ~Inside(f)
  BY <1>3 DEF Settled, Inside, Acquiring, Api
<1> QED
  BY <1>1, <1>3, <1>5, <1>6 DEF Goes

\* The region is unlinked from its handler.
LEMMA UnlinkStep ==
    ASSUME NEW t, Acts(t), Unlink(t)
    PROVE  OpInv'
<1> DEFINE e == Fr(t)
           r == e.r
           h == reg[r].handler
<1>1. /\ LockKept /\ ns' = ns /\ lists' = lists /\ reg' = reg /\ told' = told
      /\ served' = served /\ e.call = "region_uninstall" /\ e.at = "start"
  BY DEF Unlink, vars, LockKept, AtFrame
<1>2. /\ Inner(t) /\ Uninstalling(th[t]) /\ e = th[t][2] /\ MayCall(th[t][1], e)
      /\ e = Last(th[t]) /\ r \in Names /\ Settled(e) /\ ~Inside(e)
      /\ Len(th[t]) = 2 /\ Len(th[t]) > 1
      /\ (th[t][1].call = "uninstall_node" => r = th[t][1].r)
  BY <1>1, UninstallAt
<1>3. t \in Threads /\ ~Idle(t) /\ IInv' /\ OpTypes /\ Types
  BY TypesAre DEF Acts, OpInv
<1>4. Core(th[t], hnd, reg, lists, told, served) /\ ~Away(e)
  BY <1>1, <1>2, Within DEF Now, Away, Api
<1>5. CASE h = NoHandler
  <2>1. Return(t) /\ hnd' = hnd
    BY <1>5 DEF Unlink
  <2>2. Popping(t) /\ Still
    BY <1>1, <1>3, <2>1, ReturnPops DEF Still
  <2> QED
    BY <1>1, <1>2, <1>3, <1>4, <1>5, <2>2, GoesBack
<1>6. CASE h # NoHandler
  <2> DEFINE a == IF reg[r].attached THEN "detach" ELSE "unreg"
             f == At(Fr(t), a)
  <2>1. hnd' = UnlinkedIn(hnd, h, r) /\ Move(t, a)
    BY <1>6 DEF Unlink, UnlinkedIn
  <2>2. a \in {"detach", "detached", "unreg", "end"} /\ a \in {"detach", "unreg"}
    OBVIOUS
  <2> HIDE DEF a
  <2>3. f.at = a /\ f.call = "region_uninstall"
    BY <1>1, <1>2, Within DEF FrameType, At
  <2>4. NsMoves(t, f)
    BY <1>1, <1>4, <2>2, <2>3 DEF NsMoves, Away, Api
  <2>5. Goes(t, f) /\ f.call = "region_uninstall" /\ f.r = r /\ f.at = a
    BY <1>1, <2>1, <2>2, <2>4, UninstallGoes
  <2> HIDE DEF f
  <2>6. /\ CallsFit' /\ SameOthers(t) /\ th'[t] \in Seq(FrameType)
        /\ Topped(th[t], th'[t], f)
        /\ th' \in [Threads -> Seq(FrameType)] /\ ns' \in Threads \cup {NoThread}
    BY <1>2, <2>5, GoesFits
  <2>7. h \in Ids /\ hnd \in [Ids -> HandlerType]
    BY <1>2, <1>3, <1>6 DEF Types, RegType
  <2>8. f.at = IF reg[r].attached THEN "detach" ELSE "unreg"
    BY <2>5 DEF a
  <2> HIDE DEF h
  <2>9. h = reg[r].handler
    BY DEF h
  <2>10. /\ Core(th'[t], hnd', reg, lists, told, served) /\ Stays(th[t], th'[t])
         /\ hnd' \in [Ids -> HandlerType]
    <3>1. r = th[t][2].r /\ th[t][2].at = "start" /\ f.r = r
      BY <1>1, <1>2, <2>5
    <3> HIDE DEF e, r
    <3>2. ASSUME NEW u \in Seq(FrameType), Topped(th[t], u, f),
                 NEW Q, Q = UnlinkedIn(hnd, h, r)
          PROVE  /\ Core(u, Q, reg, lists, told, served) /\ Stays(th[t], u)
                 /\ Q \in [Ids -> HandlerType]
      <4>1. Uninstalling(th[t]) /\ f.call = "region_uninstall" /\ h # NoHandler
            /\ Core(th[t], hnd, reg, lists, told, served)
        BY <1>2, <1>4, <1>6, <2>5, <2>9
      <4> QED
        BY <2>7, <2>8, <2>9, <3>1, <3>2, <4>1, CoreUnlink
    <3> QED
      BY <2>1, <2>6, <3>2
  <2>11. Then(t) /\ Moved(th[t], reg, reg')
    BY <1>1, <2>10, MovedNot DEF Then
  <2>12. Types'
    BY <1>1, <1>3, <2>6, <2>10 DEF Types
  <2> QED
    BY <1>2, <1>3, <2>6, <2>10, <2>11, <2>12, InnerStep
<1> QED
  BY <1>5, <1>6

-----------------------------------------------------------------------------
(***************************************************************************)
(* The three kinds of steps of the thread inside.                          *)
(***************************************************************************)
DataOk ==
  /\ lists \in [Range(Devices) -> Seq(Ids)] /\ hnd \in [Ids -> HandlerType]
  /\ reg \in RegType
  /\ told \in [Names -> {"never", "connect", "disconnect"}]
  /\ served \in [Names -> Ids \cup {NoHandler}]
\* The types of the data, apart from those of the stacks.
LEMMA DataTypes ==
  /\ OpTypes => DataOk
  /\ DataOk' /\ th' \in [Threads -> Seq(FrameType)] /\ ns' \in Threads \cup {NoThread}
       => Types'
BY TypesAre DEF DataOk, Types

\* The core of the invariant holds after the step of t as it did before.
Carries(t) == DataOk' /\ Then(t) /\ Moved(th[t], reg, reg') /\ Stays(th[t], th'[t])

\* The invariant, when the call on top goes on.
LEMMA InnerGoes ==
    ASSUME NEW t, Inner(t), IInv', NEW f, Goes(t, f), Carries(t)
    PROVE  OpInv'
<1>1. /\ CallsFit' /\ SameOthers(t)
      /\ th' \in [Threads -> Seq(FrameType)] /\ ns' \in Threads \cup {NoThread}
  BY GoesFits
<1> QED
  BY <1>1, DataTypes, InnerStep DEF Carries

\* f calls g.
Calls(t, f, g) ==
  /\ Pushing(t, f, g) /\ LockKept /\ ns' = ns
  /\ SameCall(Fr(t), f) /\ FrameFits(f) /\ FrameFits(g) /\ Settled(Fr(t))
  /\ g.at = "start" /\ g.call \in RegionCalls /\ ~Away(Fr(t))
  /\ \/ Len(th[t]) = 1 /\ Inside(Fr(t)) /\ MayCall(f, g)
     \/ Len(th[t]) = 2 /\ ~Inside(Fr(t)) /\ MayCallAgain(f, g)

\* A call, as a step on of the caller and the start of the callee.
LEMMA CallsSplit ==
    ASSUME NEW t, Inner(t), NEW f, NEW g, Calls(t, f, g)
    PROVE  /\ CallsFit' /\ SameOthers(t) /\ th'[t] \in Seq(FrameType)
           /\ f \in FrameType /\ g \in FrameType
           /\ th' \in [Threads -> Seq(FrameType)] /\ ns' \in Threads \cup {NoThread}
           /\ \E v \in Seq(FrameType) : Topped(th[t], v, f) /\ Extended(v, th'[t], g)
<1>1. t \in Threads /\ Ready(t) /\ th[t] \in Seq(FrameType) /\ th[t] # <<>>
  BY Within
<1>2. g.call \in {"region_uninstall", "_REG", "io"}
  BY DEF Calls, RegionCalls
<1>3. CallsFit'
  BY <1>1, <1>2, CalledFits DEF Calls
<1>4. th' \in [Threads -> Seq(FrameType)] /\ SameOthers(t) /\ f \in FrameType
      /\ g \in FrameType /\ Pushed(th[t], th'[t], f, g)
  BY DEF Calls, Pushing
<1>5. th'[t] \in Seq(FrameType)
  BY <1>1, <1>4
<1>6. ns' \in Threads \cup {NoThread}
  BY TypesAre DEF Inner, OpInv, Types, Calls
<1> QED
  BY <1>1, <1>3, <1>4, <1>5, <1>6, PushSplit

\* The invariant, when the call on top makes a call.
LEMMA InnerCalls ==
    ASSUME NEW t, Inner(t), IInv', NEW f, NEW g, Calls(t, f, g), Carries(t)
    PROVE  OpInv'
BY CallsSplit, DataTypes, InnerStep DEF Carries

\* The call on top returns.
Returns(t) ==
  /\ Popping(t) /\ LockKept /\ ns' = ns /\ Len(th[t]) > 1
  /\ Fr(t).at # "acquire" /\ ~Inside(Fr(t)) /\ ~Away(Fr(t))

\* The invariant, when the call on top returns.
LEMMA InnerReturns ==
    ASSUME NEW t, Inner(t), IInv', Returns(t), Carries(t)
    PROVE  OpInv'
<1>1. Ready(t) /\ t \in Threads
  BY Within
<1>2. CallsFit'
  BY <1>1, ReturnedFits DEF Returns
<1>3. th' \in [Threads -> Seq(FrameType)] /\ SameOthers(t)
  BY DEF Popping, Returns
<1>4. ns' \in Threads \cup {NoThread}
  BY TypesAre DEF Inner, OpInv, Types, Returns
<1> QED
  BY <1>2, <1>3, <1>4, DataTypes, InnerStep DEF Carries

\* f goes on at its place first, which is no matter to the rest.
Placed(t, f) ==
  /\ Plain(Fr(t), f)
  /\ Known(f, reg[f.r], served[f.r], CallIn(th[t], "initialize_node", f.r))
  /\ Len(th[t]) = 1 => \A v \in Seq(FrameType) :
                         Topped(th[t], v, f) => FirstOk(v, reg, lists)

\* The core holds of the caller at its new place.
LEMMA PlacedCore ==
    ASSUME NEW t, Inner(t), NEW f, Placed(t, f), NEW v \in Seq(FrameType),
           Topped(th[t], v, f)
    PROVE  Core(v, hnd, reg, lists, told, served) /\ Stays(th[t], v)
<1>1. th[t] \in Seq(FrameType) /\ th[t] # <<>> /\ Fr(t) = Last(th[t])
      /\ Core(th[t], hnd, reg, lists, told, served)
  BY Within DEF Now
<1>2. /\ Plain(Last(th[t]), f)
      /\ Known(f, reg[f.r], served[f.r], CallIn(th[t], "initialize_node", f.r))
      /\ Len(th[t]) = 1 => FirstOk(v, reg, lists)
  BY <1>1 DEF Placed
<1> QED
  BY <1>1, <1>2, CoreTop

\* The first call stays what it is over two steps.
LEMMA StaysOn ==
    ASSUME NEW s, NEW v, NEW u, Stays(s, v), Stays(v, u)
    PROVE  Stays(s, u)
BY DEF Stays

\* A call of region_uninstall_handler, or an access made by _REG.
LEMMA CallsCore ==
    ASSUME NEW t, Inner(t), IInv', NEW f, NEW g, Calls(t, f, g), Placed(t, f), Still,
           g.call \in {"region_uninstall", "io"}
    PROVE  OpInv'
<1>1. PICK v \in Seq(FrameType) : Topped(th[t], v, f) /\ Extended(v, th'[t], g)
  BY CallsSplit
<1>2. th'[t] \in Seq(FrameType) /\ th[t] \in Seq(FrameType) /\ th[t] # <<>>
      /\ g.at = "start" /\ DataOk
  BY CallsSplit, Within, DataTypes DEF Calls, Inner, OpInv
<1>3. Core(v, hnd, reg, lists, told, served) /\ Stays(th[t], v)
  BY <1>1, PlacedCore
<1>4. v # <<>>
  BY <1>1, <1>2, ToppedFacts
<1>5. Core(th'[t], hnd, reg, lists, told, served) /\ Stays(v, th'[t])
  BY <1>1, <1>2, <1>3, <1>4, CoreExtend
<1>6. Stays(th[t], th'[t])
  BY <1>3, <1>5, StaysOn
<1>7. DataOk'
  BY <1>2 DEF DataOk, Still
<1>8. Carries(t)
  BY <1>5, <1>6, <1>7, MovedNot DEF Carries, Then, Still
<1> QED
  BY <1>8, InnerCalls

\* A region told of still is a region.
LEMMA ReggedType ==
    ASSUME NEW R \in RegType, NEW r \in Names, NEW v \in BOOLEAN
    PROVE  Regged(R, r, v) \in RegType
<1> DEFINE x == [R[r] EXCEPT !.regged = v]
<1>1. Regged(R, r, v) = [R EXCEPT ![r] = x]
  BY DEF Regged, RegType
<1>2. x \in [handler : Ids \cup {NoHandler}, attached : BOOLEAN, regged : BOOLEAN,
             exists : BOOLEAN]
  BY DEF RegType
<1> HIDE DEF x
<1> QED
  BY <1>1, <1>2 DEF RegType

\* region_run_reg is called.
LEMMA CallsReg ==
    ASSUME NEW t, Inner(t), IInv', NEW f, NEW g, Calls(t, f, g), Placed(t, f),
           g.call = "_REG", f.call # "_REG",
           \A k \in DOMAIN th[t] : th[t][k].call # "_REG",
           lists' = lists, hnd' = hnd, told' = told, served' = served,
           NEW r \in Names, r = g.r, NEW v \in BOOLEAN, reg' = Regged(reg, r, v),
           v <=> g.code = "connect" /\ Regions[r].dev \in HasReg,
           reg[r].exists \/ CallIn(th[t], "initialize_node", r)
    PROVE  OpInv'
<1>1. PICK s \in Seq(FrameType) : Topped(th[t], s, f) /\ Extended(s, th'[t], g)
  BY CallsSplit
<1>2. /\ th'[t] \in Seq(FrameType) /\ th[t] \in Seq(FrameType) /\ th[t] # <<>>
      /\ Framed(th[t]) /\ g.at = "start" /\ DataOk /\ FrameFits(f)
  BY CallsSplit, Within, DataTypes DEF Calls, Inner, OpInv
<1>3. Core(s, hnd, reg, lists, told, served) /\ Stays(th[t], s)
  BY <1>1, PlacedCore
<1>4. s # <<>> /\ DOMAIN s = DOMAIN th[t] /\ Framed(s)
      /\ \A k \in DOMAIN s : s[k].call # "_REG"
  <2>1. /\ DOMAIN th[t] = 1 .. Len(th[t]) /\ DOMAIN s = 1 .. Len(th[t]) /\ s # <<>>
        /\ s[Len(th[t])] = f
        /\ \A k \in 1 .. Len(th[t]) : k # Len(th[t]) => s[k] = th[t][k]
    BY <1>1, <1>2, ToppedFacts
  <2>2. Framed(s)
    BY <1>1, <1>2, ToppedFramed
  <2> QED
    BY <2>1, <2>2
<1>5. th[t][1].call = s[1].call /\ th[t][1].r = s[1].r
  BY <1>3 DEF Stays
<1>6. /\ reg \in RegType
      /\ reg[r].exists \/ CallIn(s, "initialize_node", r)
  BY <1>2, <1>4, <1>5 DEF DataOk, CallIn
<1>7. Core(th'[t], hnd, reg', lists, told, served) /\ Stays(s, th'[t])
      /\ Moved(s, reg, reg')
  <2>1. ASSUME NEW u \in Seq(FrameType), Extended(s, u, g), NEW R, R = Regged(reg, r, v)
        PROVE  Core(u, hnd, R, lists, told, served) /\ Stays(s, u) /\ Moved(s, reg, R)
    BY <1>2, <1>3, <1>4, <1>6, <2>1, CoreExtendReg
  <2> QED
    BY <1>1, <1>2, <2>1
<1>8. Stays(th[t], th'[t]) /\ Moved(th[t], reg, reg')
  BY <1>2, <1>3, <1>4, <1>5, <1>7, StaysOn DEF Moved, CallIn
<1>9. DataOk'
  BY <1>2, <1>6, ReggedType DEF DataOk
<1>10. Carries(t)
  BY <1>7, <1>8, <1>9 DEF Carries, Then
<1> QED
  BY <1>10, InnerCalls

-----------------------------------------------------------------------------
(***************************************************************************)
(* region_uninstall_handler goes on.                                       *)
(***************************************************************************)
\* The handler is called to detach the region.
LEMMA DetachStep ==
    ASSUME NEW t, Acts(t), Detach(t)
    PROVE  OpInv'
<1> DEFINE e == Fr(t)
           r == e.r
<1>1. /\ LockKept /\ lists' = lists /\ hnd' = hnd /\ reg' = reg /\ told' = told
      /\ e.call = "region_uninstall" /\ e.at \in {"detach", "detached"}
  BY DEF Detach, vars, LockKept, AtFrame
<1>2. /\ Inner(t) /\ Uninstalling(th[t]) /\ e = th[t][2] /\ e = Last(th[t])
      /\ r \in Names /\ Len(th[t]) = 2
      /\ \A R, sv : OwnKnown(th[t], R, sv) =>
           Known(e, R[r], sv[r], CallIn(th[t], "initialize_node", r))
  BY <1>1, UninstallAt
<1>3. t \in Threads /\ IInv' /\ DataOk
  BY DataTypes DEF Acts, OpInv
<1>4. Core(th[t], hnd, reg, lists, told, served)
  BY <1>2, Within DEF Now
<1>5. CASE AtFrame(t, "region_uninstall", "detach")
  <2> DEFINE f == At(Fr(t), "detached")
  <2>1. Drop(t) /\ Move(t, "detached") /\ served' = With(served, r, NoHandler)
        /\ e.at = "detach"
    BY <1>5 DEF Detach, AtFrame, With
  <2>2. f.at = "detached" /\ f.call = "region_uninstall"
    BY <1>1, <1>2, Within DEF FrameType, At
  <2>3. NsMoves(t, f)
    BY <2>1, <2>2 DEF NsMoves, Away
  <2>4. Goes(t, f) /\ f.r = r
    BY <1>1, <2>1, <2>3, UninstallGoes
  <2> HIDE DEF f
  <2>5. th'[t] \in Seq(FrameType) /\ Topped(th[t], th'[t], f)
    BY <1>2, <2>4, GoesFits
  <2>6. Core(th'[t], hnd, reg, lists, told, served') /\ Stays(th[t], th'[t])
    <3>1. r = th[t][2].r /\ th[t][2].at = "detach" /\ f.r = r
      BY <1>1, <1>2, <2>1, <2>4
    <3>2. DOMAIN served = Names
      BY <1>3 DEF DataOk
    <3> HIDE DEF e, r
    <3>3. ASSUME NEW u \in Seq(FrameType), Topped(th[t], u, f),
                 NEW Q, Q = With(served, r, NoHandler)
          PROVE  Core(u, hnd, reg, lists, told, Q) /\ Stays(th[t], u)
      BY <1>2, <1>4, <2>2, <3>1, <3>2, <3>3, CoreDetach
    <3> QED
      BY <2>1, <2>5, <3>3
  <2>7. DataOk'
    BY <1>1, <1>2, <1>3, <2>1 DEF DataOk, With
  <2>8. Carries(t)
    BY <1>1, <2>6, <2>7, MovedNot DEF Carries, Then
  <2> QED
    BY <1>2, <1>3, <2>4, <2>8, InnerGoes
<1>6. CASE AtFrame(t, "region_uninstall", "detached")
  <2> DEFINE f == At(Fr(t), "unreg")
  <2>1. Lock(t) /\ Move(t, "unreg") /\ served' = served /\ e.at = "detached"
    BY <1>6 DEF Detach, AtFrame
  <2>2. f.at = "unreg" /\ f.call = "region_uninstall"
    BY <1>1, <1>2, Within DEF FrameType, At
  <2>3. NsMoves(t, f)
    BY <2>1, <2>2 DEF NsMoves, Away, Api
  <2>4. Goes(t, f) /\ f.r = r
    BY <1>1, <2>1, <2>3, UninstallGoes
  <2> HIDE DEF f
  <2>5. Plain(e, f)
    BY <1>1, <2>1, <2>2, <2>4 DEF Plain, Undone
  <2>6. Known(e, reg[r], served[r], CallIn(th[t], "initialize_node", r))
    BY <1>2, <1>4 DEF Core
  <2>7. Known(f, reg[r], served[r], CallIn(th[t], "initialize_node", r))
    BY <1>1, <2>1, <2>2, <2>6 DEF Known
  <2>8. Still
    BY <1>1, <2>1 DEF Still
  <2>9. ~(Len(th[t]) = 1)
    BY <1>2
  <2> QED
    BY <1>2, <1>3, <2>4, <2>5, <2>7, <2>8, <2>9, GoesOn
<1> QED
  BY <1>5, <1>6 DEF Detach

\* The region lets go of its handler, and the call returns.
LEMMA UnhandledStep ==
    ASSUME NEW t, Acts(t), Unhandled(t)
    PROVE  OpInv'
<1> DEFINE e == Fr(t)
           r == e.r
           h == reg[r].handler
<1>1. /\ LockKept /\ lists' = lists /\ told' = told /\ served' = served /\ ns' = ns
      /\ e.call = "region_uninstall" /\ e.at = "end" /\ Return(t)
      /\ hnd' = Unref(hnd, h) /\ reg' = Let(reg, r)
  BY DEF Unhandled, vars, LockKept, AtFrame, Let
<1>2. /\ Inner(t) /\ Uninstalling(th[t]) /\ e = th[t][2] /\ e = Last(th[t])
      /\ r \in Names /\ Len(th[t]) = 2 /\ Len(th[t]) > 1 /\ MayCall(th[t][1], e)
      /\ ~Inside(e)
  BY <1>1, UninstallAt
<1>3. t \in Threads /\ IInv' /\ DataOk /\ OpTypes /\ ~Idle(t)
  BY DataTypes DEF Acts, OpInv
<1>4. Core(th[t], hnd, reg, lists, told, served)
  BY <1>2, Within DEF Now
<1>5. Returns(t)
  <2>1. Popping(t)
    BY <1>1, <1>3, ReturnPops
  <2> QED
    BY <1>1, <1>2, <2>1 DEF Returns, Away, Api
<1>6. th'[t] \in Seq(FrameType) /\ Popped(th[t], th'[t])
  BY <1>3, <1>5 DEF Returns, Popping
<1>7. /\ Core(th'[t], hnd', reg', lists, told, served) /\ Stays(th[t], th'[t])
      /\ Moved(th[t], reg, reg') /\ hnd' \in [Ids -> HandlerType]
  <2>1. r = th[t][2].r /\ th[t][2].at = "end" /\ MayCall(th[t][1], th[t][2])
    BY <1>1, <1>2
  <2>2. hnd \in [Ids -> HandlerType] /\ reg \in RegType
    BY <1>3 DEF DataOk
  <2> HIDE DEF e, r, h
  <2>3. ASSUME NEW u \in Seq(FrameType), Popped(th[t], u),
               NEW Q, Q = Unref(hnd, h), NEW R, R = Let(reg, r)
        PROVE  /\ Core(u, Q, R, lists, told, served) /\ Stays(th[t], u)
               /\ Moved(th[t], reg, R) /\ Q \in [Ids -> HandlerType]
    <3>1. h = reg[r].handler
      BY DEF h
    <3>2. Uninstalling(th[t]) /\ Core(th[t], hnd, reg, lists, told, served)
      BY <1>2, <1>4
    <3>3. r = th[t][2].r /\ th[t][2].at = "end" /\ MayCall(th[t][1], th[t][2])
      BY <2>1
    <3> QED
      BY <2>2, <2>3, <3>1, <3>2, <3>3, CoreUnhandled
  <2> QED
    BY <1>1, <1>6, <2>3
<1>8. DataOk'
  <2>1. reg' \in RegType
    BY <1>1, <1>2, <1>3, LetType DEF DataOk
  <2> QED
    BY <1>1, <1>3, <1>7, <2>1 DEF DataOk
<1>9. Carries(t)
  BY <1>1, <1>7, <1>8 DEF Carries, Then
<1> QED
  BY <1>2, <1>3, <1>5, <1>9, InnerReturns

\* Firmware is told that the region has no handler any more.
LEMMA UnregStep ==
    ASSUME NEW t, Acts(t), Unreg(t)
    PROVE  OpInv'
<1> DEFINE e == Fr(t)
           r == e.r
           f == At(Fr(t), "end")
<1>1. /\ LockKept /\ lists' = lists /\ hnd' = hnd /\ told' = told /\ served' = served
      /\ ns' = ns /\ e.call = "region_uninstall" /\ e.at = "unreg"
  BY DEF Unreg, vars, LockKept, AtFrame
<1>2. /\ Inner(t) /\ Uninstalling(th[t]) /\ e = th[t][2] /\ e = Last(th[t])
      /\ r \in Names /\ Len(th[t]) = 2 /\ MayCall(th[t][1], e)
      /\ ~Inside(e) /\ Settled(e) /\ e \in FrameType /\ FrameFits(e)
      /\ (th[t][1].call = "uninstall_node" => r = th[t][1].r)
      /\ \A R, sv : OwnKnown(th[t], R, sv) =>
           Known(e, R[r], sv[r], CallIn(th[t], "initialize_node", r))
  BY <1>1, UninstallAt
<1>3. t \in Threads /\ IInv' /\ DataOk /\ OpTypes /\ ~Idle(t)
  BY DataTypes DEF Acts, OpInv
<1>4. Core(th[t], hnd, reg, lists, told, served) /\ ~Away(e)
  BY <1>1, <1>2, Within DEF Now, Away, Api
<1>5. /\ f \in FrameType /\ FrameFits(f) /\ f.at = "end" /\ SameCall(e, f)
      /\ f.call = "region_uninstall" /\ f.r = r /\ f.unreg = e.unreg
  <2>1. "end" \in PlacesOf[e.call]
    BY <1>1, PlacesAre
  <2> QED
    BY <1>1, <1>2, <2>1, MovedFrame
<1>6. Plain(e, f)
  BY <1>1, <1>5 DEF Plain, Undone
<1>7. Known(e, reg[r], served[r], CallIn(th[t], "initialize_node", r))
  BY <1>2, <1>4 DEF Core
<1>8. Known(f, reg[r], served[r], CallIn(th[t], "initialize_node", r))
  BY <1>1, <1>5, <1>7 DEF Known
<1>9. CASE ~(reg[r].regged /\ e.unreg)
  <2>1. Move(t, "end") /\ reg' = reg
    BY <1>9 DEF Unreg
  <2>2. NsMoves(t, f)
    BY <1>1, <1>4, <1>5 DEF NsMoves, Away, Api
  <2>3. Goes(t, f)
    BY <1>1, <2>1, <2>2, UninstallGoes
  <2>4. Still
    BY <1>1, <2>1 DEF Still
  <2> HIDE DEF f
  <2> QED
    BY <1>2, <1>3, <1>5, <1>6, <1>8, <2>3, <2>4, GoesOn
<1>10. CASE reg[r].regged /\ e.unreg
  <2> DEFINE g == RegCall(r, "disconnect")
             v == FALSE
  <2>1. PushesTo(t, f, g) /\ reg' = Regged(reg, r, v)
    BY <1>10 DEF Unreg, Call, RegCall, Regged, At, PushesTo
  <2> HIDE DEF f, g, v
  <2>2. /\ g \in FrameType /\ FrameFits(g) /\ g.call = "_REG" /\ g.at = "start"
        /\ g.r = r /\ g.code = "disconnect"
    <3>1. g = RegCall(r, "disconnect")
      BY DEF g
    <3> QED
      BY <1>2, <3>1, NewRegCall
  <2>3. Pushing(t, f, g)
    BY <1>3, <1>5, <2>1, <2>2, CallPushes
  <2>4. Calls(t, f, g)
    BY <1>1, <1>2, <1>4, <1>5, <1>10, <2>2, <2>3 DEF Calls, RegionCalls, MayCallAgain
  <2>5. th[t] \in Seq(FrameType) /\ th[t] # <<>> /\ th[t][1] \in FrameType
    BY <1>2, Within, TodoNames
  <2>6. Placed(t, f)
    <3>1. Len(th[t]) # 1
      BY <1>2
    <3> QED
      BY <1>5, <1>6, <1>8, <3>1 DEF Placed
  <2>7. \A k \in DOMAIN th[t] : th[t][k].call # "_REG"
    <3>1. th[t][1].call # "_REG" /\ th[t][2].call # "_REG" /\ DOMAIN th[t] = 1 .. 2
      BY <1>1, <1>2 DEF Uninstalling
    <3>2. \A k \in 1 .. 2 : k = 1 \/ k = 2
      OBVIOUS
    <3> QED
      BY <3>1, <3>2
  <2>8. reg[r].exists
    <3>1. th[t][1].call = "uninstall_node" /\ th[t][1].r = r
      BY <1>1, <1>2, <1>10 DEF MayCall
    <3>2. EndingOk(th[t], r, reg[r])
      BY <1>2, <1>4 DEF Core, NodeOk
    <3> QED
      BY <2>5, <3>1, <3>2 DEF EndingOk, CallIn
  <2>9. /\ v \in BOOLEAN /\ r = g.r /\ f.call # "_REG"
        /\ v <=> g.code = "connect" /\ Regions[r].dev \in HasReg
    BY <1>5, <2>2 DEF v
  <2> HIDE DEF e, r
  <2> QED
    BY <1>1, <1>2, <1>3, <2>1, <2>2, <2>4, <2>6, <2>7, <2>8, <2>9, CallsReg
<1> QED
  BY <1>9, <1>10

-----------------------------------------------------------------------------
(***************************************************************************)
(* region_run_reg.                                                         *)
(***************************************************************************)
\* What is known of a call of _REG.
LEMMA RegAt ==
    ASSUME NEW t, Acts(t), Fr(t).call = "_REG"
    PROVE  /\ Inner(t) /\ Fr(t) = Last(th[t]) /\ Fr(t).r \in Names
           /\ Settled(Fr(t)) /\ ~Inside(Fr(t)) /\ Fr(t) \in FrameType /\ FrameFits(Fr(t))
           /\ Fr(t).at \in {"start", "body", "sleep", "end"}
           /\ Len(th[t]) > 1 /\ Len(th[t]) # 1
           /\ \A k \in DOMAIN th[t] : k # Len(th[t]) => th[t][k].call # "_REG"
           /\ Fr(t).code = "connect" => Len(th[t]) = 2
           /\ Len(th[t]) = 2 => th[t][1].call # "uninstall_node"
<1>1. Inner(t)
  BY InnerAt DEF Acts
<1>2. /\ th[t] \in Seq(FrameType) /\ th[t] # <<>> /\ Fr(t) = Last(th[t])
      /\ Fr(t) \in FrameType /\ Fr(t) = th[t][Len(th[t])]
      /\ StackOk(th[t], t) /\ FrameFits(Fr(t))
  BY <1>1, Within
<1>3. Fr(t).at \in {"start", "body", "sleep", "end"} /\ Fr(t).r \in Names
  BY <1>2, PlacesAre DEF FrameFits, Api
<1>4. Settled(Fr(t)) /\ ~Inside(Fr(t))
  BY <1>3 DEF Settled, Inside, Acquiring, Api
<1>5. DOMAIN th[t] = 1 .. Len(th[t])
  BY <1>2, Shape
<1>6. \/ Len(th[t]) = 2 /\ MayCall(th[t][1], Fr(t))
      \/ Len(th[t]) = 3 /\ MayCallAgain(th[t][2], Fr(t))
         /\ th[t][2].call = "region_uninstall" /\ MayCall(th[t][1], th[t][2])
  BY <1>2, Shape
<1>7. CASE Len(th[t]) = 2
  <2>1. MayCall(th[t][1], Fr(t))
    BY <1>6, <1>7
  <2>2. th[t][1].call # "_REG" /\ th[t][1].call # "uninstall_node"
    BY <2>1 DEF MayCall, Api
  <2>3. \A k \in DOMAIN th[t] : k # Len(th[t]) => k = 1
    BY <1>5, <1>7
  <2> QED
    BY <1>1, <1>2, <1>3, <1>4, <1>7, <2>2, <2>3
<1>8. CASE Len(th[t]) = 3
  <2>1. /\ MayCallAgain(th[t][2], Fr(t)) /\ th[t][2].call = "region_uninstall"
        /\ MayCall(th[t][1], th[t][2])
    BY <1>6, <1>8
  <2>2. th[t][1].call # "_REG" /\ Fr(t).code # "connect"
    BY <2>1 DEF MayCall, MayCallAgain, Api
  <2>3. \A k \in DOMAIN th[t] : k # Len(th[t]) => k = 1 \/ k = 2
    BY <1>5, <1>8
  <2> QED
    BY <1>1, <1>2, <1>3, <1>4, <1>8, <2>1, <2>2, <2>3
<1> QED
  BY <1>6, <1>7, <1>8

\* How a call of _REG goes from place to place.
LEMMA RegMoves ==
    ASSUME NEW t, Acts(t), Fr(t).call = "_REG",
           NEW a \in {"body", "sleep", "end"}, NEW f, f = At(Fr(t), a)
    PROVE  /\ f.call = "_REG" /\ f.r = Fr(t).r /\ f.at = a /\ f.code = Fr(t).code
           /\ f \in FrameType /\ FrameFits(f) /\ SameCall(Fr(t), f)
           /\ \A x, y, z : Known(f, x, y, z)
           /\ Fr(t).at # "start" => Placed(t, f)
           /\ Move(t, a) /\ LockKept /\ NsMoves(t, f) => Goes(t, f)
<1>1. /\ Inner(t) /\ Fr(t) \in FrameType /\ FrameFits(Fr(t)) /\ Settled(Fr(t))
      /\ ~Inside(Fr(t)) /\ OpTypes /\ t \in Threads /\ ~Idle(t) /\ Len(th[t]) # 1
  BY RegAt, Within DEF Acts, OpInv
<1>2. a \in PlacesOf[Fr(t).call]
  BY PlacesAre
<1>3. /\ f \in FrameType /\ FrameFits(f) /\ f.at = a /\ SameCall(Fr(t), f)
      /\ f.call = Fr(t).call /\ f.r = Fr(t).r /\ f.code = Fr(t).code
  BY <1>1, <1>2, MovedFrame
<1>4. \A x, y, z : Known(f, x, y, z)
  BY <1>3 DEF Known
<1>5. Fr(t).at # "start" => Placed(t, f)
  BY <1>1, <1>3, <1>4 DEF Placed, Plain
<1>6. ASSUME Move(t, a), LockKept, NsMoves(t, f) PROVE Goes(t, f)
  <2>1. Set(t, f)
    BY <1>6 DEF Move, At
  <2>2. Topping(t, f)
    BY <1>1, <1>3, <2>1, SetTops
  <2>3. Settled(f) /\ ~Inside(f)
    BY <1>3 DEF Settled, Inside, Acquiring, Api
  <2> QED
    BY <1>1, <1>3, <1>6, <2>2, <2>3 DEF Goes
<1> QED
  BY <1>3, <1>4, <1>5, <1>6

\* A plain step of a call that is not the first.
LEMMA PlacedOn ==
    ASSUME NEW t, Inner(t), IInv', NEW f, Goes(t, f), Still, Placed(t, f)
    PROVE  OpInv'
<1>1. th'[t] \in Seq(FrameType) /\ Topped(th[t], th'[t], f)
  BY GoesFits
<1> QED
  BY <1>1, GoesOn DEF Placed

\* Firmware is told.
LEMMA RegStarts ==
    ASSUME NEW t, Acts(t), AtFrame(t, "_REG", "start"), region_run_reg(t)
    PROVE  OpInv'
<1> DEFINE e == Fr(t)
           r == e.r
           f == At(Fr(t), "body")
<1>1. /\ LockKept /\ lists' = lists /\ hnd' = hnd /\ reg' = reg /\ served' = served
      /\ ns' = ns /\ e.call = "_REG" /\ e.at = "start"
      /\ \/ Regions[r].dev \in HasReg /\ told' = With(told, r, e.code)
         \/ Regions[r].dev \notin HasReg /\ told' = told
      /\ Move(t, "body") \/ Return(t)
  BY DEF region_run_reg, vars, LockKept, AtFrame, With
<1>2. /\ Inner(t) /\ e = Last(th[t]) /\ r \in Names /\ ~Inside(e) /\ e \in FrameType
      /\ Len(th[t]) > 1 /\ \A k \in DOMAIN th[t] : k # Len(th[t]) => th[t][k].call # "_REG"
      /\ Len(th[t]) = 2 => th[t][1].call # "uninstall_node"
  BY <1>1, RegAt
<1>3. t \in Threads /\ IInv' /\ DataOk /\ OpTypes /\ ~Idle(t)
  BY DataTypes DEF Acts, OpInv
<1>4. /\ Core(th[t], hnd, reg, lists, told, served) /\ ~Away(e)
      /\ th[t] \in Seq(FrameType) /\ th[t] # <<>>
  BY <1>1, <1>2, Within DEF Now, Away, Api
<1>5. /\ f.call = "_REG" /\ f.r = r /\ f.at = "body" /\ f \in FrameType
      /\ Move(t, "body") /\ LockKept /\ NsMoves(t, f) => Goes(t, f)
  BY <1>1, RegMoves
<1>6. DataOk'
  <2>1. told' \in [Names -> {"never", "connect", "disconnect"}]
    <3>1. CASE told' = told
      BY <1>3, <3>1 DEF DataOk
    <3>2. CASE told' = With(told, r, e.code)
      <4>1. e.code \in {"connect", "disconnect"}
        <5>1. e.code # "none"
          BY <1>1, <1>2, Within, Shape DEF MayCall, MayCallAgain
        <5> QED
          BY <1>2, <5>1 DEF FrameType
      <4> HIDE DEF e, r
      <4> QED
        BY <1>2, <1>3, <3>2, <4>1 DEF DataOk, With
    <3> QED
      BY <1>1, <3>1, <3>2
  <2> QED
    BY <1>1, <1>3, <2>1 DEF DataOk
<1>7. ASSUME NEW v \in Seq(FrameType), Topped(th[t], v, f)
      PROVE  Core(v, hnd, reg, lists, told', served) /\ Stays(th[t], v)
  <2>1. DOMAIN told = Names
    BY <1>3 DEF DataOk
  <2> HIDE DEF f
  <2>2. /\ r = e.r /\ e = Last(th[t]) /\ e.call = "_REG" /\ e.at = "start" /\ f.r = e.r
        /\ r \in Names /\ f.call = "_REG" /\ f.at = "body"
    BY <1>1, <1>2, <1>5
  <2> HIDE DEF e, r
  <2>3. ASSUME NEW tl,
               \/ Regions[r].dev \in HasReg /\ tl = With(told, r, e.code)
               \/ Regions[r].dev \notin HasReg /\ tl = told
        PROVE  Core(v, hnd, reg, lists, tl, served) /\ Stays(th[t], v)
    <3>1. /\ Len(th[t]) > 1 /\ \A k \in DOMAIN th[t] : k # Len(th[t]) => th[t][k].call # "_REG"
      BY <1>2
    <3>2. Core(th[t], hnd, reg, lists, told, served)
      BY <1>4
    <3>3. th[t] \in Seq(FrameType) /\ th[t] # <<>>
      BY <1>4
    <3>4. v \in Seq(FrameType) /\ Topped(th[t], v, f)
      BY <1>7
    <3>5. r \in Names /\ r = e.r
      BY <2>2
    <3>6. e = Last(th[t]) /\ e.call = "_REG" /\ e.at = "start" /\ f.call = "_REG" /\ f.at = "body" /\ f.r = e.r
      BY <2>2
    <3> HIDE DEF f
    <3>7. CASE Regions[r].dev \in HasReg /\ tl = With(told, r, e.code)
      BY <2>1, <3>1, <3>2, <3>3, <3>4, <3>5, <3>6, <3>7, CoreTell
    <3>8. CASE Regions[r].dev \notin HasReg /\ tl = told
      BY <2>1, <3>1, <3>2, <3>3, <3>4, <3>5, <3>6, <3>8, CoreTell
    <3> QED
      BY <2>3, <3>7, <3>8
  <2> QED
    BY <1>1, <2>3
<1>8. CASE Move(t, "body")
  <2>1. Goes(t, f)
    BY <1>1, <1>4, <1>5, <1>8 DEF NsMoves, Away, Api
  <2>2. th'[t] \in Seq(FrameType) /\ Topped(th[t], th'[t], f)
    BY <1>2, <2>1, GoesFits
  <2>3. Core(th'[t], hnd, reg, lists, told', served) /\ Stays(th[t], th'[t])
    BY <1>7, <2>2
  <2>4. Carries(t)
    BY <1>1, <1>6, <2>3, MovedNot DEF Carries, Then
  <2> HIDE DEF f
  <2> QED
    BY <1>2, <1>3, <2>1, <2>4, InnerGoes
<1>9. CASE Return(t)
  <2>1. Popping(t)
    BY <1>3, <1>9, ReturnPops
  <2>2. Returns(t)
    BY <1>1, <1>2, <1>4, <2>1 DEF Returns
  <2>3. th'[t] \in Seq(FrameType) /\ Popped(th[t], th'[t])
    BY <1>3, <2>1 DEF Popping
  <2> HIDE DEF f
  <2>4. PICK v \in Seq(FrameType) : Topped(th[t], v, f) /\ Popped(v, th'[t])
    BY <1>4, <1>5, <2>3, PopSplit
  <2>5. Core(v, hnd, reg, lists, told', served) /\ Stays(th[t], v)
    BY <1>7, <2>4
  <2>6. /\ Len(v) = Len(th[t]) /\ f = v[Len(v)] /\ Len(v) > 1
        /\ v[1].call = th[t][1].call
    <3>1. Len(v) = Len(th[t]) /\ f = v[Len(v)]
      BY <2>4 DEF Topped
    <3> QED
      BY <1>2, <2>5, <3>1 DEF Stays
  <2>7. ~(Len(v) = 2 /\ v[1].call = "uninstall_node")
    BY <1>2, <2>6
  <2>8. Core(th'[t], hnd, reg, lists, told', served) /\ Stays(v, th'[t])
    <3>1. ASSUME NEW tl, Core(v, hnd, reg, lists, tl, served)
          PROVE  Core(th'[t], hnd, reg, lists, tl, served) /\ Stays(v, th'[t])
      BY <1>5, <2>3, <2>4, <2>6, <2>7, <3>1, CorePop
    <3> QED
      BY <2>5, <3>1
  <2>9. Stays(th[t], th'[t])
    BY <2>5, <2>8, StaysOn
  <2>10. Carries(t)
    BY <1>1, <1>6, <2>8, <2>9, MovedNot DEF Carries, Then
  <2> QED
    BY <1>2, <1>3, <2>2, <2>10, InnerReturns
<1> QED
  BY <1>1, <1>8, <1>9

\* region_run_reg preserves the invariant.
LEMMA RegStep ==
    ASSUME NEW t, Acts(t), region_run_reg(t)
    PROVE  OpInv'
<1> DEFINE e == Fr(t)
           r == e.r
<1>1. CASE AtFrame(t, "_REG", "start")
  BY <1>1, RegStarts
<1>2. CASE e.at # "start"
  <2>1. /\ LockKept /\ Still /\ e.call = "_REG"
        /\ \/ e.at = "body" /\ Drop(t) /\ Move(t, "sleep")
           \/ e.at = "body" /\ e.code = "connect" /\ reg[r].exists /\ ns' = ns
              /\ Call(t, "end", Frame("io", r))
           \/ e.at = "sleep" /\ Lock(t) /\ Move(t, "end")
           \/ e.at = "end" /\ Return(t) /\ ns' = ns
    BY <1>2 DEF region_run_reg, vars, LockKept, AtFrame, Still
  <2>2. /\ Inner(t) /\ e = Last(th[t]) /\ r \in Names /\ ~Inside(e) /\ Settled(e)
        /\ Len(th[t]) > 1
        /\ e.code = "connect" => Len(th[t]) = 2
        /\ Len(th[t]) = 2 => th[t][1].call # "uninstall_node"
    BY <2>1, RegAt
  <2>3. t \in Threads /\ IInv' /\ OpTypes /\ ~Idle(t)
    BY DEF Acts, OpInv
  <2>4. CASE e.at = "body" /\ Drop(t) /\ Move(t, "sleep")
    <3> DEFINE f == At(Fr(t), "sleep")
    <3>1. Placed(t, f) /\ Goes(t, f)
      <4>1. /\ f.at = "sleep" /\ Placed(t, f)
            /\ NsMoves(t, f) => Goes(t, f)
        BY <1>2, <2>1, <2>4, RegMoves
      <4> QED
        BY <2>4, <4>1 DEF NsMoves, Away
    <3> HIDE DEF f
    <3> QED
      BY <2>1, <2>2, <2>3, <3>1, PlacedOn
  <2>5. CASE e.at = "body" /\ e.code = "connect" /\ reg[r].exists /\ ns' = ns
             /\ Call(t, "end", Frame("io", r))
    <3> DEFINE f == At(Fr(t), "end")
               g == Frame("io", r)
    <3>1. PushesTo(t, f, g)
      BY <2>5 DEF Call, At, PushesTo
    <3>2. /\ f.call = "_REG" /\ f.r = r /\ f.at = "end" /\ f.code = "connect"
          /\ f \in FrameType /\ FrameFits(f) /\ SameCall(e, f) /\ Placed(t, f)
      BY <1>2, <2>1, <2>5, RegMoves
    <3>3. /\ g \in FrameType /\ FrameFits(g) /\ g.call = "io" /\ g.at = "start" /\ g.r = r
      BY <2>2, NewFrame
    <3> HIDE DEF f, g
    <3>4. Pushing(t, f, g)
      BY <2>3, <3>1, <3>2, <3>3, CallPushes
    <3>5. MayCallAgain(f, g)
      BY <3>2, <3>3 DEF MayCallAgain
    <3>6. ~Away(e)
      BY <2>1, <2>5 DEF Away, Api
    <3>7. Calls(t, f, g)
      BY <2>1, <2>2, <2>5, <3>2, <3>3, <3>4, <3>5, <3>6 DEF Calls, RegionCalls
    <3> QED
      BY <2>1, <2>2, <2>3, <3>2, <3>3, <3>7, CallsCore
  <2>6. CASE e.at = "sleep" /\ Lock(t) /\ Move(t, "end")
    <3> DEFINE f == At(Fr(t), "end")
    <3>1. Placed(t, f) /\ Goes(t, f)
      <4>1. /\ f.at = "end" /\ f.call = "_REG" /\ Placed(t, f)
            /\ NsMoves(t, f) => Goes(t, f)
        BY <1>2, <2>1, <2>6, RegMoves
      <4> QED
        BY <2>6, <4>1 DEF NsMoves, Away, Api
    <3> HIDE DEF f
    <3> QED
      BY <2>1, <2>2, <2>3, <3>1, PlacedOn
  <2>7. CASE e.at = "end" /\ Return(t) /\ ns' = ns
    <3>1. Popping(t)
      BY <2>3, <2>7, ReturnPops
    <3>2. ~Away(e)
      BY <2>1, <2>7 DEF Away, Api
    <3> QED
      BY <2>1, <2>2, <2>3, <2>7, <3>1, <3>2, GoesBack
  <2> QED
    BY <2>1, <2>4, <2>5, <2>6, <2>7
<1> QED
  BY <1>1, <1>2 DEF region_run_reg, AtFrame

-----------------------------------------------------------------------------
(***************************************************************************)
(* An access.                                                              *)
(***************************************************************************)
IoPlaces == {"locked", "attach", "attached", "refused", "access", "callback", "leave"}

\* What is known of an access by the thread inside.
LEMMA IoWithin ==
    ASSUME NEW t, Inner(t), Fr(t).call = "io", Fr(t).at \in IoPlaces
    PROVE  /\ Accessing(th[t]) /\ Fr(t) = Last(th[t]) /\ Fr(t).r \in Names
           /\ Settled(Fr(t)) /\ Inside(Fr(t)) /\ Fr(t) \in FrameType /\ FrameFits(Fr(t))
           /\ Framed(th[t]) /\ th[t] \in Seq(FrameType) /\ th[t] # <<>>
           /\ Len(th[t]) = 1 => Fr(t) = th[t][1]
           /\ Core(th[t], hnd, reg, lists, told, served)
           /\ Known(Fr(t), reg[Fr(t).r], served[Fr(t).r],
                    CallIn(th[t], "initialize_node", Fr(t).r))
<1>1. Fr(t).at \notin Outside
  BY DEF IoPlaces, Outside
<1>2. Inner(t)
  OBVIOUS
<1>3. /\ th[t] \in Seq(FrameType) /\ th[t] # <<>> /\ Fr(t) = Last(th[t])
      /\ Fr(t) \in FrameType /\ Fr(t) = th[t][Len(th[t])]
      /\ StackOk(th[t], t) /\ FrameFits(Fr(t)) /\ Framed(th[t])
      /\ Core(th[t], hnd, reg, lists, told, served)
  BY <1>2, Within DEF Now
<1>4. Fr(t).r \in Names
  BY <1>3 DEF FrameFits, Api
<1>5. Settled(Fr(t)) /\ Inside(Fr(t))
  BY <1>1 DEF Settled, Inside, Acquiring, IoPlaces
<1>6. DOMAIN th[t] = 1 .. Len(th[t])
  BY <1>3, Shape
<1>7. \/ Len(th[t]) = 1
      \/ Len(th[t]) = 3 /\ th[t][2].call = "_REG" /\ MayCall(th[t][1], th[t][2])
  BY <1>3, Shape
<1>8. \A k \in DOMAIN th[t] : k # Len(th[t]) => th[t][k].call \notin {"region_uninstall", "io"}
  <2>1. CASE Len(th[t]) = 1
    <3>1. \A k \in DOMAIN th[t] : k = 1
      BY <1>6, <2>1
    <3> QED
      BY <2>1, <3>1
  <2>2. CASE Len(th[t]) = 3 /\ th[t][2].call = "_REG" /\ MayCall(th[t][1], th[t][2])
    <3>1. th[t][1].call \notin {"region_uninstall", "io"}
      BY <2>2 DEF MayCall, Api
    <3>2. \A k \in DOMAIN th[t] : k # Len(th[t]) => k = 1 \/ k = 2
      BY <1>6, <2>2
    <3> QED
      BY <2>2, <3>1, <3>2
  <2> QED
    BY <1>7, <2>1, <2>2
<1>9. Accessing(th[t])
  BY <1>3, <1>4, <1>8 DEF Accessing
<1>10. Known(Fr(t), reg[Fr(t).r], served[Fr(t).r], CallIn(th[t], "initialize_node", Fr(t).r))
  <2>1. OwnKnown(th[t], reg, served)
    BY <1>3 DEF Core
  <2> QED
    BY <1>3, <1>9, <2>1, AccessView
<1> QED
  BY <1>3, <1>4, <1>5, <1>9, <1>10

\* What is known of an access at a place inside the lock.
LEMMA IoAt ==
    ASSUME NEW t, Acts(t), Fr(t).call = "io", Fr(t).at \in IoPlaces
    PROVE  /\ Inner(t) /\ Accessing(th[t]) /\ Fr(t) = Last(th[t]) /\ Fr(t).r \in Names
           /\ Settled(Fr(t)) /\ Inside(Fr(t)) /\ Fr(t) \in FrameType /\ FrameFits(Fr(t))
           /\ Framed(th[t]) /\ th[t] \in Seq(FrameType) /\ th[t] # <<>>
           /\ Len(th[t]) = 1 => Fr(t) = th[t][1]
           /\ Core(th[t], hnd, reg, lists, told, served)
           /\ Known(Fr(t), reg[Fr(t).r], served[Fr(t).r],
                    CallIn(th[t], "initialize_node", Fr(t).r))
<1>1. Fr(t).at \notin Outside
  BY DEF IoPlaces, Outside
<1>2. Inner(t)
  BY <1>1, InnerAt DEF Acts
<1> QED
  BY <1>2, IoWithin

\* Where an access goes.
IoMoved(e, f, a) ==
  /\ f \in FrameType /\ f.call = "io" /\ f.r = e.r /\ f.at = a /\ f.unreg = e.unreg
  /\ f.todo = e.todo
\* Moving within the access changes its place, and at most its handler.
LEMMA IoMoves ==
    ASSUME NEW t, Acts(t), Fr(t).call = "io", Fr(t).at \in IoPlaces,
           NEW a \in {"attach", "attached", "refused", "access", "callback", "leave"}
    PROVE  /\ IoMoved(Fr(t), At(Fr(t), a), a)
           /\ \A h \in Ids \cup {NoHandler} :
                IoMoved(Fr(t), [Fr(t) EXCEPT !.at = a, !.h = h], a)
<1>1. Fr(t) \in FrameType /\ FrameFits(Fr(t))
  BY IoAt
<1>2. a \in PlacesOf["io"]
  BY PlacesAre
<1>3. IoMoved(Fr(t), At(Fr(t), a), a)
  BY <1>1, <1>2, MovedFrame DEF IoMoved
<1>4. ASSUME NEW h \in Ids \cup {NoHandler}
      PROVE  IoMoved(Fr(t), [Fr(t) EXCEPT !.at = a, !.h = h], a)
  <2> DEFINE f == At(Fr(t), a)
             g == [Fr(t) EXCEPT !.at = a, !.h = h]
  <2>1. g = [f EXCEPT !.h = h]
    BY <1>1 DEF At, FrameType
  <2>2. IoMoved(Fr(t), f, a)
    BY <1>3
  <2> HIDE DEF f, g
  <2>3. IoMoved(Fr(t), g, a)
    BY <2>1, <2>2 DEF IoMoved, FrameType
  <2> QED
    BY <2>3 DEF g
<1> QED
  BY <1>3, <1>4

\* An access goes on: the stack, the locks and the first call fit.
LEMMA IoGoes ==
    ASSUME NEW t, Acts(t), Fr(t).call = "io", Fr(t).at \in IoPlaces,
           NEW a \in {"attach", "attached", "refused", "access", "callback", "leave"},
           NEW f, IoMoved(Fr(t), f, a), Set(t, f), LockKept, NsMoves(t, f)
    PROVE  /\ Goes(t, f)
           /\ Len(th[t]) = 1 => \A v \in Seq(FrameType) :
                                  Topped(th[t], v, f) => FirstOk(v, reg, lists)
<1>1. /\ Inner(t) /\ Fr(t) \in FrameType /\ FrameFits(Fr(t)) /\ Settled(Fr(t))
      /\ Inside(Fr(t)) /\ OpTypes /\ t \in Threads /\ ~Idle(t) /\ Fr(t).r \in Names
      /\ th[t] \in Seq(FrameType) /\ th[t] # <<>>
      /\ Core(th[t], hnd, reg, lists, told, served)
  BY IoAt DEF Acts, OpInv
<1>2. a \in PlacesOf["io"] /\ a \notin Outside
  BY PlacesAre DEF Outside
<1>3. SameCall(Fr(t), f) /\ FrameFits(f)
  <2>1. FrameFits(f)
    BY <1>1, <1>2 DEF IoMoved, FrameFits, Api
  <2> QED
    BY <1>1, <2>1 DEF IoMoved, SameCall
<1>4. Topping(t, f)
  BY <1>1, SetTops DEF IoMoved
<1>5. Settled(f) /\ Inside(f)
  BY <1>2 DEF IoMoved, Settled, Inside, Acquiring
<1>6. Goes(t, f)
  BY <1>1, <1>3, <1>4, <1>5 DEF Goes
<1>7. ASSUME Len(th[t]) = 1, NEW v \in Seq(FrameType), Topped(th[t], v, f)
      PROVE  FirstOk(v, reg, lists)
  <2>1. v # <<>>
    BY <1>1, <1>7, ToppedFacts
  <2>2. v[1] = f /\ Fr(t) = th[t][1]
    BY <1>7, IoAt DEF Topped
  <2>3. FirstOk(th[t], reg, lists)
    BY <1>1 DEF Core, FirstOk
  <2> QED
    BY <1>1, <1>2, <2>1, <2>2, <2>3, IoFirst DEF IoMoved
<1> QED
  BY <1>6, <1>7

\* An access that is neither attaching nor attached goes on.
LEMMA IoPlain ==
    ASSUME NEW t, Acts(t), Fr(t).call = "io", Fr(t).at \in IoPlaces \ {"attached"},
           NEW a \in {"attach", "refused", "access", "callback", "leave"},
           NEW f, IoMoved(Fr(t), f, a), Set(t, f), LockKept, NsMoves(t, f), Still,
           Known(f, reg[Fr(t).r], served[Fr(t).r], CallIn(th[t], "initialize_node", Fr(t).r))
    PROVE  OpInv'
<1>1. Inner(t) /\ IInv'
  BY IoAt DEF Acts
<1>2. /\ Goes(t, f)
      /\ Len(th[t]) = 1 => \A v \in Seq(FrameType) :
                             Topped(th[t], v, f) => FirstOk(v, reg, lists)
  BY IoGoes
<1>3. Plain(Fr(t), f)
  BY DEF IoMoved, Plain
<1>4. f.r = Fr(t).r
  BY DEF IoMoved
<1>5. Placed(t, f)
  BY <1>2, <1>3, <1>4 DEF Placed
<1> QED
  BY <1>1, <1>2, <1>5, PlacedOn

\* The handler is called to attach the region.
LEMMA IoAttach ==
    ASSUME NEW t, Acts(t), AtFrame(t, "io", "attach"), Drop(t), Move(t, "attached"), LockKept,
           served' = With(served, Fr(t).r, reg[Fr(t).r].handler),
           lists' = lists, hnd' = hnd, reg' = reg, told' = told
    PROVE  OpInv'
<1> DEFINE e == Fr(t)
           r == e.r
           f == At(Fr(t), "attached")
<1>1. e.call = "io" /\ e.at = "attach" /\ e.at \in IoPlaces
  BY DEF AtFrame, IoPlaces
<1>2. /\ Inner(t) /\ Accessing(th[t]) /\ e = Last(th[t]) /\ r \in Names /\ Framed(th[t])
      /\ Core(th[t], hnd, reg, lists, told, served)
  BY <1>1, IoAt
<1>3. t \in Threads /\ IInv' /\ DataOk
  BY DataTypes DEF Acts, OpInv
<1>4. IoMoved(e, f, "attached") /\ Set(t, f)
  BY <1>1, IoMoves DEF Move, At
<1>5. /\ f.call = "io" /\ f.r = r /\ f.at = "attached"
  BY <1>4 DEF IoMoved
<1>6. NsMoves(t, f)
  BY <1>5 DEF NsMoves, Away
<1>7. /\ Goes(t, f)
      /\ Len(th[t]) = 1 => \A v \in Seq(FrameType) :
                             Topped(th[t], v, f) => FirstOk(v, reg, lists)
  BY <1>1, <1>4, <1>6, IoGoes
<1>8. th'[t] \in Seq(FrameType) /\ Topped(th[t], th'[t], f)
  BY <1>2, <1>7, GoesFits
<1>9. Core(th'[t], hnd, reg, lists, told, served') /\ Stays(th[t], th'[t])
  <2>1. DOMAIN served = Names /\ (Len(th[t]) = 1 => FirstOk(th'[t], reg, lists))
    BY <1>3, <1>7, <1>8 DEF DataOk
  <2>2. r = Last(th[t]).r /\ Last(th[t]).at = "attach"
    BY <1>1, <1>2
  <2> HIDE DEF e, r, f
  <2>3. ASSUME NEW Q, Q = With(served, r, reg[r].handler)
        PROVE  Core(th'[t], hnd, reg, lists, told, Q) /\ Stays(th[t], th'[t])
    BY <1>2, <1>5, <1>8, <2>1, <2>2, <2>3, CoreAttach
  <2> QED
    BY <2>3 DEF e, r
<1>10. DataOk'
  <2>1. served' \in [Names -> Ids \cup {NoHandler}]
    BY <1>2, <1>3 DEF DataOk, RegType, With
  <2> QED
    BY <1>3, <2>1 DEF DataOk
<1>11. Carries(t)
  BY <1>9, <1>10, MovedNot DEF Carries, Then
<1> HIDE DEF f
<1> QED
  BY <1>2, <1>3, <1>7, <1>11, InnerGoes

\* The attach was a success, and the region is marked.
LEMMA IoAttached ==
    ASSUME NEW t, Acts(t), AtFrame(t, "io", "attached"), Lock(t), Move(t, "access"), LockKept,
           reg' = Attached(reg, Fr(t).r),
           lists' = lists, hnd' = hnd, served' = served, told' = told
    PROVE  OpInv'
<1> DEFINE e == Fr(t)
           r == e.r
           f == At(Fr(t), "access")
<1>1. e.call = "io" /\ e.at = "attached" /\ e.at \in IoPlaces
  BY DEF AtFrame, IoPlaces
<1>2. /\ Inner(t) /\ Accessing(th[t]) /\ e = Last(th[t]) /\ r \in Names /\ Framed(th[t])
      /\ Core(th[t], hnd, reg, lists, told, served)
  BY <1>1, IoAt
<1>3. t \in Threads /\ IInv' /\ DataOk
  BY DataTypes DEF Acts, OpInv
<1>4. IoMoved(e, f, "access") /\ Set(t, f)
  BY <1>1, IoMoves DEF Move, At
<1>5. /\ f.call = "io" /\ f.r = r /\ f.at = "access"
  BY <1>4 DEF IoMoved
<1>6. NsMoves(t, f)
  BY <1>5 DEF NsMoves, Away, Api
<1>7. /\ Goes(t, f)
      /\ Len(th[t]) = 1 => \A v \in Seq(FrameType) :
                             Topped(th[t], v, f) => FirstOk(v, reg, lists)
  BY <1>1, <1>4, <1>6, IoGoes
<1>8. th'[t] \in Seq(FrameType) /\ Topped(th[t], th'[t], f)
  BY <1>2, <1>7, GoesFits
<1>9. Core(th'[t], hnd, reg', lists, told, served) /\ Stays(th[t], th'[t])
      /\ Moved(th[t], reg, reg')
  <2>1. reg \in RegType /\ (Len(th[t]) = 1 => FirstOk(th'[t], reg, lists))
    BY <1>3, <1>7, <1>8 DEF DataOk
  <2>2. r = Last(th[t]).r /\ Last(th[t]).at = "attached"
    BY <1>1, <1>2
  <2> HIDE DEF e, r, f
  <2>3. ASSUME NEW R, R = Attached(reg, r)
        PROVE  Core(th'[t], hnd, R, lists, told, served) /\ Stays(th[t], th'[t])
               /\ Moved(th[t], reg, R)
    BY <1>2, <1>5, <1>8, <2>1, <2>2, <2>3, CoreAttached
  <2> QED
    BY <2>3 DEF e, r
<1>10. DataOk'
  <2>1. reg' \in RegType
    BY <1>2, <1>3 DEF DataOk, RegType, Attached
  <2> QED
    BY <1>3, <2>1 DEF DataOk
<1>11. Carries(t)
  BY <1>9, <1>10 DEF Carries, Then
<1> HIDE DEF f
<1> QED
  BY <1>2, <1>3, <1>7, <1>11, InnerGoes

\* Every step of an access inside the lock preserves the invariant.
LEMMA IoStep ==
    ASSUME NEW t, Acts(t), Io(t)
    PROVE  OpInv'
<1> DEFINE e == Fr(t)
           r == e.r
<1>1. LockKept /\ lists' = lists /\ hnd' = hnd /\ told' = told /\ e.call = "io"
  BY DEF Io, vars, LockKept, AtFrame
<1>2. ASSUME e.at \in IoPlaces \ {"attached"}, reg' = reg, served' = served,
             NEW a \in {"attach", "refused", "access", "callback", "leave"}, Move(t, a),
             \/ ns' = ns /\ e.at \in {"locked", "access"} /\ a \in {"attach", "access", "leave"}
             \/ Lock(t) /\ a = "leave"
             \/ Drop(t) /\ a = "refused",
             a \in {"attach", "access"} => e.at = "locked" /\ reg[r].exists
                                            /\ reg[r].handler # NoHandler,
             a = "attach" => ~reg[r].attached,
             a = "access" => reg[r].attached,
             a # "callback"
      PROVE  OpInv'
  <2> DEFINE f == At(Fr(t), a)
  <2>1. IoMoved(e, f, a) /\ Set(t, f)
    BY <1>1, <1>2, IoMoves DEF Move, At
  <2>2. f.call = "io" /\ f.at = a
    BY <2>1 DEF IoMoved
  <2>3. NsMoves(t, f)
    BY <1>1, <1>2, <2>2 DEF NsMoves, Away, Api
  <2>4. Known(f, reg[r], served[r], CallIn(th[t], "initialize_node", r))
    BY <1>2, <2>2 DEF Known
  <2>5. Still
    BY <1>1, <1>2 DEF Still
  <2> HIDE DEF f
  <2> QED
    BY <1>1, <1>2, <2>1, <2>3, <2>4, <2>5, IoPlain
<1>3. CASE e.at = "locked"
  <2>1. e.at \in IoPlaces
    BY <1>3 DEF IoPlaces
  <2>2. r \in Names /\ Core(th[t], hnd, reg, lists, told, served)
    BY <1>1, <2>1, IoAt
  <2>3. reg[r].attached => reg[r].exists /\ reg[r].handler # NoHandler
    BY <2>2 DEF Core, ToldBy, TellOk
  <2>4. /\ reg' = reg /\ served' = served /\ ns' = ns
        /\ Move(t, CASE ~reg[r].exists \/ reg[r].handler = NoHandler -> "leave"
                     [] reg[r].exists /\ reg[r].attached -> "access"
                     [] OTHER -> "attach")
    BY <1>3 DEF Io, AtFrame
  <2>5. CASE ~reg[r].exists \/ reg[r].handler = NoHandler
    <3>1. Move(t, "leave")
      BY <2>3, <2>4, <2>5
    <3> QED
      BY <1>2, <1>3, <2>1, <2>4, <3>1
  <2>6. CASE reg[r].exists /\ reg[r].handler # NoHandler /\ reg[r].attached
    <3>1. Move(t, "access")
      BY <2>4, <2>6
    <3> QED
      BY <1>2, <1>3, <2>1, <2>4, <2>6, <3>1
  <2>7. CASE reg[r].exists /\ reg[r].handler # NoHandler /\ ~reg[r].attached
    <3>1. Move(t, "attach")
      BY <2>4, <2>7
    <3> QED
      BY <1>2, <1>3, <2>1, <2>4, <2>7, <3>1
  <2> QED
    BY <2>5, <2>6, <2>7
<1>4. CASE e.at = "attach"
  <2>1. /\ Drop(t) /\ reg' = reg
        /\ \/ Move(t, "attached") /\ served' = With(served, r, reg[r].handler)
           \/ Move(t, "refused") /\ served' = served
    BY <1>4 DEF Io, AtFrame, With
  <2>2. CASE Move(t, "attached") /\ served' = With(served, r, reg[r].handler)
    <3>1. AtFrame(t, "io", "attach")
      BY <1>1, <1>4 DEF AtFrame, Acts, Idle
    <3> QED
      BY <1>1, <2>1, <2>2, <3>1, IoAttach
  <2>3. CASE Move(t, "refused") /\ served' = served
    BY <1>2, <1>4, <2>1, <2>3 DEF IoPlaces
  <2> QED
    BY <2>1, <2>2, <2>3
<1>5. CASE e.at = "refused" \/ e.at = "callback"
  <2>1. Lock(t) /\ Move(t, "leave") /\ reg' = reg /\ served' = served
    BY <1>5 DEF Io, AtFrame
  <2> QED
    BY <1>2, <1>5, <2>1 DEF IoPlaces
<1>6. CASE e.at = "attached"
  <2>1. Lock(t) /\ Move(t, "access") /\ reg' = Attached(reg, r) /\ served' = served
    BY <1>6 DEF Io, AtFrame, Attached
  <2>2. AtFrame(t, "io", "attached")
    BY <1>1, <1>6 DEF AtFrame, Acts, Idle
  <2> QED
    BY <1>1, <2>1, <2>2, IoAttached
<1>7. CASE e.at = "access"
  <2>1. /\ reg' = reg /\ served' = served
        /\ \/ Drop(t) /\ Set(t, [Fr(t) EXCEPT !.at = "callback", !.h = reg[r].handler])
           \/ Move(t, "leave") /\ ns' = ns
    BY <1>7 DEF Io, AtFrame
  <2>2. CASE Move(t, "leave") /\ ns' = ns
    BY <1>2, <1>7, <2>1, <2>2 DEF IoPlaces
  <2>3. CASE Drop(t) /\ Set(t, [Fr(t) EXCEPT !.at = "callback", !.h = reg[r].handler])
    <3> DEFINE f == [Fr(t) EXCEPT !.at = "callback", !.h = reg[r].handler]
    <3>1. e.at \in IoPlaces \ {"attached"}
      BY <1>7 DEF IoPlaces
    <3>2. /\ r \in Names /\ e \in FrameType
          /\ Known(e, reg[r], served[r], CallIn(th[t], "initialize_node", r))
      BY <1>1, <3>1, IoAt
    <3>3. reg[r].handler \in Ids \cup {NoHandler}
      BY <3>2, DataTypes DEF DataOk, RegType, Acts, OpInv
    <3>4. IoMoved(e, f, "callback")
      BY <1>1, <3>1, <3>3, IoMoves
    <3>5. f.call = "io" /\ f.at = "callback" /\ f.h = reg[r].handler
      BY <1>1, <3>2 DEF FrameType
    <3>6. NsMoves(t, f)
      BY <2>3, <3>5 DEF NsMoves, Away
    <3>7. Known(f, reg[r], served[r], CallIn(th[t], "initialize_node", r))
      BY <1>1, <1>7, <3>2, <3>5 DEF Known
    <3>8. Still /\ Set(t, f)
      BY <1>1, <2>1, <2>3 DEF Still
    <3> HIDE DEF f
    <3> QED
      BY <1>1, <3>1, <3>4, <3>6, <3>7, <3>8, IoPlain
  <2> QED
    BY <2>1, <2>2, <2>3
<1> QED
  BY <1>3, <1>4, <1>5, <1>6, <1>7 DEF Io, AtFrame

-----------------------------------------------------------------------------
(***************************************************************************)
(* The calls that are the only one on the stack.                           *)
(***************************************************************************)
FirstCalls == Acquiring \ {"io"}
InPlaces == {"locked", "connect", "regions", "regs", "end", "leave"}

\* What is known of a first call at a place inside the lock.
LEMMA FirstAt ==
    ASSUME NEW t, Acts(t), Fr(t).call \in FirstCalls, Fr(t).at \in InPlaces
    PROVE  /\ Inner(t) /\ Single(th[t], FirstCalls) /\ Fr(t) = th[t][1]
           /\ Fr(t) = Last(th[t]) /\ Fr(t) \in FrameType /\ FrameFits(Fr(t))
           /\ Settled(Fr(t)) /\ Inside(Fr(t)) /\ ~Away(Fr(t))
           /\ FirstOk(th[t], reg, lists) /\ Len(th[t]) = 1
           /\ Core(th[t], hnd, reg, lists, told, served)
           /\ th[t] \in Seq(FrameType) /\ th[t] # <<>> /\ Range(Fr(t).todo) \subseteq Names
<1>1. Fr(t).at \notin Outside
  BY DEF InPlaces, Outside
<1>2. Inner(t)
  BY <1>1, InnerAt DEF Acts
<1>3. /\ th[t] \in Seq(FrameType) /\ th[t] # <<>> /\ Fr(t) = Last(th[t])
      /\ Fr(t) \in FrameType /\ Fr(t) = th[t][Len(th[t])]
      /\ StackOk(th[t], t) /\ FrameFits(Fr(t))
      /\ Core(th[t], hnd, reg, lists, told, served)
  BY <1>2, Within DEF Now
<1>4. Len(th[t]) = 1 /\ DOMAIN th[t] = 1 .. Len(th[t])
  BY <1>3, Shape DEF FirstCalls
<1>5. Single(th[t], FirstCalls) /\ Fr(t) = th[t][1]
  BY <1>3, <1>4 DEF Single
<1>6. Settled(Fr(t)) /\ Inside(Fr(t)) /\ ~Away(Fr(t))
  BY <1>1 DEF Settled, Inside, Away, Acquiring, Api, FirstCalls, InPlaces
<1>7. FirstOk(th[t], reg, lists)
  BY <1>3 DEF Core, FirstOk
<1>8. Range(Fr(t).todo) \subseteq Names
  BY <1>3, <1>5, TodoNames
<1> QED
  BY <1>2, <1>3, <1>4, <1>5, <1>6, <1>7, <1>8

\* What has to be so where the call goes.
FirstFits(f, R, L) ==
  /\ f.at \in InPlaces \ {"locked"}
  /\ \A q \in Range(f.todo) : R[q].exists
  /\ f.call = "install" /\ f.at = "regions" => f.h \in Ids
  /\ f.call = "uninstall" /\ f.at = "regions" => f.h \in Range(L[f.dev])
  /\ f.call = "uninstall" /\ f.at \in {"regs", "end"} => f.h \in Ids /\ ~ListedIn(L, f.h)
  /\ f.call # "uninstall_node"

\* Then the first call fits at its new place.
LEMMA FirstMoved ==
    ASSUME NEW s, Single(s, FirstCalls), NEW u \in Seq(FrameType), NEW f, Topped(s, u, f),
           f.call = s[1].call, f.r = s[1].r, NEW R, NEW L, FirstOk(s, R, L),
           FirstFits(f, R, L)
    PROVE  FirstOk(u, R, L)
<1>1. Single(u, FirstCalls) /\ u[1] = f
  BY SingleTopped
<1>2. u # <<>> /\ s # <<>>
  BY <1>1 DEF Single
<1>3. InLockOf(u)
  BY <1>1, <1>2 DEF InLockOf, FirstFits, InPlaces, Outside
<1>4. TodoOk(u, R)
  BY <1>1 DEF TodoOk, FirstFits
<1>5. OwnLists(u, L)
  BY <1>1 DEF OwnLists, FirstFits
<1>6. ASSUME NEW r \in Names PROVE MakingOk(u, r, R[r]) /\ EndingOk(u, r, R[r])
  <2>1. MakingOk(s, r, R[r])
    BY DEF FirstOk, NodeOk
  <2>2. MakingOk(u, r, R[r])
    BY <1>1, <1>2, <2>1 DEF MakingOk, CallIn, FirstFits, InPlaces
  <2>3. EndingOk(u, r, R[r])
    BY <1>1 DEF EndingOk, CallIn, FirstFits
  <2> QED
    BY <2>2, <2>3
<1> QED
  BY <1>3, <1>4, <1>5, <1>6 DEF FirstOk, NodeOk

\* The call stays what it is; who removes a handler goes on to count for one.
SameFirst(e, f) ==
  /\ f \in FrameType /\ FrameFits(f) /\ f.call = e.call /\ f.r = e.r /\ f.unreg = e.unreg
  /\ f.at \in InPlaces
SameMark(e, f) ==
  f.call = "uninstall" =>
    \A h : f.h = h /\ f.at \in {"regs", "end"} <=> e.h = h /\ e.at \in {"regs", "end"}

\* ... and the call on top may go on there.
LEMMA FirstPlaces ==
    ASSUME NEW t, Acts(t), Fr(t).call \in FirstCalls, Fr(t).at \in InPlaces,
           NEW f, SameFirst(Fr(t), f), SameMark(Fr(t), f), FirstFits(f, reg, lists)
    PROVE  Placed(t, f)
<1>1. /\ Single(th[t], FirstCalls) /\ Fr(t) = th[t][1] /\ FirstOk(th[t], reg, lists)
  BY FirstAt
<1>2. f.call \notin {"region_uninstall", "io", "_REG"}
  BY DEF SameFirst, FirstCalls, Acquiring, Api
<1>3. Plain(Fr(t), f)
  BY <1>2 DEF Plain, SameFirst, SameMark
<1>4. Known(f, reg[f.r], served[f.r], CallIn(th[t], "initialize_node", f.r))
  BY <1>2 DEF Known
<1>5. \A v \in Seq(FrameType) : Topped(th[t], v, f) => FirstOk(v, reg, lists)
  BY <1>1, FirstMoved DEF SameFirst
<1> QED
  BY <1>3, <1>4, <1>5 DEF Placed

\* A first call goes on: the stack and the locks fit.
LEMMA FirstGoes ==
    ASSUME NEW t, Acts(t), Fr(t).call \in FirstCalls, Fr(t).at \in InPlaces,
           NEW f, SameFirst(Fr(t), f), Set(t, f), LockKept, ns' = ns
    PROVE  Goes(t, f) /\ th'[t] \in Seq(FrameType) /\ Topped(th[t], th'[t], f)
<1>1. /\ Inner(t) /\ Settled(Fr(t)) /\ Inside(Fr(t)) /\ ~Away(Fr(t))
      /\ OpTypes /\ t \in Threads /\ ~Idle(t)
  BY FirstAt DEF Acts, OpInv
<1>2. Topping(t, f)
  BY <1>1, SetTops DEF SameFirst
<1>3. SameCall(Fr(t), f)
  BY DEF SameFirst, SameCall, FirstCalls, Acquiring, Api
<1>4. f.call \in Acquiring /\ f.at \notin Outside
  BY DEF SameFirst, FirstCalls, InPlaces, Outside
<1>5. Settled(f) /\ Inside(f) /\ ~Away(f)
  BY <1>4 DEF SameFirst, Settled, Inside, Away, InPlaces
<1>6. Goes(t, f)
  BY <1>1, <1>2, <1>3, <1>5 DEF Goes, NsMoves, SameFirst
<1> QED
  BY <1>1, <1>6, GoesFits

\* The call goes on and changes nothing else.
LEMMA FirstOn ==
    ASSUME NEW t, Acts(t), Fr(t).call \in FirstCalls, Fr(t).at \in InPlaces,
           NEW f, SameFirst(Fr(t), f), SameMark(Fr(t), f), FirstFits(f, reg, lists),
           Set(t, f), LockKept, ns' = ns, Still
    PROVE  OpInv'
<1>1. Inner(t) /\ IInv'
  BY FirstAt DEF Acts
<1> QED
  BY <1>1, FirstPlaces, FirstGoes, PlacedOn

\* A move within the call.
LEMMA FirstMoves ==
    ASSUME NEW t, Acts(t), Fr(t).call \in FirstCalls, Fr(t).at \in InPlaces,
           NEW a \in InPlaces \cap PlacesOf[Fr(t).call], a \notin {"locked", "regs"},
           NEW f, f = At(Fr(t), a)
    PROVE  /\ SameFirst(Fr(t), f) /\ f.at = a /\ f.todo = Fr(t).todo /\ f.h = Fr(t).h
           /\ f.dev = Fr(t).dev /\ f.call = Fr(t).call /\ f.r = Fr(t).r
           /\ Move(t, a) => Set(t, f)
<1>1. Fr(t) \in FrameType /\ FrameFits(Fr(t))
  BY FirstAt
<1>2. /\ f \in FrameType /\ FrameFits(f) /\ f.at = a /\ SameCall(Fr(t), f)
      /\ f.call = Fr(t).call /\ f.r = Fr(t).r /\ f.todo = Fr(t).todo /\ f.h = Fr(t).h
      /\ f.dev = Fr(t).dev /\ f.unreg = Fr(t).unreg
  BY <1>1, MovedFrame DEF InPlaces
<1> QED
  BY <1>2 DEF SameFirst, Move, At

\* What is to be visited is there; nothing is when the call has the lock.
LEMMA NothingTodo ==
    ASSUME NEW t, Acts(t), Fr(t).call \in FirstCalls, Fr(t).at \in InPlaces
    PROVE  /\ \A q \in Range(Fr(t).todo) : reg[q].exists
           /\ Fr(t).at = "locked" => Fr(t).todo = <<>> /\ Range(Fr(t).todo) = {}
<1>1. FirstOk(th[t], reg, lists) /\ Fr(t) = th[t][1] /\ FrameFits(Fr(t))
  BY FirstAt
<1> QED
  BY <1>1, NoRange DEF FirstOk, TodoOk, FrameFits

-----------------------------------------------------------------------------
(***************************************************************************)
(* The nodes that come and go, inside the lock.                            *)
(***************************************************************************)
\* A region gets a handler while its call goes on.
LEMMA LinkStep ==
    ASSUME NEW t, Acts(t), Fr(t).call \in {"install", "initialize_node"},
           Fr(t).at \in InPlaces, NEW f, SameFirst(Fr(t), f), FirstFits(f, reg, lists),
           Set(t, f), LockKept, ns' = ns, NEW r \in Names, NEW h \in Ids,
           reg[r].handler = NoHandler,
           reg[r].exists \/ CallIn(th[t], "initialize_node", r),
           f.call = "initialize_node" => f.at \in {"connect", "leave"},
           hnd' = Linked(hnd, r, h), reg' = Handled(reg, r, h),
           lists' = lists, told' = told, served' = served
    PROVE  OpInv'
<1> DEFINE e == Fr(t)
<1>1. e.call \in FirstCalls /\ e.call # "uninstall"
  BY DEF FirstCalls, Acquiring, Api
<1>2. /\ Inner(t) /\ Single(th[t], FirstCalls) /\ e = th[t][1]
      /\ FirstOk(th[t], reg, lists) /\ th[t] \in Seq(FrameType) /\ th[t] # <<>>
  BY <1>1, FirstAt
<1>3. t \in Threads /\ IInv' /\ DataOk
  BY DataTypes DEF Acts, OpInv
<1>4. f.call = e.call /\ f.r = e.r /\ SameMark(e, f)
  BY <1>1 DEF SameFirst, SameMark
<1>5. Placed(t, f)
  BY <1>1, <1>4, FirstPlaces
<1>6. Goes(t, f) /\ th'[t] \in Seq(FrameType) /\ Topped(th[t], th'[t], f)
  BY <1>1, FirstGoes
<1>7. Core(th'[t], hnd, reg, lists, told, served) /\ Stays(th[t], th'[t])
  BY <1>2, <1>5, <1>6, PlacedCore
<1>8. Single(th'[t], {"install", "initialize_node"}) /\ th'[t][1] = f
  <2> DEFINE linking == {"install", "initialize_node"}
  <2>1. Single(th[t], linking)
    BY <1>2 DEF Single
  <2>2. f.call = th[t][1].call /\ f.r = th[t][1].r
    BY <1>2, <1>4
  <2> HIDE DEF linking
  <2>3. Single(th'[t], linking) /\ th'[t][1] = f
    BY <1>6, <2>1, <2>2, SingleTopped
  <2> QED
    BY <2>3 DEF linking
<1>9. reg[r].exists \/ CallIn(th'[t], "initialize_node", r)
  BY <1>2, <1>4, <1>8 DEF CallIn, Single
<1>10. /\ Core(th'[t], hnd', reg', lists, told, served) /\ Moved(th'[t], reg, reg')
       /\ hnd' \in [Ids -> HandlerType]
  <2>1. hnd \in [Ids -> HandlerType] /\ reg \in RegType
    BY <1>3 DEF DataOk
  <2>2. th'[t][1].call = "initialize_node" => th'[t][1].at \in {"connect", "leave"}
    BY <1>8
  <2>3. ASSUME NEW H2, H2 = Linked(hnd, r, h), NEW R2, R2 = Handled(reg, r, h)
        PROVE  Core(th'[t], H2, R2, lists, told, served) /\ Moved(th'[t], reg, R2)
               /\ H2 \in [Ids -> HandlerType]
    BY <1>7, <1>8, <1>9, <2>1, <2>2, <2>3, CoreLink
  <2> QED
    BY <2>3
<1>11. Moved(th[t], reg, reg')
  BY <1>2, <1>7, <1>10 DEF Moved, CallIn, Stays
<1>12. DataOk'
  <2>1. reg' \in RegType
    BY <1>3 DEF DataOk, RegType, Handled
  <2> QED
    BY <1>3, <1>10, <2>1 DEF DataOk
<1>13. Carries(t)
  BY <1>7, <1>10, <1>11, <1>12 DEF Carries, Then
<1> QED
  BY <1>2, <1>3, <1>6, <1>13, InnerGoes

\* A new node gets the handler that was found for it.
LEMMA MakeLinks ==
    ASSUME NEW t, Acts(t), AtFrame(t, "initialize_node", "locked"),
           NEW r \in Names, r = Fr(t).r, NEW h \in Ids,
           NEW a \in {"connect", "leave"}, Move(t, a), LockKept, ns' = ns,
           hnd' = Linked(hnd, r, h), reg' = Handled(reg, r, h),
           lists' = lists, told' = told, served' = served
    PROVE  OpInv'
<1> DEFINE e == Fr(t)
           f == At(Fr(t), a)
<1>1. /\ e.call = "initialize_node" /\ e.at = "locked" /\ e.call \in FirstCalls
      /\ e.at \in InPlaces /\ a \in InPlaces \cap PlacesOf[e.call]
  BY PlacesAre DEF AtFrame, FirstCalls, Acquiring, InPlaces
<1>2. /\ e = th[t][1] /\ FirstOk(th[t], reg, lists) /\ th[t] # <<>>
  BY <1>1, FirstAt
<1>3. SameFirst(e, f) /\ f.at = a /\ f.todo = e.todo /\ f.call = "initialize_node"
      /\ Set(t, f)
  BY <1>1, FirstMoves
<1>4. FirstFits(f, reg, lists)
  BY <1>1, <1>3, NothingTodo DEF FirstFits, InPlaces
<1> HIDE DEF f
<1>5. reg[r].handler = NoHandler /\ CallIn(th[t], "initialize_node", r)
  <2>1. CallIn(th[t], "initialize_node", r) /\ th[t][1].at = "locked"
    BY <1>1, <1>2 DEF CallIn
  <2>2. MakingOk(th[t], r, reg[r])
    BY <1>2 DEF FirstOk, NodeOk
  <2> QED
    BY <2>1, <2>2 DEF MakingOk
<1> QED
  BY <1>1, <1>3, <1>4, <1>5, LinkStep

\* The call goes on at a and calls g.
LEMMA FirstPushes ==
    ASSUME NEW t, Acts(t), Fr(t).call \in FirstCalls, Fr(t).at \in InPlaces,
           NEW f, SameFirst(Fr(t), f), NEW g \in FrameType, FrameFits(g), g.at = "start",
           g.call \in RegionCalls, MayCall(f, g), PushesTo(t, f, g), LockKept, ns' = ns
    PROVE  Calls(t, f, g)
<1>1. /\ Settled(Fr(t)) /\ Inside(Fr(t)) /\ ~Away(Fr(t)) /\ Len(th[t]) = 1
      /\ OpTypes /\ t \in Threads /\ ~Idle(t)
  BY FirstAt DEF Acts, OpInv
<1>2. SameCall(Fr(t), f)
  BY DEF SameFirst, SameCall, FirstCalls, Acquiring, Api
<1>3. Pushing(t, f, g)
  BY <1>1, CallPushes DEF SameFirst
<1> QED
  BY <1>1, <1>2, <1>3 DEF Calls, SameFirst

\* The new node's _REG is called.
LEMMA MakeConnects ==
    ASSUME NEW t, Acts(t), AtFrame(t, "initialize_node", "connect"),
           uacpi_initialize_opregion_node(t)
    PROVE  OpInv'
<1> DEFINE e == Fr(t)
           r == e.r
           f == At(Fr(t), "leave")
           g == RegCall(r, "connect")
           v == Regions[r].dev \in HasReg
<1>1. /\ e.call = "initialize_node" /\ e.at = "connect" /\ e.call \in FirstCalls
      /\ e.at \in InPlaces /\ "leave" \in InPlaces \cap PlacesOf[e.call]
  BY PlacesAre DEF AtFrame, FirstCalls, Acquiring, InPlaces
<1>2. /\ LockKept /\ lists' = lists /\ hnd' = hnd /\ told' = told /\ served' = served
      /\ ns' = ns /\ reg' = Regged(reg, r, v) /\ PushesTo(t, f, g)
  BY <1>1
  DEF uacpi_initialize_opregion_node, vars, LockKept, AtFrame, Regged, Call, At, RegCall,
      PushesTo
<1>3. /\ Inner(t) /\ Single(th[t], FirstCalls) /\ e = th[t][1] /\ FrameFits(e)
  BY <1>1, FirstAt
<1>4. IInv' /\ r \in Names
  BY <1>1, <1>3 DEF Acts, FrameFits, Api
<1>5. SameFirst(e, f) /\ f.at = "leave" /\ f.todo = e.todo /\ f.call = "initialize_node"
      /\ f.r = r
  BY <1>1, FirstMoves
<1>6. FirstFits(f, reg, lists) /\ SameMark(e, f)
  BY <1>1, <1>5, NothingTodo DEF FirstFits, InPlaces, SameMark
<1> HIDE DEF f, g, v
<1>7. Placed(t, f)
  BY <1>1, <1>5, <1>6, FirstPlaces
<1>8. /\ g \in FrameType /\ FrameFits(g) /\ g.call = "_REG" /\ g.at = "start"
      /\ g.r = r /\ g.code = "connect"
  BY <1>4, NewRegCall DEF g
<1>9. Calls(t, f, g)
  <2>1. MayCall(f, g)
    BY <1>5, <1>8 DEF MayCall
  <2> QED
    BY <1>1, <1>2, <1>5, <1>8, <2>1, FirstPushes DEF RegionCalls
<1>10. /\ CallIn(th[t], "initialize_node", r)
       /\ \A k \in DOMAIN th[t] : th[t][k].call # "_REG"
  BY <1>1, <1>3 DEF Single, CallIn
<1>11. v \in BOOLEAN /\ r = g.r /\ f.call # "_REG"
       /\ (v <=> g.code = "connect" /\ Regions[r].dev \in HasReg)
  BY <1>5, <1>8 DEF v
<1> HIDE DEF e, r
<1> QED
  BY <1>2, <1>3, <1>4, <1>7, <1>8, <1>9, <1>10, <1>11, CallsReg

\* uacpi_initialize_opregion_node inside the lock preserves the invariant.
LEMMA MakeStep ==
    ASSUME NEW t, Acts(t), uacpi_initialize_opregion_node(t),
           Fr(t).at \in {"locked", "connect"}
    PROVE  OpInv'
<1> DEFINE e == Fr(t)
           r == e.r
           h == Nearest(Regions[r].dev, Regions[r].space)
<1>1. CASE e.at = "connect"
  <2>1. AtFrame(t, "initialize_node", "connect")
    BY <1>1 DEF uacpi_initialize_opregion_node, AtFrame
  <2> QED
    BY <2>1, MakeConnects
<1>2. CASE e.at = "locked"
  <2>1. /\ AtFrame(t, "initialize_node", "locked") /\ LockKept /\ ns' = ns
        /\ lists' = lists /\ told' = told /\ served' = served
        /\ IF h = NoHandler THEN Move(t, "leave") /\ reg' = reg /\ hnd' = hnd
           ELSE /\ hnd' = Linked(hnd, r, h) /\ reg' = Handled(reg, r, h)
                /\ Move(t, IF Regions[r].space \in needs_reg /\ loaded
                           THEN "connect" ELSE "leave")
    BY <1>2 DEF uacpi_initialize_opregion_node, AtFrame, vars, LockKept, Handled
  <2>2. /\ e.call = "initialize_node" /\ e.at = "locked" /\ e.call \in FirstCalls
        /\ e.at \in InPlaces /\ "leave" \in InPlaces \cap PlacesOf[e.call]
    BY <2>1, PlacesAre DEF AtFrame, FirstCalls, Acquiring, InPlaces
  <2>3. r \in Names /\ OpTypes
    BY <2>2, FirstAt DEF FrameFits, Api, Acts, OpInv
  <2>4. h \in Ids \cup {NoHandler}
    BY <2>3, NearestSound
  <2> HIDE DEF h
  <2>5. CASE h = NoHandler
    <3> DEFINE f == At(Fr(t), "leave")
    <3>1. SameFirst(e, f) /\ f.at = "leave" /\ f.todo = e.todo /\ f.call = "initialize_node"
          /\ Set(t, f)
      BY <2>1, <2>2, <2>5, FirstMoves
    <3>2. FirstFits(f, reg, lists) /\ SameMark(e, f)
      BY <2>2, <3>1, NothingTodo DEF FirstFits, InPlaces, SameMark
    <3>3. Still
      BY <2>1, <2>5 DEF Still
    <3> HIDE DEF f
    <3> QED
      BY <2>1, <2>2, <3>1, <3>2, <3>3, FirstOn
  <2>6. CASE h # NoHandler
    <3> DEFINE a == IF Regions[r].space \in needs_reg /\ loaded THEN "connect" ELSE "leave"
    <3>1. a \in {"connect", "leave"} /\ Move(t, a) /\ h \in Ids
          /\ hnd' = Linked(hnd, r, h) /\ reg' = Handled(reg, r, h)
      BY <2>1, <2>4, <2>6
    <3> HIDE DEF a
    <3> QED
      BY <2>1, <2>3, <3>1, MakeLinks
  <2> QED
    BY <2>5, <2>6
<1> QED
  BY <1>1, <1>2

\* uacpi_opregion_uninstall_handler of a node that goes away.
LEMMA EndUninstalls ==
    ASSUME NEW t, Acts(t), AtFrame(t, "uninstall_node", "locked"),
           uacpi_opregion_uninstall_handler(t)
    PROVE  OpInv'
<1> DEFINE e == Fr(t)
           r == e.r
           f == At(Fr(t), "leave")
           g == EndCall(r)
<1>1. /\ e.call = "uninstall_node" /\ e.at = "locked" /\ e.call \in FirstCalls
      /\ e.at \in InPlaces /\ "leave" \in InPlaces \cap PlacesOf[e.call]
  BY PlacesAre DEF AtFrame, FirstCalls, Acquiring, InPlaces
<1>2. LockKept /\ Still /\ ns' = ns /\ PushesTo(t, f, g)
  BY <1>1
  DEF uacpi_opregion_uninstall_handler, vars, LockKept, AtFrame, Still, Call, At, EndCall,
      PushesTo
<1>3. /\ Inner(t) /\ Single(th[t], FirstCalls) /\ e = th[t][1] /\ FrameFits(e)
      /\ Core(th[t], hnd, reg, lists, told, served) /\ FirstOk(th[t], reg, lists)
      /\ th[t] \in Seq(FrameType) /\ th[t] # <<>> /\ Len(th[t]) = 1
  BY <1>1, FirstAt
<1>4. IInv' /\ r \in Names /\ DataOk /\ t \in Threads
  BY <1>1, <1>3, DataTypes DEF Acts, FrameFits, Api, OpInv
<1>5. SameFirst(e, f) /\ f.at = "leave" /\ f.todo = e.todo /\ f.call = "uninstall_node"
      /\ f.r = r
  BY <1>1, FirstMoves
<1>6. Range(f.todo) = {}
  BY <1>1, <1>5, NothingTodo
<1> HIDE DEF f, g
<1>7. /\ g \in FrameType /\ FrameFits(g) /\ g.call = "region_uninstall" /\ g.at = "start"
      /\ g.r = r /\ g.unreg
  BY <1>4, NewEndCall DEF g
<1>8. Calls(t, f, g)
  <2>1. MayCall(f, g)
    BY <1>5, <1>7 DEF MayCall
  <2> QED
    BY <1>1, <1>2, <1>5, <1>7, <2>1, FirstPushes DEF RegionCalls
<1> DEFINE u == th'[t]
<1>9. u \in Seq(FrameType) /\ Pushed(th[t], u, f, g)
  BY <1>3, <1>8, CallsSplit DEF Calls, Pushing
<1>10. /\ Len(u) = 2 /\ u[1] = f /\ u[2] = g /\ u # <<>> /\ DOMAIN u = 1 .. 2
  BY <1>3, <1>9 DEF Pushed
<1> HIDE DEF u
<1>11. Uninstalling(u)
  BY <1>4, <1>5, <1>7, <1>9, <1>10 DEF Uninstalling
<1>12. InLockOf(u) /\ TodoOk(u, reg) /\ OwnLists(u, lists)
  BY <1>5, <1>6, <1>10 DEF InLockOf, TodoOk, OwnLists, Outside
<1>13. ASSUME NEW q \in Names PROVE MakingOk(u, q, reg[q]) /\ EndingOk(u, q, reg[q])
  <2>1. EndingOk(th[t], q, reg[q])
    BY <1>3 DEF FirstOk, NodeOk
  <2>2. CallIn(u, "uninstall_node", q) => CallIn(th[t], "uninstall_node", q)
    BY <1>1, <1>3, <1>5, <1>10 DEF CallIn
  <2>3. EndingOk(u, q, reg[q])
    BY <1>10, <2>1, <2>2 DEF EndingOk
  <2>4. MakingOk(u, q, reg[q])
    BY <1>5, <1>10 DEF MakingOk, CallIn
  <2> QED
    BY <2>3, <2>4
<1>14. FirstOk(u, reg, lists)
  BY <1>12, <1>13 DEF FirstOk, NodeOk
<1>15. SameMarks(th[t], u)
  <2>1. Single(th[t], Acquiring \ {"io"})
    BY <1>3 DEF FirstCalls
  <2>2. \A q : ~LeavingIn(th[t], q) /\ ~MovingIn(th[t], q) /\ ~TellingIn(th[t], q)
    BY <2>1, SingleView
  <2>3. \A q : ~LeavingIn(u, q) /\ ~MovingIn(u, q) /\ ~TellingIn(u, q)
    BY <1>7, <1>10, <1>11, UninstallView DEF Undone
  <2>4. \A h : ~LetGoIn(u, h) /\ ~LetGoIn(th[t], h)
    BY <1>1, <1>3, <1>5, <1>10 DEF LetGoIn
  <2> QED
    BY <2>2, <2>3, <2>4 DEF SameMarks
<1>16. OwnKnown(u, reg, served)
  <2>1. \A x, y, z : Known(g, x, y, z)
    BY <1>7 DEF Known
  <2> QED
    BY <1>10, <1>11, <2>1, UninstallView
<1>17. Core(u, hnd, reg, lists, told, served)
  BY <1>3, <1>14, <1>15, <1>16, CoreSame
<1>18. Stays(th[t], u)
  BY <1>1, <1>3, <1>5, <1>10, <1>12 DEF Stays
<1>19. Carries(t)
  <2>1. DataOk'
    BY <1>2, <1>4 DEF DataOk, Still
  <2> QED
    BY <1>2, <1>17, <1>18, <2>1, MovedNot DEF Carries, Then, Still, u
<1> HIDE DEF e, r
<1> QED
  BY <1>3, <1>4, <1>8, <1>19, InnerCalls

-----------------------------------------------------------------------------
(***************************************************************************)
(* The calls of the users, inside the lock.                                *)
(***************************************************************************)
ToRegs(e, code, todo) == [e EXCEPT !.at = "regs", !.code = code, !.todo = todo]
ToRegions(e, h, todo) == [e EXCEPT !.at = "regions", !.h = h, !.todo = todo]
Onward(e) == [e EXCEPT !.todo = Tail(@)]

\* A call starts to tell firmware of the regions in todo.
LEMMA ToRegsFrame ==
    ASSUME NEW e \in FrameType, FrameFits(e), e.call \in Api,
           NEW code \in {"connect", "disconnect"}, NEW todo \in Seq(Names),
           NEW f, f = ToRegs(e, code, todo)
    PROVE  /\ SameFirst(e, f) /\ f.at = "regs" /\ f.todo = todo /\ f.h = e.h
           /\ f.dev = e.dev /\ f.call = e.call /\ f.r = e.r
<1>1. /\ f.at = "regs" /\ f.code = code /\ f.todo = todo /\ f.h = e.h
      /\ f.dev = e.dev /\ f.call = e.call /\ f.r = e.r /\ f.unreg = e.unreg
  BY DEF ToRegs, FrameType
<1>2. "regs" \in PlacesOf[e.call] /\ e.call \in DOMAIN PlacesOf
  BY PlacesAre DEF Api
<1>3. "regs" \in UNION {PlacesOf[c] : c \in DOMAIN PlacesOf}
  BY <1>2
<1>4. f \in FrameType
  BY <1>3 DEF ToRegs, FrameType
<1>5. FrameFits(f)
  BY <1>1, <1>2 DEF FrameFits
<1> QED
  BY <1>1, <1>4, <1>5 DEF SameFirst, InPlaces

\* A call starts to visit the regions in todo.
LEMMA ToRegionsFrame ==
    ASSUME NEW e \in FrameType, FrameFits(e), e.call \in {"install", "uninstall"},
           NEW h \in Ids, NEW todo \in Seq(Names), NEW f, f = ToRegions(e, h, todo)
    PROVE  /\ SameFirst(e, f) /\ f.at = "regions" /\ f.todo = todo /\ f.h = h
           /\ f.dev = e.dev /\ f.call = e.call /\ f.r = e.r
<1>1. /\ f.at = "regions" /\ f.todo = todo /\ f.h = h /\ f.code = e.code
      /\ f.dev = e.dev /\ f.call = e.call /\ f.r = e.r /\ f.unreg = e.unreg
  BY DEF ToRegions, FrameType
<1>2. "regions" \in PlacesOf[e.call] /\ e.call \in DOMAIN PlacesOf
  BY PlacesAre
<1>3. "regions" \in UNION {PlacesOf[c] : c \in DOMAIN PlacesOf}
  BY <1>2
<1>4. f \in FrameType
  BY <1>3 DEF ToRegions, FrameType
<1>5. FrameFits(f)
  BY <1>1, <1>2 DEF FrameFits
<1> QED
  BY <1>1, <1>4, <1>5 DEF SameFirst, InPlaces

\* A call goes on to its next region.
LEMMA OnwardFrame ==
    ASSUME NEW e \in FrameType, FrameFits(e), e.at \in {"regions", "regs"},
           e.todo # <<>>, NEW f, f = Onward(e)
    PROVE  /\ SameFirst(e, f) /\ f.at = e.at /\ f.h = e.h /\ f.dev = e.dev
           /\ f.call = e.call /\ f.r = e.r /\ f.code = e.code
           /\ Range(f.todo) \subseteq Range(e.todo)
           /\ Head(e.todo) \in Range(e.todo) /\ Head(e.todo) \in Names
<1>1. e.todo \in Seq(Names)
  BY DEF FrameType
<1>2. /\ Head(e.todo) \in Range(e.todo) /\ Head(e.todo) \in Names
      /\ Tail(e.todo) \in Seq(Names) /\ Range(Tail(e.todo)) \subseteq Range(e.todo)
  BY <1>1, TailSeq
<1>3. f = [e EXCEPT !.todo = Tail(e.todo)]
  BY DEF Onward, FrameType
<1>4. /\ f.at = e.at /\ f.h = e.h /\ f.dev = e.dev /\ f.unreg = e.unreg
      /\ f.call = e.call /\ f.r = e.r /\ f.code = e.code /\ f.todo = Tail(e.todo)
      /\ f \in FrameType
  BY <1>2, <1>3 DEF FrameType
<1>5. FrameFits(f)
  BY <1>4 DEF FrameFits
<1> QED
  BY <1>2, <1>4, <1>5 DEF SameFirst, InPlaces

\* A call of a user, at a place inside the lock.
LEMMA ApiAt ==
    ASSUME NEW t, Acts(t), Fr(t).call \in Api, Fr(t).at \in InPlaces
    PROVE  /\ Fr(t).call \in FirstCalls /\ Fr(t) \in FrameType /\ FrameFits(Fr(t))
           /\ Fr(t).dev \in Range(Devices) /\ Inner(t)
           /\ \A q \in Range(Fr(t).todo) : reg[q].exists
           /\ Fr(t).call = "install" /\ Fr(t).at = "regions" => Fr(t).h \in Ids
           /\ Fr(t).call = "uninstall" /\ Fr(t).at = "regions" =>
                Fr(t).h \in Range(lists[Fr(t).dev]) /\ Fr(t).h \in Ids
           /\ Fr(t).call = "uninstall" /\ Fr(t).at \in {"regs", "end"} =>
                Fr(t).h \in Ids /\ ~ListedIn(lists, Fr(t).h)
<1>1. Fr(t).call \in FirstCalls
  BY DEF FirstCalls, Acquiring, Api
<1>2. Fr(t) \in FrameType /\ FrameFits(Fr(t)) /\ FirstOk(th[t], reg, lists) /\ Fr(t) = th[t][1]
      /\ Inner(t)
  BY <1>1, FirstAt
<1>3. Fr(t).dev \in Range(Devices)
  BY <1>2 DEF FrameFits
<1>4. /\ Fr(t).call = "install" /\ Fr(t).at = "regions" => Fr(t).h \in Ids
      /\ Fr(t).call = "uninstall" /\ Fr(t).at = "regions" => Fr(t).h \in Range(lists[Fr(t).dev])
      /\ Fr(t).call = "uninstall" /\ Fr(t).at \in {"regs", "end"} =>
           Fr(t).h \in Ids /\ ~ListedIn(lists, Fr(t).h)
  BY <1>2 DEF FirstOk, OwnLists
<1>5. Range(lists[Fr(t).dev]) \subseteq Ids
  <2>1. lists[Fr(t).dev] \in Seq(Ids)
    BY <1>3 DEF Acts, OpInv, OpTypes
  <2> QED
    BY <2>1 DEF Range
<1> QED
  BY <1>1, <1>2, <1>3, <1>4, <1>5, NothingTodo

\* On to a place where there is nothing more to know.
LEMMA ApiLeaves ==
    ASSUME NEW t, Acts(t), Fr(t).call \in Api, Fr(t).at \in InPlaces,
           NEW a \in {"leave", "end"},
           a = "end" => Fr(t).call # "uninstall" \/ Fr(t).at = "regs",
           a = "leave" => Fr(t).call # "uninstall" \/ Fr(t).at = "locked",
           Move(t, a), LockKept, ns' = ns, Still
    PROVE  OpInv'
<1> DEFINE e == Fr(t)
           f == At(Fr(t), a)
<1>1. e.call \in FirstCalls /\ a \in InPlaces \cap PlacesOf[e.call] /\ a \notin {"locked", "regs"}
  BY ApiAt, PlacesAre DEF Api, InPlaces
<1>2. /\ SameFirst(e, f) /\ f.at = a /\ f.todo = e.todo /\ f.h = e.h /\ f.dev = e.dev
      /\ f.call = e.call /\ Set(t, f)
  BY <1>1, FirstMoves
<1> HIDE DEF f
<1>3. FirstFits(f, reg, lists)
  BY <1>1, <1>2, ApiAt DEF FirstFits, Api
<1>4. SameMark(e, f)
  BY <1>2 DEF SameMark
<1> QED
  BY <1>1, <1>2, <1>3, <1>4, FirstOn

\* The next region of the iteration is told of, or there is none.
LEMMA RunRegStep ==
    ASSUME NEW t, Acts(t), RunReg(t)
    PROVE  OpInv'
<1> DEFINE e == Fr(t)
           f == Onward(e)
<1>1. /\ LockKept /\ lists' = lists /\ hnd' = hnd /\ told' = told /\ served' = served
      /\ ns' = ns /\ e.at = "regs" /\ e.at \in InPlaces
  BY DEF RunReg, vars, LockKept, InPlaces
<1>2. e.call \in Api
  <2>1. Ready(t)
    BY DEF Acts, Ready, OpInv, Unlocked
  <2>2. e \in FrameType /\ FrameFits(e)
    BY <2>1, ReadyStack
  <2> QED
    BY <1>1, <2>2, PlacesAre DEF FrameType, FrameFits, Api, Outside
<1>3. /\ e.call \in FirstCalls /\ e \in FrameType /\ FrameFits(e) /\ Inner(t)
      /\ \A q \in Range(e.todo) : reg[q].exists
      /\ e.call = "uninstall" => e.h \in Ids /\ ~ListedIn(lists, e.h)
  BY <1>1, <1>2, ApiAt
<1>4. e.code \in {"connect", "disconnect"}
  BY <1>1, <1>3 DEF FrameFits, FrameType
<1>5. IInv'
  BY DEF Acts
<1>6. CASE e.todo = <<>>
  <2>1. Move(t, "end") /\ reg' = reg
    BY <1>6 DEF RunReg
  <2>2. Still
    BY <1>1, <2>1 DEF Still
  <2> QED
    BY <1>1, <1>2, <2>1, <2>2, ApiLeaves
<1>7. CASE e.todo # <<>>
  <2> DEFINE r == Head(e.todo)
             g == RegCall(r, f.code)
             v == e.code = "connect" /\ Regions[r].dev \in HasReg
  <2>1. \/ Set(t, f) /\ reg' = reg
        \/ PushesTo(t, f, g) /\ reg' = Regged(reg, r, v)
    <3>1. f.code = e.code
      BY <1>3 DEF Onward, FrameType
    <3> QED
      BY <1>7, <3>1 DEF RunReg, Onward, PushesTo, RegCall, Regged
  <2> HIDE DEF f
  <2>2. /\ SameFirst(e, f) /\ f.at = "regs" /\ f.h = e.h /\ f.dev = e.dev
        /\ f.call = e.call /\ f.r = e.r /\ f.code = e.code
        /\ Range(f.todo) \subseteq Range(e.todo) /\ r \in Range(e.todo) /\ r \in Names
    BY <1>1, <1>3, <1>7, OnwardFrame DEF f
  <2>3. FirstFits(f, reg, lists)
    BY <1>1, <1>2, <1>3, <2>2 DEF FirstFits, InPlaces, Api
  <2>4. SameMark(e, f)
    BY <1>1, <2>2 DEF SameMark
  <2>5. Placed(t, f)
    BY <1>1, <1>3, <2>2, <2>3, <2>4, FirstPlaces
  <2>6. CASE Set(t, f) /\ reg' = reg
    <3>1. Still
      BY <1>1, <2>6 DEF Still
    <3> QED
      BY <1>1, <1>3, <2>2, <2>3, <2>4, <2>6, <3>1, FirstOn
  <2>7. CASE PushesTo(t, f, g) /\ reg' = Regged(reg, r, v)
    <3> HIDE DEF g, r, v
    <3>1. /\ g \in FrameType /\ FrameFits(g) /\ g.call = "_REG" /\ g.at = "start"
          /\ g.r = r /\ g.code = e.code
      BY <1>4, <2>2, NewRegCall DEF g
    <3>2. MayCall(f, g)
      BY <1>2, <1>4, <2>2, <3>1 DEF MayCall
    <3>3. Calls(t, f, g)
      BY <1>1, <1>3, <2>2, <2>7, <3>1, <3>2, FirstPushes DEF RegionCalls
    <3>4. \A k \in DOMAIN th[t] : th[t][k].call # "_REG"
      <4>1. Single(th[t], FirstCalls)
        BY <1>1, <1>3, FirstAt
      <4> QED
        BY <4>1 DEF Single, FirstCalls, Acquiring, Api
    <3>5. v \in BOOLEAN /\ (v <=> g.code = "connect" /\ Regions[r].dev \in HasReg)
      BY <3>1 DEF v
    <3>6. reg[r].exists /\ f.call # "_REG" /\ r = g.r /\ r \in Names
      BY <1>2, <1>3, <2>2, <3>1 DEF Api
    <3> HIDE DEF e
    <3> QED
      BY <1>1, <1>3, <1>5, <2>5, <2>7, <3>1, <3>3, <3>4, <3>5, <3>6, CallsReg
  <2> QED
    BY <2>1, <2>6, <2>7
<1> QED
  BY <1>6, <1>7

\* What an iteration is to visit is there.
LEMMA VisitNow ==
    ASSUME NEW t, Acts(t), NEW d, NEW space, NEW temps, NEW stop,
           NEW s, s = Visit(d, space, temps, stop)
    PROVE  s \in Seq(Names) /\ \A q \in Range(s) : reg[q].exists
<1>1. OpTypes
  BY DEF Acts, OpInv
<1> QED
  BY <1>1, VisitSound

\* An iteration of _REG starts.
LEMMA ToRegsOn ==
    ASSUME NEW t, Acts(t), Fr(t).call \in {"install", "reg_all"}, Fr(t).at \in InPlaces,
           NEW code \in {"connect", "disconnect"}, NEW todo \in Seq(Names),
           \A q \in Range(todo) : reg[q].exists,
           NEW f, f = ToRegs(Fr(t), code, todo), Set(t, f), LockKept, ns' = ns, Still
    PROVE  OpInv'
<1> DEFINE e == Fr(t)
<1>1. e.call \in Api
  BY DEF Api
<1>2. e.call \in FirstCalls /\ e \in FrameType /\ FrameFits(e)
  BY <1>1, ApiAt
<1>3. /\ SameFirst(e, f) /\ f.at = "regs" /\ f.todo = todo /\ f.h = e.h
      /\ f.dev = e.dev /\ f.call = e.call /\ f.r = e.r
  BY <1>1, <1>2, ToRegsFrame
<1>4. FirstFits(f, reg, lists)
  BY <1>3 DEF FirstFits, InPlaces
<1>5. SameMark(e, f)
  BY <1>3 DEF SameMark
<1> QED
  BY <1>2, <1>3, <1>4, <1>5, FirstOn

\* uacpi_reg_all_opregions preserves the invariant.
LEMMA RegAllStep ==
    ASSUME NEW t, Acts(t), uacpi_reg_all_opregions(t)
    PROVE  OpInv'
<1> DEFINE e == Fr(t)
           s == Visit(e.dev, e.space, FALSE, FALSE)
           f == ToRegs(e, "connect", s)
<1>1. LockKept /\ ns' = ns /\ Still
  BY DEF uacpi_reg_all_opregions, vars, LockKept, Still
<1>2. e.call \in {"install", "reg_all"} /\ e.call \in Api /\ e.call = "reg_all"
      /\ e.at \in InPlaces
  BY DEF uacpi_reg_all_opregions, AtFrame, InPlaces, Api
<1>3. \/ Move(t, "leave")
      \/ Set(t, f)
  BY DEF uacpi_reg_all_opregions, ToRegs
<1>4. CASE Move(t, "leave")
  <2> DEFINE a == "leave"
  <2>1. a \in {"leave", "end"} /\ a = "leave" /\ e.call # "uninstall"
    BY <1>2
  <2> QED
    BY <1>1, <1>2, <1>4, <2>1, ApiLeaves
<1>5. CASE Set(t, f)
  <2>1. s \in Seq(Names) /\ \A q \in Range(s) : reg[q].exists
    BY VisitNow
  <2> HIDE DEF s
  <2> QED
    BY <1>1, <1>2, <1>5, <2>1, ToRegsOn
<1> QED
  BY <1>3, <1>4, <1>5

-----------------------------------------------------------------------------
(***************************************************************************)
(* uacpi_uninstall_address_space_handler.                                  *)
(***************************************************************************)
\* The regions have been visited, and the handler leaves its list.
LEMMA Delists ==
    ASSUME NEW t, Acts(t), AtFrame(t, "uninstall", "regions"), Fr(t).todo = <<>>,
           lists' = TakenOff(lists, Fr(t).dev, Fr(t).h),
           hnd' = hnd, reg' = reg, told' = told, served' = served, LockKept, ns' = ns,
           NEW f, SameFirst(Fr(t), f), f.at \in {"regs", "end"}, f.h = Fr(t).h,
           \A q \in Range(f.todo) : reg[q].exists, Set(t, f)
    PROVE  OpInv'
<1> DEFINE e == Fr(t)
           h == e.h
           d == e.dev
<1>1. e.call = "uninstall" /\ e.at = "regions" /\ e.call \in Api /\ e.at \in InPlaces
  BY DEF AtFrame, Api, InPlaces
<1>2. e.call \in FirstCalls /\ Inner(t) /\ d \in Range(Devices) /\ h \in Ids
  BY <1>1, ApiAt
<1>3. /\ Single(th[t], FirstCalls) /\ e = th[t][1]
      /\ Core(th[t], hnd, reg, lists, told, served)
  BY <1>1, <1>2, FirstAt
<1>4. Goes(t, f) /\ th'[t] \in Seq(FrameType) /\ Topped(th[t], th'[t], f)
  BY <1>1, <1>2, FirstGoes
<1>5. Single(th[t], {"uninstall"})
  BY <1>1, <1>3 DEF Single
<1>6. f.call = "uninstall" /\ f.r = th[t][1].r /\ h = th[t][1].h /\ d = th[t][1].dev
      /\ f.h = h /\ th[t][1].at = "regions"
  BY <1>1, <1>3 DEF SameFirst
<1>7. DataOk
  BY DataTypes DEF Acts, OpInv
<1>8. lists \in [Range(Devices) -> Seq(Ids)]
  BY <1>7 DEF DataOk
<1> HIDE DEF h, d, e
<1>9. lists' = TakenOff(lists, d, h)
  BY DEF e, h, d
<1>10. /\ Core(th'[t], hnd, reg, lists', told, served) /\ Stays(th[t], th'[t])
       /\ lists' \in [Range(Devices) -> Seq(Ids)]
  <2> DEFINE L2 == TakenOff(lists, d, h)
  <2>1. /\ Core(th'[t], hnd, reg, L2, told, served) /\ Stays(th[t], th'[t])
        /\ L2 \in [Range(Devices) -> Seq(Ids)]
    <3>1. ASSUME NEW Q, Q = TakenOff(lists, d, h)
          PROVE  /\ Core(th'[t], hnd, reg, Q, told, served) /\ Stays(th[t], th'[t])
                 /\ Q \in [Range(Devices) -> Seq(Ids)]
      <4>1. f.at \in {"regs", "end"} /\ \A q \in Range(f.todo) : reg[q].exists
        OBVIOUS
      <4>2. d \in Range(Devices)
        BY <1>2
      <4>3. Core(th[t], hnd, reg, lists, told, served)
        BY <1>3
      <4>4. th'[t] \in Seq(FrameType) /\ Topped(th[t], th'[t], f)
        BY <1>4
      <4> DEFINE unc == {"uninstall"}
      <4>5. Single(th[t], unc)
        BY <1>5
      <4> QED
        BY <1>6, <4>3, <4>4, <4>5, <1>8, <3>1, <4>1, <4>2, CoreDelist, SMTT(120)
    <3> QED
      BY <3>1
  <2> QED
    BY <1>9, <2>1
<1>11. DataOk'
  BY <1>7, <1>10 DEF DataOk
<1>12. Carries(t)
  BY <1>10, <1>11, MovedNot DEF Carries, Then
<1> QED
  BY <1>2, <1>4, <1>12, InnerGoes DEF Acts

\* The user lets go of the handler.
LEMMA LetsGo ==
    ASSUME NEW t, Acts(t), AtFrame(t, "uninstall", "end"), Move(t, "leave"),
           hnd' = Unref(hnd, Fr(t).h), lists' = lists,
           reg' = reg, told' = told, served' = served, LockKept, ns' = ns
    PROVE  OpInv'
<1> DEFINE e == Fr(t)
           h == e.h
           a == "leave"
           f == At(e, a)
<1>1. e.call = "uninstall" /\ e.at = "end" /\ e.call \in Api /\ e.at \in InPlaces
  BY DEF AtFrame, Api, InPlaces
<1>2. e.call \in FirstCalls /\ Inner(t) /\ h \in Ids
      /\ \A q \in Range(e.todo) : reg[q].exists
  BY <1>1, ApiAt
<1>3. /\ Single(th[t], FirstCalls) /\ e = th[t][1]
      /\ Core(th[t], hnd, reg, lists, told, served)
  BY <1>1, <1>2, FirstAt
<1>4. /\ SameFirst(e, f) /\ f.at = "leave" /\ f.todo = e.todo
      /\ f.call = e.call /\ f.r = e.r /\ Set(t, f)
  <2>1. a \in InPlaces \cap PlacesOf[e.call] /\ a \notin {"locked", "regs"}
    BY <1>1, PlacesAre DEF InPlaces
  <2> QED
    BY <1>1, <1>2, <2>1, FirstMoves
<1> HIDE DEF f
<1>5. Goes(t, f) /\ th'[t] \in Seq(FrameType) /\ Topped(th[t], th'[t], f)
  BY <1>1, <1>2, <1>4, FirstGoes
<1>6. Single(th[t], {"uninstall"})
  BY <1>1, <1>3 DEF Single
<1>7. f.call = "uninstall" /\ f.r = th[t][1].r /\ h = th[t][1].h
      /\ th[t][1].at = "end" /\ \A q \in Range(f.todo) : reg[q].exists
  BY <1>1, <1>2, <1>3, <1>4
<1>8. DataOk
  BY DataTypes DEF Acts, OpInv
<1>9. hnd \in [Ids -> HandlerType]
  BY <1>8 DEF DataOk
<1> HIDE DEF h, e
<1>10. hnd' = Unref(hnd, h)
  BY DEF e, h
<1>11. /\ Core(th'[t], hnd', reg, lists, told, served) /\ Stays(th[t], th'[t])
       /\ hnd' \in [Ids -> HandlerType]
  <2> DEFINE H2 == Unref(hnd, h)
  <2>1. /\ Core(th'[t], H2, reg, lists, told, served) /\ Stays(th[t], th'[t])
        /\ H2 \in [Ids -> HandlerType]
    BY <1>3, <1>4, <1>5, <1>6, <1>7, <1>9, CoreLetGo
  <2> QED
    BY <1>10, <2>1
<1>12. DataOk'
  BY <1>8, <1>11 DEF DataOk
<1>13. Carries(t)
  BY <1>11, <1>12, MovedNot DEF Carries, Then
<1> QED
  BY <1>2, <1>5, <1>13, InnerGoes DEF Acts

\* uacpi_uninstall_address_space_handler preserves the invariant.
LEMMA UninstallStep ==
    ASSUME NEW t, Acts(t), Uninstall(t)
    PROVE  OpInv'
<1> DEFINE e == Fr(t)
           h == find_handler(e.dev, e.space)
           s == Visit(e.dev, e.space, TRUE, TRUE)
           regs == Visit(e.dev, e.space, TRUE, FALSE)
<1>1. LockKept /\ ns' = ns /\ reg' = reg /\ told' = told /\ served' = served
  BY DEF Uninstall, vars, LockKept
<1>2. /\ e.call = "uninstall" /\ e.call \in Api /\ e.at \in InPlaces
      /\ e.at \in {"locked", "regions", "end"}
  BY DEF Uninstall, AtFrame, InPlaces, Api
<1>3. /\ e.call \in FirstCalls /\ e \in FrameType /\ FrameFits(e) /\ Inner(t)
      /\ e.dev \in Range(Devices) /\ \A q \in Range(e.todo) : reg[q].exists
      /\ e.at = "regions" => e.h \in Range(lists[e.dev]) /\ e.h \in Ids
  BY <1>2, ApiAt
<1>4. CASE e.at = "locked"
  <2>1. /\ lists' = lists /\ hnd' = hnd
        /\ \/ Move(t, "leave")
           \/ h # NoHandler /\ Set(t, ToRegions(e, h, s))
    BY <1>4 DEF Uninstall, AtFrame, ToRegions
  <2>2. Still
    BY <1>1, <2>1 DEF Still
  <2>3. CASE Move(t, "leave")
    <3> DEFINE a == "leave"
    <3>1. a \in {"leave", "end"} /\ a = "leave" /\ e.at = "locked" /\ Move(t, a)
      BY <1>4, <2>3
    <3> HIDE DEF a
    <3> QED
      BY <1>1, <1>2, <2>2, <3>1, ApiLeaves
  <2>4. CASE h # NoHandler /\ Set(t, ToRegions(e, h, s))
    <3>1. s \in Seq(Names) /\ \A q \in Range(s) : reg[q].exists
      BY VisitNow
    <3>2. h \in Ids /\ h \in Range(lists[e.dev])
      <4>1. OpTypes
        BY DEF Acts, OpInv
      <4> QED
        BY <1>3, <2>4, <4>1, FoundSound
    <3> HIDE DEF s, h
    <3> DEFINE f == ToRegions(e, h, s)
    <3>3. /\ SameFirst(e, f) /\ f.at = "regions" /\ f.todo = s /\ f.h = h
          /\ f.dev = e.dev /\ f.call = e.call /\ f.r = e.r /\ Set(t, f)
      BY <1>2, <1>3, <2>4, <3>1, <3>2, ToRegionsFrame
    <3> HIDE DEF f
    <3>4. FirstFits(f, reg, lists)
      BY <1>2, <3>1, <3>2, <3>3 DEF FirstFits, InPlaces
    <3>5. SameMark(e, f)
      BY <1>4, <3>3 DEF SameMark
    <3> QED
      BY <1>1, <1>2, <1>3, <2>2, <3>3, <3>4, <3>5, FirstOn
  <2> QED
    BY <2>1, <2>3, <2>4
<1>5. CASE e.at = "regions" /\ e.todo = <<>>
  <2>1. AtFrame(t, "uninstall", "regions")
    BY <1>2, <1>5 DEF Uninstall, AtFrame
  <2>2. /\ lists' = TakenOff(lists, e.dev, e.h) /\ hnd' = hnd
        /\ \/ Set(t, ToRegs(e, "disconnect", regs))
           \/ Move(t, "end")
    BY <1>5 DEF Uninstall, AtFrame, ToRegs, TakenOff
  <2>3. CASE Move(t, "end")
    <3> DEFINE f == At(e, "end")
    <3>1. /\ SameFirst(e, f) /\ f.at = "end" /\ f.todo = e.todo /\ f.h = e.h /\ Set(t, f)
      <4> DEFINE a == "end"
      <4>1. a \in InPlaces \cap PlacesOf[e.call] /\ a \notin {"locked", "regs"} /\ a = "end"
        BY <1>2, PlacesAre DEF InPlaces
      <4> QED
        BY <1>2, <1>3, <2>3, <4>1, FirstMoves
    <3> HIDE DEF f
    <3>2. f.at \in {"regs", "end"} /\ \A q \in Range(f.todo) : reg[q].exists
      BY <1>3, <3>1
    <3> QED
      BY <1>1, <1>5, <2>1, <2>2, <3>1, <3>2, Delists
  <2>4. CASE Set(t, ToRegs(e, "disconnect", regs))
    <3> DEFINE code == "disconnect"
               f == ToRegs(e, code, regs)
    <3>1. regs \in Seq(Names) /\ \A q \in Range(regs) : reg[q].exists
      BY VisitNow
    <3> HIDE DEF regs
    <3>2. /\ SameFirst(e, f) /\ f.at = "regs" /\ f.todo = regs /\ f.h = e.h
      BY <1>2, <1>3, <3>1, ToRegsFrame
    <3> HIDE DEF f
    <3>3. Set(t, f)
      BY <2>4 DEF f
    <3>4. f.at \in {"regs", "end"} /\ \A q \in Range(f.todo) : reg[q].exists
      BY <3>1, <3>2
    <3> QED
      BY <1>1, <1>5, <2>1, <2>2, <3>2, <3>3, <3>4, Delists
  <2> QED
    BY <2>2, <2>3, <2>4
<1>6. CASE e.at = "regions" /\ e.todo # <<>>
  <2> DEFINE r == Head(e.todo)
             f == Onward(e)
             g == Frame("region_uninstall", r)
  <2>1. /\ lists' = lists /\ hnd' = hnd
        /\ Set(t, f) \/ PushesTo(t, f, g)
    BY <1>6 DEF Uninstall, AtFrame, Onward, PushesTo
  <2>2. Still
    BY <1>1, <2>1 DEF Still
  <2> HIDE DEF f
  <2>3. /\ SameFirst(e, f) /\ f.at = e.at /\ f.h = e.h /\ f.dev = e.dev
        /\ f.call = e.call /\ f.r = e.r
        /\ Range(f.todo) \subseteq Range(e.todo) /\ r \in Names
    BY <1>3, <1>6, OnwardFrame DEF f
  <2>4. FirstFits(f, reg, lists)
    BY <1>2, <1>3, <1>6, <2>3 DEF FirstFits, InPlaces
  <2>5. SameMark(e, f)
    BY <1>6, <2>3 DEF SameMark
  <2>6. CASE Set(t, f)
    BY <1>1, <1>2, <1>3, <2>2, <2>3, <2>4, <2>5, <2>6, FirstOn
  <2>7. CASE PushesTo(t, f, g)
    <3> HIDE DEF r, g
    <3>1. /\ g \in FrameType /\ FrameFits(g) /\ g.call = "region_uninstall"
          /\ g.at = "start" /\ ~g.unreg
      BY <2>3, NewFrame DEF g
    <3>2. MayCall(f, g)
      BY <1>2, <1>6, <2>3, <3>1 DEF MayCall
    <3>3. Placed(t, f)
      BY <1>2, <1>3, <2>3, <2>4, <2>5, FirstPlaces
    <3>4. Calls(t, f, g)
      BY <1>1, <1>2, <1>3, <2>3, <2>7, <3>1, <3>2, FirstPushes DEF RegionCalls
    <3>5. IInv' /\ g.call \in {"region_uninstall", "io"}
      BY <3>1 DEF Acts
    <3> QED
      BY <1>3, <2>2, <3>3, <3>4, <3>5, CallsCore
  <2> QED
    BY <2>1, <2>6, <2>7
<1>7. CASE e.at = "end"
  <2>1. /\ lists' = lists /\ hnd' = Unref(hnd, e.h) /\ Move(t, "leave")
        /\ AtFrame(t, "uninstall", "end")
    BY <1>7 DEF Uninstall, AtFrame
  <2> QED
    BY <1>1, <2>1, LetsGo
<1> QED
  BY <1>2, <1>4, <1>5, <1>6, <1>7

-----------------------------------------------------------------------------
(***************************************************************************)
(* uacpi_install_address_space_handler_with_flags.                         *)
(***************************************************************************)
FreeIds == {h \in Ids : hnd[h].refs = 0}
LeastFree == CHOOSE k \in FreeIds : \A j \in FreeIds : k <= j
\* The handler that is allocated was free.
LEMMA LeastIsFree ==
    ASSUME FreeIds # {}
    PROVE  LeastFree \in Ids /\ hnd[LeastFree].refs = 0
<1>1. FreeIds \in SUBSET Nat
  BY IdsAssumption DEF FreeIds
<1>2. \E k \in FreeIds : \A j \in FreeIds : k <= j
  BY <1>1, LeastIndex
<1>3. LeastFree \in FreeIds
  BY <1>2 DEF LeastFree
<1> QED
  BY <1>3 DEF FreeIds

\* The handler is allocated and put on the list of its device.
LEMMA Allocates ==
    ASSUME NEW t, Acts(t), AtFrame(t, "install", "locked"), NEW h \in Ids,
           hnd[h].refs = 0, NEW todo \in Seq(Names), \A q \in Range(todo) : reg[q].exists,
           hnd' = With(hnd, h, NewHandler(Fr(t).space)),
           lists' = PutOn(lists, Fr(t).dev, h),
           reg' = reg, told' = told, served' = served, LockKept, ns' = ns,
           Set(t, ToRegions(Fr(t), h, todo))
    PROVE  OpInv'
<1> DEFINE e == Fr(t)
           d == e.dev
           space == e.space
           f == ToRegions(e, h, todo)
<1>1. e.call = "install" /\ e.at = "locked" /\ e.call \in Api /\ e.at \in InPlaces
  BY DEF AtFrame, Api, InPlaces
<1>2. e.call \in FirstCalls /\ Inner(t) /\ d \in Range(Devices)
      /\ e \in FrameType /\ FrameFits(e)
  BY <1>1, ApiAt
<1>3. /\ Single(th[t], FirstCalls) /\ e = th[t][1]
      /\ Core(th[t], hnd, reg, lists, told, served)
  BY <1>1, <1>2, FirstAt
<1>4. /\ SameFirst(e, f) /\ f.at = "regions" /\ f.todo = todo /\ f.h = h
      /\ f.call = e.call /\ f.r = e.r /\ Set(t, f)
  BY <1>1, <1>2, ToRegionsFrame
<1>5. space \in Spaces
  BY <1>2 DEF FrameType
<1> HIDE DEF f
<1>6. Goes(t, f) /\ th'[t] \in Seq(FrameType) /\ Topped(th[t], th'[t], f)
  BY <1>1, <1>2, <1>4, FirstGoes
<1>7. Single(th[t], {"install"})
  BY <1>1, <1>3 DEF Single
<1>8. f.call = "install" /\ f.r = th[t][1].r /\ f.at = "regions" /\ f.h = h
      /\ \A q \in Range(f.todo) : reg[q].exists
  BY <1>1, <1>3, <1>4
<1>9. DataOk
  BY DataTypes DEF Acts, OpInv
<1>10. hnd \in [Ids -> HandlerType] /\ lists \in [Range(Devices) -> Seq(Ids)]
  BY <1>9 DEF DataOk
<1> HIDE DEF d, space, e
<1>11. hnd' = With(hnd, h, NewHandler(space)) /\ lists' = PutOn(lists, d, h)
  BY DEF e, d, space
<1>12. /\ Core(th'[t], hnd', reg, lists', told, served) /\ Stays(th[t], th'[t])
       /\ hnd' \in [Ids -> HandlerType] /\ lists' \in [Range(Devices) -> Seq(Ids)]
  <2>1. ASSUME NEW H2, H2 = With(hnd, h, NewHandler(space)),
               NEW L2, L2 = PutOn(lists, d, h)
        PROVE  /\ Core(th'[t], H2, reg, L2, told, served) /\ Stays(th[t], th'[t])
               /\ H2 \in [Ids -> HandlerType] /\ L2 \in [Range(Devices) -> Seq(Ids)]
    <3>1. Core(th[t], hnd, reg, lists, told, served)
      BY <1>3
    <3>2. th'[t] \in Seq(FrameType) /\ Topped(th[t], th'[t], f)
      BY <1>6
    <3>3. d \in Range(Devices) /\ hnd[h].refs = 0
      BY <1>2
    <3> QED
      <4>1. Allocating(th[t], th'[t], f, h, d, hnd, reg, lists, told, served, space)
        BY <1>5, <1>7, <1>8, <1>10, <3>1, <3>2, <3>3 DEF Allocating
      <4> QED
        BY <2>1, <4>1, CoreNew
  <2> QED
    BY <1>11, <2>1
<1>13. DataOk'
  BY <1>9, <1>12 DEF DataOk
<1>14. Carries(t)
  BY <1>12, <1>13, MovedNot DEF Carries, Then
<1> QED
  BY <1>2, <1>6, <1>14, InnerGoes DEF Acts

\* uacpi_install_address_space_handler_with_flags preserves the invariant.
LEMMA InstallStep ==
    ASSUME NEW t, Acts(t), Install(t)
    PROVE  OpInv'
<1> DEFINE e == Fr(t)
           s == Visit(e.dev, e.space, FALSE, TRUE)
           regs == Visit(e.dev, e.space, FALSE, FALSE)
<1>1. LockKept /\ ns' = ns /\ told' = told /\ served' = served
  BY DEF Install, vars, LockKept
<1>2. /\ e.call = "install" /\ e.call \in Api /\ e.at \in InPlaces
      /\ e.at \in {"locked", "regions", "end"}
  BY DEF Install, AtFrame, InPlaces, Api
<1>3. /\ e.call \in FirstCalls /\ e \in FrameType /\ FrameFits(e) /\ Inner(t)
      /\ e.dev \in Range(Devices) /\ \A q \in Range(e.todo) : reg[q].exists
      /\ e.at = "regions" => e.h \in Ids
  BY <1>2, ApiAt
<1>4. ASSUME NEW a \in {"leave", "end"}, a = "leave", Move(t, a), Still PROVE OpInv'
  BY <1>1, <1>2, <1>4, ApiLeaves
<1>5. CASE e.at = "locked"
  <2>1. \/ Move(t, "leave") /\ hnd' = hnd /\ lists' = lists
        \/ /\ FreeIds # {} /\ lists' = PutOn(lists, e.dev, LeastFree)
           /\ hnd' = With(hnd, LeastFree, NewHandler(e.space))
           /\ Set(t, ToRegions(e, LeastFree, s))
    BY <1>5
    DEF Install, AtFrame, ToRegions, FreeIds, LeastFree, PutOn, With, NewHandler
  <2>2. reg' = reg
    BY <1>5 DEF Install, AtFrame
  <2>3. CASE Move(t, "leave") /\ hnd' = hnd /\ lists' = lists
    <3>1. Still
      BY <1>1, <2>2, <2>3 DEF Still
    <3> QED
      BY <1>4, <2>3, <3>1
  <2>4. CASE /\ FreeIds # {} /\ lists' = PutOn(lists, e.dev, LeastFree)
             /\ hnd' = With(hnd, LeastFree, NewHandler(e.space))
             /\ Set(t, ToRegions(e, LeastFree, s))
    <3>1. LeastFree \in Ids /\ hnd[LeastFree].refs = 0
      BY <2>4, LeastIsFree
    <3>2. s \in Seq(Names) /\ \A q \in Range(s) : reg[q].exists
      BY VisitNow
    <3>3. AtFrame(t, "install", "locked")
      BY <1>2, <1>5 DEF Install, AtFrame
    <3> HIDE DEF s
    <3> QED
      BY <1>1, <2>2, <2>4, <3>1, <3>2, <3>3, Allocates
  <2> QED
    BY <2>1, <2>3, <2>4
<1>6. CASE e.at = "regions" /\ e.todo = <<>>
  <2>1. /\ lists' = lists /\ hnd' = hnd /\ reg' = reg
        /\ Move(t, "leave") \/ Set(t, ToRegs(e, "connect", regs))
    BY <1>6 DEF Install, AtFrame, ToRegs
  <2>2. Still
    BY <1>1, <2>1 DEF Still
  <2>3. CASE Move(t, "leave")
    BY <1>4, <2>2, <2>3
  <2>4. CASE Set(t, ToRegs(e, "connect", regs))
    <3> DEFINE f == ToRegs(e, "connect", regs)
    <3>1. regs \in Seq(Names) /\ \A q \in Range(regs) : reg[q].exists
      BY VisitNow
    <3> HIDE DEF regs
    <3>2. e.call \in {"install", "reg_all"} /\ Set(t, f)
      BY <1>2, <2>4
    <3> QED
      BY <1>1, <1>2, <2>2, <3>1, <3>2, ToRegsOn
  <2> QED
    BY <2>1, <2>3, <2>4
<1>7. CASE e.at = "regions" /\ e.todo # <<>>
  <2> DEFINE r == Head(e.todo)
             f == Onward(e)
             g == Frame("region_uninstall", r)
             p == At(e, "regions")
             h == e.h
  <2>1. /\ lists' = lists
        /\ \/ reg[r].handler # NoHandler /\ PushesTo(t, p, g) /\ hnd' = hnd /\ reg' = reg
           \/ /\ reg[r].handler = NoHandler /\ Set(t, f)
              /\ hnd' = Linked(hnd, r, h) /\ reg' = Handled(reg, r, h)
    BY <1>7 DEF Install, AtFrame, Onward, PushesTo, Call, At, Handled
  <2> HIDE DEF f, p
  <2>2. /\ SameFirst(e, f) /\ f.at = e.at /\ f.h = e.h /\ f.dev = e.dev
        /\ f.call = e.call /\ f.r = e.r
        /\ Range(f.todo) \subseteq Range(e.todo) /\ r \in Names /\ r \in Range(e.todo)
    BY <1>3, <1>7, OnwardFrame DEF f
  <2>3. FirstFits(f, reg, lists)
    BY <1>2, <1>3, <1>7, <2>2 DEF FirstFits, InPlaces
  <2>4. CASE reg[r].handler # NoHandler /\ PushesTo(t, p, g) /\ hnd' = hnd /\ reg' = reg
    <3> HIDE DEF r, g
    <3>1. /\ g \in FrameType /\ FrameFits(g) /\ g.call = "region_uninstall"
          /\ g.at = "start" /\ ~g.unreg
      BY <2>2, NewFrame DEF g
    <3>2. /\ SameFirst(e, p) /\ p.at = "regions" /\ p.todo = e.todo /\ p.h = e.h
          /\ p.call = e.call /\ p.r = e.r /\ p.dev = e.dev
      <4> DEFINE a == "regions"
      <4>1. a \in InPlaces \cap PlacesOf[e.call] /\ a \notin {"locked", "regs"}
        BY <1>2, PlacesAre DEF InPlaces
      <4> HIDE DEF a
      <4> QED
        BY <1>2, <1>3, <4>1, FirstMoves DEF p, a
    <3>3. FirstFits(p, reg, lists) /\ SameMark(e, p)
      BY <1>2, <1>3, <1>7, <3>2 DEF FirstFits, InPlaces, SameMark
    <3>4. Placed(t, p)
      BY <1>2, <1>3, <3>2, <3>3, FirstPlaces
    <3>5. MayCall(p, g)
      BY <1>2, <3>1, <3>2 DEF MayCall
    <3>6. Calls(t, p, g)
      BY <1>1, <1>2, <1>3, <2>4, <3>1, <3>2, <3>5, FirstPushes DEF RegionCalls
    <3>7. IInv' /\ g.call \in {"region_uninstall", "io"}
      BY <3>1 DEF Acts
    <3>8. Still
      BY <1>1, <2>1, <2>4 DEF Still
    <3> QED
      BY <1>3, <3>4, <3>6, <3>7, <3>8, CallsCore
  <2>5. CASE /\ reg[r].handler = NoHandler /\ Set(t, f)
             /\ hnd' = Linked(hnd, r, h) /\ reg' = Handled(reg, r, h)
    <3>1. e.call \in {"install", "initialize_node"} /\ f.call # "initialize_node"
      BY <1>2, <2>2
    <3>2. reg[r].exists /\ r \in Names /\ h \in Ids
      BY <1>3, <1>7, <2>2
    <3> HIDE DEF r, h
    <3> QED
      BY <1>1, <1>2, <2>1, <2>2, <2>3, <2>5, <3>1, <3>2, LinkStep
  <2> QED
    BY <2>1, <2>4, <2>5
<1>8. CASE e.at = "end"
  <2>1. /\ lists' = lists /\ hnd' = hnd /\ reg' = reg /\ Move(t, "leave")
    BY <1>8 DEF Install, AtFrame
  <2>2. Still
    BY <1>1, <2>1 DEF Still
  <2> QED
    BY <1>4, <2>1, <2>2
<1> QED
  BY <1>2, <1>5, <1>6, <1>7, <1>8

-----------------------------------------------------------------------------
(***************************************************************************)
(* Steps at the edge of the lock: the marks of the calls on the regions    *)
(* and the handlers stay, and so do the lists.                             *)
(***************************************************************************)
ButOne(T, U, t) == \A u \in Threads : u # t => U[u] = T[u]

\* The marks of all calls stay when those of t do.
LEMMA MarksKept ==
    ASSUME NEW T, NEW U, NEW t \in Threads, ButOne(T, U, t), SameMarks(T[t], U[t])
    PROVE  /\ LeavingSet(U) = LeavingSet(T)
           /\ \A h : LetGoAny(U, h) <=> LetGoAny(T, h)
           /\ \A r : Moving(U, r) <=> Moving(T, r)
           /\ \A r : Telling(U, r) <=> Telling(T, r)
<1>1. ASSUME NEW u \in Threads PROVE SameMarks(T[u], U[u])
  BY <1>1 DEF ButOne, SameMarks
<1>2. LeavingSet(U) = LeavingSet(T)
  BY <1>1 DEF LeavingSet, SameMarks
<1>3. \A h : LetGoAny(U, h) <=> LetGoAny(T, h)
  BY <1>1 DEF LetGoAny, SameMarks
<1>4. \A u \in Threads : \A r : MovingIn(U[u], r) <=> MovingIn(T[u], r)
  BY <1>1 DEF SameMarks
<1>5. /\ \A r : Moving(U, r) <=> \E u \in Threads : MovingIn(U[u], r)
      /\ \A r : Moving(T, r) <=> \E u \in Threads : MovingIn(T[u], r)
  BY DEF Moving, MovingIn
<1>6. \A r : Moving(U, r) <=> Moving(T, r)
  BY <1>4, <1>5
<1>7. \A u \in Threads : \A r : TellingIn(U[u], r) <=> TellingIn(T[u], r)
  BY <1>1 DEF SameMarks
<1>8. \A r : Telling(U, r) <=> Telling(T, r)
  BY <1>7 DEF Telling, TellingIn
<1> QED
  BY <1>2, <1>3, <1>6, <1>8

Told2(T, R, tl, sv) ==
  \A r \in Names : TellOk(R[r], tl[r], sv[r], Regions[r].dev \in HasReg,
                          Moving(T, r), Telling(T, r))
SameHandlers(R, R2) == \A q \in Names : R2[q].handler = R[q].handler

\* The rest of the invariant after a step that keeps the marks.
LEMMA EdgeRest ==
    ASSUME NEW T, NEW H, NEW R, NEW L, NEW tl, NEW sv, Rest(T, H, R, L, tl, sv),
           NEW U, NEW t \in Threads, ButOne(T, U, t), SameMarks(T[t], U[t]),
           NEW R2, SameHandlers(R, R2), NodesOk(U, R2), OwnLists(U[t], L),
           \A u \in Threads : OwnKnown(U[u], R2, sv),
           NEW tl2, Told2(T, R2, tl2, sv)
    PROVE  Rest(U, H, R2, L, tl2, sv)
<1>1. /\ LeavingSet(U) = LeavingSet(T)
      /\ \A h : LetGoAny(U, h) <=> LetGoAny(T, h)
      /\ \A r : Moving(U, r) <=> Moving(T, r)
      /\ \A r : Telling(U, r) <=> Telling(T, r)
  BY MarksKept
<1>2. ListsOk(U, L)
  BY DEF ButOne, Rest, ListsOk
<1>3. \A h : MineOf(R2, h) = MineOf(R, h)
  BY DEF MineOf, SameHandlers
<1>4. HandlersOk(T, H, R, L)
  BY DEF Rest
<1>5. HandlersOk(U, H, R2, L)
  BY <1>1, <1>3, <1>4 DEF HandlersOk, HandlerOk
<1>6. ToldOk(U, R2, tl2, sv)
  BY <1>1 DEF ToldOk, Told2, TellOk
<1> QED
  BY <1>2, <1>5, <1>6 DEF Rest

\* Calls that pass the edge of the lock: from e to f.
EdgePasses(e, f) ==
  \/ e.at = "start" /\ f.at = "acquire"
  \/ e.at = "acquire" /\ f.at \in {"locked", "failed"}
  \/ e.at = "leave" /\ f.at = "release"
Passing(e, f) ==
  /\ EdgePasses(e, f) /\ e.call \in Acquiring
  /\ f.call = e.call /\ f.r = e.r /\ f.todo = e.todo /\ f.h = e.h /\ f.unreg = e.unreg

\* A call at the edge of the lock leaves no mark.
LEMMA PassingMarks ==
    ASSUME NEW s \in Seq(FrameType), NEW u \in Seq(FrameType), s # <<>>, NEW f,
           Topped(s, u, f), Passing(Last(s), f)
    PROVE  SameMarks(s, u)
<1>1. Plain(Last(s), f)
  BY DEF Passing, EdgePasses, Plain, Acquiring, Api
<1> QED
  BY <1>1, PlainMarks

\* What an access or a first call knows at the edge: nothing.
LEMMA PassingKnown ==
    ASSUME NEW s \in Seq(FrameType), NEW u \in Seq(FrameType), s # <<>>, NEW f,
           Topped(s, u, f), Passing(Last(s), f), NEW R, NEW sv, OwnKnown(s, R, sv),
           \A r : CallIn(u, "initialize_node", r) <=> CallIn(s, "initialize_node", r)
    PROVE  OwnKnown(u, R, sv)
<1>1. /\ DOMAIN u = 1 .. Len(s) /\ DOMAIN s = 1 .. Len(s) /\ u[Len(s)] = f
      /\ \A k \in 1 .. Len(s) : k # Len(s) => u[k] = s[k]
  BY ToppedFacts
<1>2. \A x, y, z : Known(f, x, y, z)
  BY DEF Known, Passing, EdgePasses, Acquiring, Api
<1> SUFFICES ASSUME NEW k \in DOMAIN u
             PROVE  Known(u[k], R[u[k].r], sv[u[k].r], CallIn(u, "initialize_node", u[k].r))
  BY DEF OwnKnown
<1>3. CASE k = Len(s)
  BY <1>1, <1>2, <1>3
<1>4. CASE k # Len(s)
  <2>1. k \in DOMAIN s /\ u[k] = s[k]
    BY <1>1, <1>4
  <2>2. Known(s[k], R[s[k].r], sv[s[k].r], CallIn(s, "initialize_node", s[k].r))
    BY <2>1 DEF OwnKnown
  <2>3. CallIn(u, "initialize_node", s[k].r) <=> CallIn(s, "initialize_node", s[k].r)
    OBVIOUS
  <2> QED
    BY <2>1, <2>2, <2>3 DEF Known
<1> QED
  BY <1>3, <1>4

\* Two stacks with the same first call at the same place.
SameStart(s, u) ==
  /\ s = <<>> <=> u = <<>>
  /\ s # <<>> => u[1] = s[1] /\ (Len(u) = 1 <=> Len(s) = 1)
\* NodesOk looks at the first calls only.
LEMMA StartNodes ==
    ASSUME NEW T, NEW U, NEW R, NodesOk(T, R), \A u \in Threads : SameStart(T[u], U[u])
    PROVE  NodesOk(U, R)
<1>1. \A u \in Threads : \A c, r : CallIn(U[u], c, r) <=> CallIn(T[u], c, r)
  BY DEF CallIn, SameStart
<1>2. \A u \in Threads : (InLockOf(U[u]) <=> InLockOf(T[u]))
                         /\ (T[u] # <<>> => U[u][1] = T[u][1] /\ (Len(U[u]) = 1 <=> Len(T[u]) = 1))
  BY DEF InLockOf, SameStart
<1>3. ASSUME NEW u \in Threads PROVE TodoOk(U[u], R)
  BY <1>2 DEF NodesOk, TodoOk, InLockOf
<1>4. ASSUME NEW u \in Threads, NEW r \in Names
      PROVE  MakingOk(U[u], r, R[r]) /\ EndingOk(U[u], r, R[r])
  <2>1. MakingOk(T[u], r, R[r]) /\ EndingOk(T[u], r, R[r])
    BY DEF NodesOk
  <2>2. \A c : CallIn(U[u], c, r) => CallIn(T[u], c, r) /\ T[u] # <<>>
    <3>1. \A c : CallIn(U[u], c, r) => CallIn(T[u], c, r)
      BY <1>1
    <3>2. \A c : CallIn(T[u], c, r) => T[u] # <<>>
      BY DEF CallIn
    <3> QED
      BY <3>1, <3>2
  <2> QED
    BY <1>2, <2>1, <2>2 DEF MakingOk, EndingOk
<1>5. ReleasedOk(U)
  <2>1. ReleasedOk(T)
    BY DEF NodesOk
  <2>2. \A u \in Threads : \A r : CallIn(U[u], "uninstall_node", r) => U[u][1] = T[u][1]
    BY <1>1, <1>2 DEF CallIn
  <2> QED
    BY <1>1, <1>2, <2>1, <2>2 DEF ReleasedOk
<1>6. OneNode(U) /\ Orphans(U, R)
  BY <1>1 DEF NodesOk, OneNode, Orphans
<1> QED
  BY <1>3, <1>4, <1>5, <1>6 DEF NodesOk

\* The only call of a thread passes the edge.
Lone(s, e) == s # <<>> /\ Len(s) = 1 /\ DOMAIN s = 1 .. 1 /\ s[1] = e

\* NodesOk, when the only call of a thread passes the edge.
LEMMA LoneNodes ==
    ASSUME NEW T, NEW U, NEW R, NodesOk(T, R), NEW t \in Threads, ButOne(T, U, t),
           NEW e, NEW f, Lone(T[t], e), Lone(U[t], f), Passing(e, f),
           f.at = "locked" =>
             /\ f.todo = <<>>
             /\ \A u \in Threads, r \in Names :
                  CallIn(T[u], "uninstall_node", r) => T[u][1].at # "release",
           e.at = "leave" => \A u \in Threads : u # t => ~InLockOf(T[u])
    PROVE  NodesOk(U, R)
<1>1. \A u \in Threads : \A c, r : CallIn(U[u], c, r) <=> CallIn(T[u], c, r)
  BY DEF CallIn, Lone, Passing, ButOne
<1>2. /\ T[t][1] = e /\ U[t][1] = f /\ f.call = e.call /\ f.todo = e.todo
      /\ Len(T[t]) = 1 /\ EdgePasses(e, f)
  BY DEF Lone, Passing
<1>3. ASSUME NEW u \in Threads PROVE TodoOk(U[u], R)
  <2>1. CASE u # t
    BY <2>1 DEF NodesOk, ButOne
  <2>2. CASE u = t
    <3>1. InLockOf(U[t]) => f.at = "locked"
      BY <1>2 DEF InLockOf, EdgePasses, Outside
    <3>2. f.todo = <<>> => Range(f.todo) = {}
      BY NoRange
    <3> QED
      BY <1>2, <2>2, <3>1, <3>2 DEF TodoOk
  <2> QED
    BY <2>1, <2>2
<1>4. ASSUME NEW u \in Threads, NEW r \in Names
      PROVE  MakingOk(U[u], r, R[r]) /\ EndingOk(U[u], r, R[r])
  <2>1. MakingOk(T[u], r, R[r]) /\ EndingOk(T[u], r, R[r])
    BY DEF NodesOk
  <2>2. CASE u # t
    BY <2>1, <2>2 DEF ButOne
  <2>3. CASE u = t
    <3>1. MakingOk(U[t], r, R[r])
      BY <1>1, <1>2, <2>1, <2>3 DEF MakingOk, EdgePasses
    <3>2. EndingOk(U[t], r, R[r])
      BY <1>1, <1>2, <2>1, <2>3 DEF EndingOk, EdgePasses
    <3> QED
      BY <2>3, <3>1, <3>2
  <2> QED
    BY <2>2, <2>3
<1>5. ReleasedOk(U)
  <2> SUFFICES ASSUME NEW a \in Threads, NEW b \in Threads, NEW r \in Names,
                      CallIn(U[a], "uninstall_node", r), U[a][1].at = "release",
                      InLockOf(U[b])
               PROVE  FALSE
    BY DEF ReleasedOk
  <2>1. CallIn(T[a], "uninstall_node", r)
    BY <1>1
  <2>2. ReleasedOk(T)
    BY DEF NodesOk
  <2>3. CASE a = t
    <3>1. e.at = "leave" /\ f.at = "release"
      BY <1>2, <2>3 DEF EdgePasses
    <3>2. b # t
      BY <1>2, <2>3, <3>1 DEF InLockOf, Outside
    <3> QED
      BY <3>1, <3>2 DEF ButOne
  <2>4. CASE a # t
    <3>1. T[a][1].at = "release"
      BY <2>4 DEF ButOne
    <3>2. ~InLockOf(T[b])
      BY <2>1, <2>2, <3>1 DEF ReleasedOk
    <3>3. b = t
      BY <3>2 DEF ButOne
    <3>4. f.at = "locked"
      BY <1>2, <3>3 DEF InLockOf, EdgePasses, Outside
    <3> QED
      BY <2>1, <3>1, <3>4
  <2> QED
    BY <2>3, <2>4
<1>6. OneNode(U) /\ Orphans(U, R)
  <2>1. OneNode(T) /\ Orphans(T, R)
    BY DEF NodesOk
  <2>2. OneNode(U)
    BY <1>1, <2>1 DEF OneNode
  <2>3. Orphans(U, R)
    BY <1>1, <2>1 DEF Orphans
  <2> QED
    BY <2>2, <2>3
<1> QED
  BY <1>3, <1>4, <1>5, <1>6 DEF NodesOk

\* Nobody is at the end of uninstall_node while the namespace is free.
LEMMA NoneReleased ==
    ASSUME OpInv, ns = NoThread, NEW u \in Threads, NEW r, CallIn(th[u], "uninstall_node", r)
    PROVE  th[u][1].at # "release"
<1> SUFFICES ASSUME th[u][1].at = "release" PROVE FALSE
  OBVIOUS
<1>1. th[u] \in Seq(FrameType) /\ th[u] # <<>> /\ Fits(u, th[u], pc[u], held[u], ns = u)
  BY CallsFitNow DEF OpInv, OpTypes, CallIn
<1>2. InLockOf(th[u]) \/ Flat(th[u])
  BY <1>1, FlatOrIn DEF Fits
<1>3. Len(th[u]) = 1
  BY <1>1, <1>2 DEF InLockOf, Flat, Outside
<1>4. Last(th[u]) = th[u][1]
  BY <1>1, <1>3, LastSeq
<1>5. ~Away(Last(th[u]))
  BY <1>4 DEF Away, CallIn, Api
<1>6. ns = u
  BY <1>1, <1>5 DEF Fits, NsOk
<1> QED
  BY <1>6, ThreadsAssumption

\* A call of t passes the edge of the lock.
LEMMA EdgeStep ==
    ASSUME NEW t, Acts(t), NEW f, Topping(t, f), Passing(Fr(t), f), Still, Others(t),
           Fits(t, th'[t], pc'[t], held'[t], ns' = t), ns' \in Threads \cup {NoThread},
           f.at = "locked" => ns = NoThread /\ f.todo = <<>>
    PROVE  OpInv'
<1> DEFINE s == th[t]
           u == th'[t]
           e == Fr(t)
<1>1. /\ Ready(t) /\ t \in Threads /\ IInv' /\ OpInv /\ CallsFit
      /\ Rest(th, hnd, reg, lists, told, served)
  BY RestNow DEF Acts, Ready, OpInv, Unlocked
<1>2. /\ s \in Seq(FrameType) /\ s # <<>> /\ e = Last(s) /\ Fits(t, s, "ready", held[t], ns = t)
      /\ u \in Seq(FrameType) /\ Topped(s, u, f) /\ ButOne(th, th', t)
  BY <1>1, ReadyStack DEF Topping, SameOthers, ButOne
<1>3. /\ Len(s) \in Nat /\ Len(s) # 0 /\ DOMAIN s = 1 .. Len(s)
      /\ Len(u) = Len(s) /\ DOMAIN u = 1 .. Len(s) /\ u # <<>>
      /\ Last(s) = s[Len(s)] /\ u[Len(s)] = f
      /\ 1 \in 1 .. Len(s) /\ Len(s) \in 1 .. Len(s)
      /\ \A k \in 1 .. Len(s) : k # Len(s) => u[k] = s[k]
  BY <1>2, ToppedFacts
<1>4. CallsFit'
  BY <1>1, ThreadStep
<1>5. Types'
  BY <1>1, DataTypes DEF OpInv, DataOk, Still, Topping
<1>6. SameMarks(s, u)
  BY <1>2, PassingMarks
<1>7. \A r : CallIn(u, "initialize_node", r) <=> CallIn(s, "initialize_node", r)
  <2>1. u[1].call = s[1].call /\ u[1].r = s[1].r
    <3>1. CASE Len(s) = 1
      BY <1>2, <1>3, <3>1 DEF Passing
    <3>2. CASE Len(s) # 1
      BY <1>3, <3>2
    <3> QED
      BY <3>1, <3>2
  <2> QED
    BY <1>2, <1>3, <2>1 DEF CallIn
<1>8. NodesOk(th, reg) /\ ListsOk(th, lists) /\ ToldOk(th, reg, told, served)
  BY <1>1 DEF Rest
<1>9. OwnKnown(u, reg, served)
  <2>1. OwnKnown(s, reg, served)
    BY <1>1, <1>8 DEF ToldOk
  <2> QED
    BY <1>2, <1>7, <2>1, PassingKnown
<1>10. ASSUME NEW v \in Threads PROVE OwnKnown(th'[v], reg, served)
  BY <1>2, <1>8, <1>9 DEF ButOne, ToldOk
<1>11. NodesOk(th', reg) /\ OwnLists(u, lists)
  <2>1. CASE Len(s) # 1
    <3>1. u[1] = s[1] /\ Len(u) = Len(s)
      BY <1>3, <2>1
    <3>2. \A v \in Threads : SameStart(th[v], th'[v])
      BY <1>2, <1>3, <3>1 DEF ButOne, SameStart
    <3>3. NodesOk(th', reg)
      BY <1>8, <3>2, StartNodes
    <3>4. OwnLists(s, lists)
      BY <1>1, <1>8 DEF ListsOk
    <3>5. OwnLists(u, lists)
      BY <1>2, <1>3, <3>1, <3>4 DEF OwnLists, InLockOf
    <3> QED
      BY <3>3, <3>5
  <2>2. CASE Len(s) = 1
    <3>1. Lone(s, e) /\ Lone(u, f)
      BY <1>2, <1>3, <2>2 DEF Lone
    <3>2. f.at = "locked" =>
            /\ f.todo = <<>>
            /\ \A v \in Threads, r \in Names :
                 CallIn(th[v], "uninstall_node", r) => th[v][1].at # "release"
      BY <1>1, NoneReleased
    <3>3. e.at = "leave" => \A v \in Threads : v # t => ~InLockOf(th[v])
      <4> SUFFICES ASSUME e.at = "leave" PROVE \A v \in Threads : v # t => ~InLockOf(th[v])
        OBVIOUS
      <4>1. InLock(t)
        BY <1>2, <3>1 DEF InLock, Lone, Idle, Outside
      <4>2. Alone(t)
        BY <1>1, <4>1, InLockAlone DEF OpInv
      <4> QED
        BY <4>2 DEF Alone, InLock, InLockOf, Idle
    <3>4. NodesOk(th', reg)
      BY <1>1, <1>2, <1>8, <3>1, <3>2, <3>3, LoneNodes
    <3>5. OwnLists(u, lists)
      BY <3>1 DEF OwnLists, Lone, InLockOf, Passing, EdgePasses, Outside
    <3> QED
      BY <3>4, <3>5
  <2> QED
    BY <2>1, <2>2
<1>12. Told2(th, reg, told, served) /\ SameHandlers(reg, reg)
  BY <1>8 DEF ToldOk, Told2, SameHandlers
<1>13. Rest(th', hnd, reg, lists, told, served)
  BY <1>1, <1>2, <1>6, <1>10, <1>11, <1>12, EdgeRest
<1>14. Rest(th', hnd', reg', lists', told', served')
  BY <1>13 DEF Still
<1> QED
  BY <1>1, <1>4, <1>5, <1>14, RestNext, TypesAre

\* What there is before a step at the edge.
LEMMA EdgeAt ==
    ASSUME NEW t, Acts(t)
    PROVE  /\ t \in Threads /\ Ready(t) /\ OpInv /\ OpTypes /\ TypeOK /\ pc[t] = "ready"
           /\ th[t] \in Seq(FrameType) /\ th[t] # <<>> /\ Fr(t) = Last(th[t])
           /\ Fr(t) \in FrameType /\ FrameFits(Fr(t)) /\ StackOk(th[t], t)
           /\ HeldOk(th[t], "ready", held[t]) /\ NsOk(th[t], ns = t)
           /\ held[t] \in Nat /\ Under(th[t]) \in Nat /\ ns \in Threads \cup {NoThread}
           /\ pc \in [Threads -> Places] /\ held \in [Threads -> Nat]
<1>1. /\ t \in Threads /\ Ready(t) /\ OpInv /\ OpTypes /\ TypeOK /\ pc[t] = "ready"
  BY DEF Acts, Ready, OpInv, Unlocked, IInv
<1>2. /\ th[t] \in Seq(FrameType) /\ th[t] # <<>> /\ Fr(t) = Last(th[t])
      /\ Fr(t) \in FrameType /\ FrameFits(Fr(t)) /\ Fits(t, th[t], "ready", held[t], ns = t)
  BY <1>1, ReadyStack
<1>3. held[t] \in Nat /\ Under(th[t]) \in Nat
  BY <1>1 DEF TypeOK, Under
<1>4. StackOk(th[t], t) /\ HeldOk(th[t], "ready", held[t]) /\ NsOk(th[t], ns = t)
  BY <1>2 DEF Fits
<1>5. ns \in Threads \cup {NoThread}
  BY <1>1 DEF OpTypes
<1>6. pc \in [Threads -> Places] /\ held \in [Threads -> Nat]
  BY <1>1 DEF TypeOK
<1> QED
  BY <1>1, <1>2, <1>3, <1>4, <1>5, <1>6

\* What the stack is after it.
LEMMA EdgeTopped ==
    ASSUME NEW t, Acts(t), NEW f \in FrameType, FrameFits(f), SameCall(Fr(t), f), Set(t, f)
    PROVE  /\ Topping(t, f) /\ SameOthers(t) /\ StackOk(th'[t], t) /\ Last(th'[t]) = f
           /\ th'[t] # <<>> /\ Under(th'[t]) = Under(th[t])
<1>1. /\ OpTypes /\ t \in Threads /\ ~Idle(t) /\ StackOk(th[t], t) /\ Fr(t) = Last(th[t])
      /\ th[t] \in Seq(FrameType) /\ th[t] # <<>>
  BY EdgeAt DEF Acts
<1>2. Topping(t, f)
  BY <1>1, SetTops
<1>3. th'[t] \in Seq(FrameType) /\ Topped(th[t], th'[t], f) /\ SameOthers(t)
  BY <1>1, <1>2 DEF Topping
<1>4. /\ StackOk(th'[t], t) /\ Last(th'[t]) = f /\ th'[t] # <<>>
      /\ Len(th'[t]) = Len(th[t])
  BY <1>1, <1>3, RetopStack
<1> QED
  BY <1>2, <1>3, <1>4 DEF Under

\* The namespace lock moves between t and nobody only.
NsOwn(t) == ns' = ns \/ (ns = t /\ ns' = NoThread) \/ (ns = NoThread /\ ns' = t)
\* A step of t at the edge leaves the others alone.
LEMMA OwnStep ==
    ASSUME NEW t \in Threads, SameOthers(t), NsOwn(t), ns \in Threads \cup {NoThread},
           \A u \in Threads : u # t => pc'[u] = pc[u] /\ held'[u] = held[u]
    PROVE  Others(t) /\ ns' \in Threads \cup {NoThread}
BY ThreadsAssumption DEF Others, SameOthers, NsOwn

\* upgrade_to_opregion_lock: the namespace is dropped before the acquire.
LEMMA EntersStep ==
    ASSUME NEW t, Acts(t), Fr(t).call \in Acquiring, Fr(t).at = "start",
           ns' = IF ns = t THEN NoThread ELSE ns, CallAcquire(t), Still,
           NEW f, f = [Fr(t) EXCEPT !.at = "acquire", !.held = held[t]], Set(t, f)
    PROVE  OpInv'
<1> DEFINE e == Fr(t)
<1>1. /\ t \in Threads /\ e \in FrameType /\ FrameFits(e) /\ e = Last(th[t])
      /\ HeldOk(th[t], "ready", held[t]) /\ th[t] # <<>>
      /\ held[t] \in Nat /\ Under(th[t]) \in Nat /\ ns \in Threads \cup {NoThread}
      /\ pc \in [Threads -> Places]
  BY EdgeAt
<1>2. /\ f.at = "acquire" /\ f.held = held[t] /\ f.call = e.call /\ f.r = e.r
      /\ f.todo = e.todo /\ f.h = e.h /\ f.unreg = e.unreg /\ f.dev = e.dev /\ f.code = e.code
  BY <1>1 DEF FrameType
<1>3. "acquire" \in PlacesOf[e.call] /\ e.call \in DOMAIN PlacesOf
  BY PlacesAre DEF Acquiring, Api, Outside
<1>4. "acquire" \in UNION {PlacesOf[c] : c \in DOMAIN PlacesOf}
  BY <1>3
<1>5. f \in FrameType
  BY <1>1, <1>4 DEF FrameType
<1>6. e.todo = <<>>
  BY <1>1 DEF FrameFits
<1>7. FrameFits(f)
  BY <1>1, <1>2, <1>3, <1>6 DEF FrameFits
<1>8. SameCall(e, f) /\ Passing(e, f)
  BY <1>2 DEF SameCall, Passing, EdgePasses
<1> HIDE DEF e
<1>9. /\ Topping(t, f) /\ SameOthers(t) /\ StackOk(th'[t], t) /\ Last(th'[t]) = f
      /\ th'[t] # <<>> /\ Under(th'[t]) = Under(th[t])
  BY <1>5, <1>7, <1>8, EdgeTopped DEF e
<1>10. e.at = "start" /\ ~Inside(e)
  BY DEF e, Inside, Outside
<1>11. held[t] = Under(th[t])
  BY <1>1, <1>10 DEF HeldOk
<1>12. pc' = [pc EXCEPT ![t] = "acquire"] /\ held' = held
  BY DEF CallAcquire, Goto
<1>13. pc'[t] = "acquire" /\ held'[t] = Under(th[t]) /\ f.held = Under(th[t])
  BY <1>1, <1>2, <1>11, <1>12
<1>14. HeldOk(th'[t], pc'[t], held'[t])
  BY <1>2, <1>9, <1>13 DEF HeldOk
<1>15. ns' # t /\ NsOwn(t)
  BY <1>1, ThreadsAssumption DEF NsOwn
<1>16. NsOk(th'[t], ns' = t)
  BY <1>2, <1>9, <1>15 DEF NsOk, Away
<1>17. Others(t) /\ ns' \in Threads \cup {NoThread}
  BY <1>1, <1>9, <1>12, <1>15, OwnStep
<1>18. Fits(t, th'[t], pc'[t], held'[t], ns' = t)
  BY <1>9, <1>14, <1>16 DEF Fits
<1>19. Passing(Fr(t), f) /\ f.at # "locked"
  BY <1>2, <1>8 DEF e
<1> QED
  BY <1>9, <1>17, <1>18, <1>19, EdgeStep

\* ... and taken again when the acquire is over.
LEMMA LockedStep ==
    ASSUME NEW t, Acts(t), Fr(t).at = "acquire", held[t] > Fr(t).held,
           Move(t, "locked"), Lock(t), LockKept, Still
    PROVE  OpInv'
<1> DEFINE e == Fr(t)
           f == At(e, "locked")
<1>1. /\ t \in Threads /\ e \in FrameType /\ FrameFits(e) /\ e = Last(th[t])
      /\ HeldOk(th[t], "ready", held[t]) /\ th[t] # <<>> /\ pc[t] = "ready"
      /\ held[t] \in Nat /\ Under(th[t]) \in Nat /\ ns \in Threads \cup {NoThread}
  BY EdgeAt
<1>2. /\ f.at = "locked" /\ f.held = e.held /\ f.call = e.call /\ f.r = e.r
      /\ f.todo = e.todo /\ f.h = e.h /\ f.unreg = e.unreg /\ f.dev = e.dev /\ f.code = e.code
  BY <1>1 DEF FrameType, At
<1>3. e.call \in Acquiring
  BY <1>1, PlacesAre DEF FrameType, FrameFits, Acquiring, Api
<1>4. "locked" \in PlacesOf[e.call] /\ e.call \in DOMAIN PlacesOf
  BY <1>3, PlacesAre DEF Acquiring, Api
<1>5. "locked" \in UNION {PlacesOf[c] : c \in DOMAIN PlacesOf}
  BY <1>4
<1>6. f \in FrameType
  BY <1>1, <1>5 DEF FrameType, At
<1>7. e.todo = <<>>
  BY <1>1 DEF FrameFits
<1>8. FrameFits(f)
  BY <1>1, <1>2, <1>4, <1>7 DEF FrameFits
<1>9. SameCall(e, f) /\ Passing(e, f)
  BY <1>2, <1>3 DEF SameCall, Passing, EdgePasses
<1>10. Set(t, f)
  BY DEF Move, At
<1> HIDE DEF e, f
<1>11. /\ Topping(t, f) /\ SameOthers(t) /\ StackOk(th'[t], t) /\ Last(th'[t]) = f
       /\ th'[t] # <<>> /\ Under(th'[t]) = Under(th[t])
  BY <1>6, <1>8, <1>9, <1>10, EdgeTopped DEF e
<1>12. e.at = "acquire" /\ held[t] > e.held
  BY DEF e
<1>13. held[t] = Under(th[t]) + 1
  BY <1>1, <1>12 DEF HeldOk
<1>14. pc' = pc /\ held' = held
  BY DEF LockKept
<1>15. Inside(f)
  BY <1>2, <1>3 DEF Inside, Outside
<1>16. HeldOk(th'[t], pc'[t], held'[t])
  BY <1>1, <1>2, <1>11, <1>13, <1>14, <1>15 DEF HeldOk
<1>17. ns' = t /\ ns = NoThread /\ NsOwn(t)
  BY DEF Lock, NsOwn
<1>18. NsOk(th'[t], ns' = t)
  BY <1>2, <1>11, <1>17 DEF NsOk, Away, Outside
<1>19. Others(t) /\ ns' \in Threads \cup {NoThread}
  BY <1>1, <1>11, <1>14, <1>17, OwnStep
<1>20. Fits(t, th'[t], pc'[t], held'[t], ns' = t)
  BY <1>11, <1>16, <1>18 DEF Fits
<1>21. Passing(Fr(t), f) /\ f.todo = <<>>
  BY <1>2, <1>7, <1>9 DEF e
<1> QED
  BY <1>11, <1>17, <1>19, <1>20, <1>21, EdgeStep

\* A call that does not get the lock is over.
LEMMA FailedStep ==
    ASSUME NEW t, Acts(t), Fr(t).at = "acquire", ~(held[t] > Fr(t).held),
           Move(t, "failed"), Fr(t).call \in Api => ns' = ns,
           Fr(t).call \notin Api => Lock(t), LockKept, Still
    PROVE  OpInv'
<1> DEFINE e == Fr(t)
           f == At(e, "failed")
<1>1. /\ t \in Threads /\ e \in FrameType /\ FrameFits(e) /\ e = Last(th[t])
      /\ HeldOk(th[t], "ready", held[t]) /\ th[t] # <<>> /\ pc[t] = "ready"
      /\ held[t] \in Nat /\ Under(th[t]) \in Nat /\ ns \in Threads \cup {NoThread}
      /\ NsOk(th[t], ns = t)
  BY EdgeAt
<1>2. e.call \in Acquiring
  BY <1>1, PlacesAre DEF FrameType, FrameFits, Acquiring, Api
<1>3. held[t] = Under(th[t]) /\ e.call # "uninstall_node"
  BY <1>1 DEF HeldOk
<1>4. /\ f.at = "failed" /\ f \in FrameType /\ FrameFits(f) /\ SameCall(e, f)
      /\ f.call = e.call /\ f.r = e.r /\ f.todo = e.todo /\ f.h = e.h /\ f.unreg = e.unreg
  <2> DEFINE a == "failed"
  <2>1. a \in PlacesOf[e.call] /\ a \notin {"start", "acquire", "locked", "regs"}
    BY <1>2, <1>3, PlacesAre DEF Acquiring, Api, Outside
  <2> QED
    BY <1>1, <2>1, MovedFrame
<1>5. Passing(e, f)
  BY <1>2, <1>4 DEF Passing, EdgePasses
<1>6. Set(t, f)
  BY DEF Move, At
<1> HIDE DEF e, f
<1>7. /\ Topping(t, f) /\ SameOthers(t) /\ StackOk(th'[t], t) /\ Last(th'[t]) = f
      /\ th'[t] # <<>> /\ Under(th'[t]) = Under(th[t])
  BY <1>4, <1>6, EdgeTopped DEF e
<1>8. pc' = pc /\ held' = held
  BY DEF LockKept
<1>9. ~Inside(f)
  BY <1>4 DEF Inside, Outside
<1>10. HeldOk(th'[t], pc'[t], held'[t])
  BY <1>1, <1>3, <1>4, <1>7, <1>8, <1>9 DEF HeldOk
<1>11. e.at = "acquire" /\ (e.call \in Api => ns' = ns) /\ (e.call \notin Api => Lock(t))
  BY DEF e
<1>12. NsOwn(t) /\ (ns' = t <=> ~Away(f))
  <2>1. ns # t
    BY <1>1, <1>11 DEF NsOk, Away
  <2>2. CASE e.call \in Api
    BY <1>4, <1>11, <2>1, <2>2 DEF NsOwn, Away, Outside
  <2>3. CASE e.call \notin Api
    BY <1>4, <1>11, <2>3 DEF NsOwn, Lock, Away
  <2> QED
    BY <2>2, <2>3
<1>13. NsOk(th'[t], ns' = t)
  BY <1>7, <1>12 DEF NsOk
<1>14. Others(t) /\ ns' \in Threads \cup {NoThread}
  BY <1>1, <1>7, <1>8, <1>12, OwnStep
<1>15. Fits(t, th'[t], pc'[t], held'[t], ns' = t)
  BY <1>7, <1>10, <1>13 DEF Fits
<1>16. Passing(Fr(t), f) /\ f.at # "locked"
  BY <1>4, <1>5 DEF e
<1> QED
  BY <1>7, <1>14, <1>15, <1>16, EdgeStep

\* The way into the opregion lock preserves the invariant.
LEMMA UpgradeStep ==
    ASSUME NEW t, Acts(t), Upgrade(t)
    PROVE  OpInv'
<1>1. Still
  BY DEF Upgrade, Still
<1>2. \/ /\ Fr(t).call \in Acquiring /\ Fr(t).at = "start" /\ CallAcquire(t)
         /\ ns' = IF ns = t THEN NoThread ELSE ns
         /\ Set(t, [Fr(t) EXCEPT !.at = "acquire", !.held = held[t]])
      \/ /\ Fr(t).at = "acquire" /\ held[t] > Fr(t).held
         /\ Move(t, "locked") /\ Lock(t) /\ LockKept
      \/ /\ Fr(t).at = "acquire" /\ ~(held[t] > Fr(t).held) /\ Move(t, "failed")
         /\ Fr(t).call \in Api => ns' = ns
         /\ Fr(t).call \notin Api => Lock(t)
         /\ LockKept
  BY DEF Upgrade, vars, LockKept
<1> QED
  BY <1>1, <1>2, EntersStep, LockedStep, FailedStep

-----------------------------------------------------------------------------
(***************************************************************************)
(* Out of the lock, and out of the call.                                   *)
(***************************************************************************)
\* The call gives the opregion lock back.
LEMMA ReleaseStep ==
    ASSUME NEW t, Acts(t), Fr(t).at = "leave", CallRelease(t), Move(t, "release"),
           ns' = IF Fr(t).call \in Api THEN NoThread ELSE ns, Still
    PROVE  OpInv'
<1> DEFINE e == Fr(t)
           f == At(e, "release")
<1>1. /\ t \in Threads /\ e \in FrameType /\ FrameFits(e) /\ e = Last(th[t])
      /\ HeldOk(th[t], "ready", held[t]) /\ th[t] # <<>> /\ pc[t] = "ready"
      /\ held[t] \in Nat /\ Under(th[t]) \in Nat /\ ns \in Threads \cup {NoThread}
      /\ NsOk(th[t], ns = t) /\ pc \in [Threads -> Places]
  BY EdgeAt
<1>2. e.call \in Acquiring
  BY <1>1, PlacesAre DEF FrameType, FrameFits, Acquiring, Api
<1>3. Inside(e) /\ ~Away(e)
  BY <1>2, PlacesAre DEF Inside, Away, Outside
<1>4. held[t] = Under(th[t]) + 1 /\ ns = t
  BY <1>1, <1>3 DEF HeldOk, NsOk
<1>5. /\ f.at = "release" /\ f \in FrameType /\ FrameFits(f) /\ SameCall(e, f)
      /\ f.call = e.call /\ f.r = e.r /\ f.todo = e.todo /\ f.h = e.h /\ f.unreg = e.unreg
  <2> DEFINE a == "release"
  <2>1. a \in PlacesOf[e.call] /\ a \notin {"start", "acquire", "locked", "regs"}
    BY <1>2, PlacesAre DEF Acquiring, Api, Outside
  <2> QED
    BY <1>1, <2>1, MovedFrame
<1>6. Passing(e, f)
  BY <1>2, <1>5 DEF Passing, EdgePasses
<1>7. Set(t, f)
  BY DEF Move, At
<1> HIDE DEF e, f
<1>8. /\ Topping(t, f) /\ SameOthers(t) /\ StackOk(th'[t], t) /\ Last(th'[t]) = f
      /\ th'[t] # <<>> /\ Under(th'[t]) = Under(th[t])
  BY <1>5, <1>7, EdgeTopped DEF e
<1>9. pc' = [pc EXCEPT ![t] = "release"] /\ held' = held
  BY DEF CallRelease, Goto
<1>10. pc'[t] = "release" /\ held'[t] = Under(th[t]) + 1
  BY <1>1, <1>4, <1>9
<1>11. HeldOk(th'[t], pc'[t], held'[t])
  BY <1>5, <1>8, <1>10 DEF HeldOk
<1>12. ns' = IF e.call \in Api THEN NoThread ELSE ns
  BY DEF e
<1>13. NsOwn(t) /\ (ns' = t <=> ~Away(f))
  BY <1>1, <1>4, <1>5, <1>12, ThreadsAssumption DEF NsOwn, Away, Outside
<1>14. NsOk(th'[t], ns' = t)
  BY <1>8, <1>13 DEF NsOk
<1>15. Others(t) /\ ns' \in Threads \cup {NoThread}
  BY <1>1, <1>8, <1>9, <1>13, OwnStep
<1>16. Fits(t, th'[t], pc'[t], held'[t], ns' = t)
  BY <1>8, <1>11, <1>14 DEF Fits
<1>17. Passing(Fr(t), f) /\ f.at # "locked"
  BY <1>5, <1>6 DEF e
<1> QED
  BY <1>8, <1>15, <1>16, <1>17, EdgeStep

\* The thread is in no call any more: nothing it did leaves a mark.
Over(t) ==
  /\ th'[t] = <<>> /\ SameOthers(t) /\ th' \in [Threads -> Seq(FrameType)]
  /\ Len(th[t]) = 1 /\ Fr(t).at \in {"release", "failed"} /\ LockKept
  /\ ns' # t /\ NsOwn(t)

\* A thread in no call.
LEMMA NoFrames ==
  /\ \A t : StackOk(<<>>, t)
  /\ Flat(<<>>)
  /\ \A p, h : HeldOk(<<>>, p, h) <=> p = "ready" /\ h = 0
<1>1. <<>> \in Seq(FrameType) /\ Len(<<>>) = 0 /\ DOMAIN <<>> = {}
  OBVIOUS
<1>2. \A t : StackOk(<<>>, t)
  BY <1>1 DEF StackOk
<1>3. \A p, h : HeldOk(<<>>, p, h) <=> p = "ready" /\ h = 0
  BY DEF HeldOk
<1> QED
  BY <1>2, <1>3 DEF Flat

\* CallsFit, when the only call of a thread is over.
LEMMA OverFits ==
    ASSUME NEW t, Acts(t), Over(t)
    PROVE  /\ CallsFit' /\ ns' \in Threads \cup {NoThread} /\ Flat(th[t]) /\ Flat(th'[t])
           /\ ~InLockOf(th[t]) /\ ButOne(th, th', t) /\ Fr(t) = th[t][1] /\ th[t] # <<>>
<1>1. /\ t \in Threads /\ Ready(t) /\ pc[t] = "ready" /\ StackOk(th[t], t)
      /\ th[t] \in Seq(FrameType) /\ th[t] # <<>> /\ Fr(t) = Last(th[t])
      /\ HeldOk(th[t], "ready", held[t]) /\ ns \in Threads \cup {NoThread}
  BY EdgeAt
<1>2. Fr(t) = th[t][1]
  BY <1>1, LastSeq DEF Over
<1>3. Flat(th[t]) /\ ~InLockOf(th[t])
  <2>1. ~InLockOf(th[t])
    BY <1>2 DEF Over, InLockOf, Outside
  <2> QED
    BY <1>1, <2>1, FlatOrIn
<1>4. held[t] = 0
  <2>1. Under(th[t]) = 0
    BY DEF Over, Under
  <2>2. ~Inside(Fr(t))
    BY DEF Over, Inside, Outside
  <2> QED
    BY <1>1, <2>1, <2>2 DEF HeldOk, Over
<1>5. pc'[t] = "ready" /\ held'[t] = 0
  BY <1>1, <1>4 DEF Over, LockKept
<1>6. NsOk(<<>>, ns' = t)
  BY DEF NsOk, Over
<1>7. HeldOk(th'[t], pc'[t], held'[t]) /\ StackOk(th'[t], t) /\ Flat(th'[t])
  BY <1>5, NoFrames DEF Over
<1>8. Fits(t, th'[t], pc'[t], held'[t], ns' = t)
  BY <1>6, <1>7 DEF Fits, Over
<1>9. Others(t) /\ ns' \in Threads \cup {NoThread}
  BY <1>1, OwnStep DEF Over, LockKept
<1>10. CallsFit'
  BY <1>1, <1>8, <1>9, ThreadStep DEF Ready
<1> QED
  BY <1>1, <1>2, <1>3, <1>7, <1>9, <1>10 DEF ButOne, SameOthers, Over

\* Two stacks that are flat have the same marks: none.
LEMMA FlatMarks ==
    ASSUME NEW s, NEW u, Flat(s), Flat(u)
    PROVE  SameMarks(s, u)
BY FlatSilent DEF SameMarks

\* A call that makes or ends no node is over.
LEMMA OverStep ==
    ASSUME NEW t, Acts(t), Over(t), Still, Fr(t).call \notin NodeCalls
    PROVE  OpInv'
<1>1. /\ t \in Threads /\ IInv' /\ OpInv /\ OpTypes /\ Rest(th, hnd, reg, lists, told, served)
  BY RestNow DEF Acts, OpInv
<1>2. /\ CallsFit' /\ ns' \in Threads \cup {NoThread} /\ Flat(th[t]) /\ Flat(th'[t])
      /\ ~InLockOf(th[t]) /\ ButOne(th, th', t) /\ Fr(t) = th[t][1] /\ th[t] # <<>>
  BY OverFits
<1>3. Types'
  BY <1>1, <1>2, DataTypes DEF DataOk, Still, Over
<1>4. SameMarks(th[t], th'[t])
  BY <1>2, FlatMarks
<1>5. NodesOk(th, reg) /\ ToldOk(th, reg, told, served)
  BY <1>1 DEF Rest
<1>6. th'[t] = <<>>
  BY DEF Over
<1>7. \A c \in NodeCalls : \A r : ~CallIn(th[t], c, r)
  BY <1>2 DEF CallIn
<1>8. \A u \in Threads, c \in NodeCalls : \A r : CallIn(th'[u], c, r) <=> CallIn(th[u], c, r)
  BY <1>2, <1>6, <1>7 DEF ButOne, CallIn
<1>9. \A u \in Threads : InLockOf(th'[u]) <=> InLockOf(th[u])
  BY <1>2, <1>6 DEF ButOne, InLockOf
<1>10. NodesOk(th', reg)
  <2>1. ASSUME NEW u \in Threads PROVE TodoOk(th'[u], reg)
    BY <1>2, <1>5, <1>6 DEF ButOne, NodesOk, TodoOk, InLockOf
  <2>2. ASSUME NEW u \in Threads, NEW r \in Names
        PROVE  MakingOk(th'[u], r, reg[r]) /\ EndingOk(th'[u], r, reg[r])
    <3>1. CASE u = t
      BY <1>6, <3>1 DEF MakingOk, EndingOk, CallIn
    <3>2. CASE u # t
      BY <1>2, <1>5, <3>2 DEF ButOne, NodesOk
    <3> QED
      BY <3>1, <3>2
  <2>3. ReleasedOk(th')
    <3>1. ReleasedOk(th)
      BY <1>5 DEF NodesOk
    <3>2. \A u \in Threads : \A r : CallIn(th'[u], "uninstall_node", r) => th'[u] = th[u]
      BY <1>2, <1>6 DEF CallIn, ButOne
    <3>3. \A u \in Threads : \A r : CallIn(th'[u], "uninstall_node", r)
                                => CallIn(th[u], "uninstall_node", r)
      BY <3>2
    <3> QED
      BY <1>9, <3>1, <3>2, <3>3 DEF ReleasedOk
  <2>4. OneNode(th')
    BY <1>5, <1>8 DEF NodesOk, OneNode
  <2>5. Orphans(th', reg)
    <3>1. Orphans(th, reg)
      BY <1>5 DEF NodesOk
    <3>2. \A u \in Threads : \A r : CallIn(th'[u], "initialize_node", r)
                                <=> CallIn(th[u], "initialize_node", r)
      BY <1>8 DEF NodeCalls
    <3> QED
      BY <3>1, <3>2 DEF Orphans
  <2> QED
    BY <2>1, <2>2, <2>3, <2>4, <2>5 DEF NodesOk
<1>11. OwnLists(th'[t], lists)
  BY <1>6 DEF OwnLists, InLockOf
<1>12. ASSUME NEW u \in Threads PROVE OwnKnown(th'[u], reg, served)
  <2>1. CASE u = t
    BY <1>2, <2>1, FlatSilent
  <2>2. CASE u # t
    BY <1>2, <1>5, <2>2 DEF ButOne, ToldOk
  <2> QED
    BY <2>1, <2>2
<1>13. Told2(th, reg, told, served) /\ SameHandlers(reg, reg)
  BY <1>5 DEF ToldOk, Told2, SameHandlers
<1>14. Rest(th', hnd, reg, lists, told, served)
  BY <1>1, <1>2, <1>4, <1>10, <1>11, <1>12, <1>13, EdgeRest
<1>15. Rest(th', hnd', reg', lists', told', served')
  BY <1>14 DEF Still
<1> QED
  BY <1>1, <1>2, <1>3, <1>15, RestNext, TypesAre

\* The return of the only call ends it.
LEMMA ReturnsOver ==
    ASSUME NEW t, Acts(t), Len(th[t]) = 1, Return(t), LockKept,
           Fr(t).at \in {"release", "failed"}, ns' # t, NsOwn(t)
    PROVE  Over(t)
<1>1. OpTypes /\ t \in Threads /\ ~Idle(t)
  BY EdgeAt DEF Acts
<1>2. Popping(t)
  BY <1>1, ReturnPops
<1>3. /\ th' \in [Threads -> Seq(FrameType)] /\ SameOthers(t) /\ th'[t] \in Seq(FrameType)
      /\ Len(th'[t]) = 0
  BY <1>1, <1>2 DEF Popping, Popped
<1>4. th'[t] = <<>>
  BY <1>3
<1> QED
  BY <1>3, <1>4 DEF Over

\* A call at its end, and the namespace.
LEMMA EndAt ==
    ASSUME NEW t, Acts(t), Fr(t).at \in {"release", "failed"}
    PROVE  /\ Fr(t).call \in Acquiring
           /\ Fr(t).call \notin Api => ns = t
           /\ Fr(t).call # "io" => Len(th[t]) = 1
           /\ Len(th[t]) = 1 \/ (Len(th[t]) = 3 /\ Len(th[t]) > 1 /\ Inner(t))
<1>1. /\ t \in Threads /\ OpInv /\ OpTypes /\ StackOk(th[t], t) /\ NsOk(th[t], ns = t)
      /\ th[t] \in Seq(FrameType) /\ th[t] # <<>> /\ Fr(t) = Last(th[t])
      /\ Fr(t) \in FrameType /\ FrameFits(Fr(t))
  BY EdgeAt
<1>2. Fr(t).call \in Acquiring
  BY <1>1, PlacesAre DEF FrameType, FrameFits, Acquiring, Api
<1>3. Fr(t).call \notin Api => ns = t
  BY <1>1 DEF NsOk, Away
<1>4. Fr(t) = th[t][Len(th[t])]
  BY <1>1, LastSeq
<1>5. /\ Fr(t).call # "io" => Len(th[t]) = 1
      /\ Len(th[t]) = 1 \/ Len(th[t]) = 3
  <2> DEFINE e == Fr(t)
  <2>1. e = th[t][Len(th[t])]
    BY <1>4
  <2> HIDE DEF e
  <2>2. /\ e.call = "io" => Len(th[t]) = 1 \/ Len(th[t]) = 3
        /\ e.call \in Acquiring \ {"io"} => Len(th[t]) = 1
    BY <1>1, <2>1, Shape
  <2> QED
    BY <1>2, <2>2 DEF e
<1>6. CASE Len(th[t]) = 3
  <2>1. Len(th[t]) > 1
    BY <1>6
  <2>2. InLockOf(th[t])
    BY <1>1, <2>1, FlatOrIn
  <2>3. Inner(t)
    BY <1>1, <2>2 DEF Inner, Acts, InLock, InLockOf, Idle
  <2> QED
    BY <1>2, <1>3, <1>5, <1>6, <2>1, <2>3
<1> QED
  BY <1>2, <1>3, <1>5, <1>6

\* The way out of the opregion lock preserves the invariant.
LEMMA LeaveStep ==
    ASSUME NEW t, Acts(t), LeaveRegions(t)
    PROVE  OpInv'
<1>1. Still
  BY DEF LeaveRegions, Still
<1>2. \/ /\ Fr(t).at = "leave" /\ CallRelease(t) /\ Move(t, "release")
         /\ ns' = IF Fr(t).call \in Api THEN NoThread ELSE ns
      \/ /\ Fr(t).at \in {"release", "failed"} /\ Fr(t).call \notin NodeCalls
         /\ Return(t) /\ LockKept
         /\ ns' = IF ns = t /\ Len(th[t]) = 1 THEN NoThread ELSE ns
  BY DEF LeaveRegions, vars, LockKept, NodeCalls
<1>3. CASE /\ Fr(t).at = "leave" /\ CallRelease(t) /\ Move(t, "release")
           /\ ns' = IF Fr(t).call \in Api THEN NoThread ELSE ns
  BY <1>1, <1>3, ReleaseStep
<1>4. CASE /\ Fr(t).at \in {"release", "failed"} /\ Fr(t).call \notin NodeCalls
           /\ Return(t) /\ LockKept
           /\ ns' = IF ns = t /\ Len(th[t]) = 1 THEN NoThread ELSE ns
  <2>1. /\ Fr(t).call \in Acquiring
        /\ Fr(t).call # "io" => Len(th[t]) = 1
        /\ Len(th[t]) = 1 \/ (Len(th[t]) = 3 /\ Len(th[t]) > 1 /\ Inner(t))
    BY <1>4, EndAt
  <2>2. CASE Len(th[t]) = 1
    <3>1. t \in Threads
      BY DEF Acts
    <3>2. ns' # t /\ NsOwn(t)
      BY <1>4, <2>2, <3>1, ThreadsAssumption DEF NsOwn
    <3>3. Over(t)
      BY <1>4, <2>2, <3>2, ReturnsOver
    <3> QED
      BY <1>1, <1>4, <3>3, OverStep
  <2>3. CASE Len(th[t]) = 3 /\ Len(th[t]) > 1 /\ Inner(t)
    <3>1. Len(th[t]) # 1 /\ Len(th[t]) # 2 /\ Fr(t).call = "io" /\ ns' = ns
      BY <1>4, <2>1, <2>3
    <3>2. OpTypes /\ t \in Threads /\ ~Idle(t) /\ IInv'
      BY EdgeAt DEF Acts
    <3>3. Popping(t)
      BY <1>4, <3>2, ReturnPops
    <3>4. Fr(t).at # "acquire" /\ ~Inside(Fr(t)) /\ ~Away(Fr(t)) /\ Fr(t).at # "attached"
      BY <1>4, <3>1 DEF Inside, Outside, Away, Api
    <3> QED
      BY <1>1, <1>4, <2>3, <3>1, <3>2, <3>3, <3>4, GoesBack
  <2> QED
    BY <2>1, <2>2, <2>3
<1> QED
  BY <1>2, <1>3, <1>4

-----------------------------------------------------------------------------
(***************************************************************************)
(* A node comes and a node goes, at the end of the call.                   *)
(***************************************************************************)
Existing(R, r, x) == [R EXCEPT ![r].exists = x]
\* The node of one region comes or goes, and all else stays.
LEMMA ExistingFacts ==
    ASSUME NEW R \in RegType, NEW r \in Names, NEW x \in BOOLEAN, NEW R2,
           R2 = Existing(R, r, x)
    PROVE  /\ R2 \in RegType /\ SameHandlers(R, R2) /\ R2[r].exists = x
           /\ \A q \in Names : q # r => R2[q] = R[q]
           /\ \A q \in Names : R2[q].attached = R[q].attached
           /\ \A q \in Names : R2[q].regged = R[q].regged
BY DEF Existing, RegType, SameHandlers

\* NodesOk but for the node itself, when a call on it is over.
LEMMA OverNodes ==
    ASSUME NEW T, NEW U, NEW t \in Threads, ButOne(T, U, t), U[t] = <<>>,
           ~InLockOf(T[t]), NEW R, NodesOk(T, R)
    PROVE  /\ ReleasedOk(U) /\ OneNode(U)
           /\ \A u \in Threads, r \in Names : u # t => MakingOk(U[u], r, R[r])
                                                       /\ EndingOk(U[u], r, R[r])
           /\ \A x : \A r \in Names : MakingOk(U[t], r, x) /\ EndingOk(U[t], r, x)
           /\ \A u \in Threads : u # t => TodoOk(U[u], R)
           /\ \A S : TodoOk(U[t], S)
<1>1. \A u \in Threads : \A c, r : CallIn(U[u], c, r) => U[u] = T[u] /\ CallIn(T[u], c, r)
  BY DEF ButOne, CallIn
<1>2. \A u \in Threads : InLockOf(U[u]) <=> InLockOf(T[u])
  BY DEF ButOne, InLockOf
<1>3. ReleasedOk(T) /\ OneNode(T)
  BY DEF NodesOk
<1>4. ReleasedOk(U)
  BY <1>1, <1>2, <1>3 DEF ReleasedOk
<1>5. OneNode(U)
  BY <1>1, <1>3 DEF OneNode
<1>6. \A u \in Threads, r \in Names : u # t => MakingOk(U[u], r, R[r]) /\ EndingOk(U[u], r, R[r])
  BY DEF ButOne, NodesOk
<1>7. \A x : \A r \in Names : MakingOk(U[t], r, x) /\ EndingOk(U[t], r, x)
  BY DEF MakingOk, EndingOk, CallIn
<1>8. \A u \in Threads : u # t => TodoOk(U[u], R)
  BY DEF ButOne, NodesOk
<1>9. \A S : TodoOk(U[t], S)
  BY DEF TodoOk, InLockOf
<1> QED
  BY <1>4, <1>5, <1>6, <1>7, <1>8, <1>9

\* What is common to both ends.
LEMMA NodeEnds ==
    ASSUME NEW t, Acts(t), Fr(t).call \in NodeCalls, Fr(t).at \in {"release", "failed"},
           NEW r, r = Fr(t).r, Return(t), LockKept, ns' = NoThread
    PROVE  /\ Over(t) /\ CallsFit' /\ ns' \in Threads \cup {NoThread} /\ th'[t] = <<>>
           /\ th' \in [Threads -> Seq(FrameType)]
           /\ SameMarks(th[t], th'[t]) /\ ~InLockOf(th[t]) /\ ButOne(th, th', t)
           /\ t \in Threads /\ IInv' /\ OpInv /\ OpTypes /\ DataOk /\ r \in Names
           /\ reg \in RegType /\ Rest(th, hnd, reg, lists, told, served)
           /\ NodesOk(th, reg) /\ ToldOk(th, reg, told, served)
           /\ Fr(t) = th[t][1] /\ CallIn(th[t], Fr(t).call, r) /\ Len(th[t]) = 1
           /\ \A u \in Threads, c \in NodeCalls : CallIn(th[u], c, r) => u = t
<1>1. /\ t \in Threads /\ IInv' /\ OpInv /\ OpTypes /\ FrameFits(Fr(t))
      /\ ns \in Threads \cup {NoThread}
  BY EdgeAt DEF Acts
<1>2. Rest(th, hnd, reg, lists, told, served) /\ DataOk
  BY <1>1, RestNow, DataTypes
<1>3. Len(th[t]) = 1 /\ ns = t
  BY EndAt DEF NodeCalls, Api
<1>4. ns' # t /\ NsOwn(t)
  BY <1>1, <1>3, ThreadsAssumption DEF NsOwn
<1>5. Over(t)
  BY <1>3, <1>4, ReturnsOver
<1>6. /\ CallsFit' /\ ns' \in Threads \cup {NoThread} /\ Flat(th[t]) /\ Flat(th'[t])
      /\ ~InLockOf(th[t]) /\ ButOne(th, th', t) /\ Fr(t) = th[t][1] /\ th[t] # <<>>
  BY <1>5, OverFits
<1>7. SameMarks(th[t], th'[t]) /\ th'[t] = <<>> /\ th' \in [Threads -> Seq(FrameType)]
  BY <1>5, <1>6, FlatMarks DEF Over
<1>8. NodesOk(th, reg) /\ ToldOk(th, reg, told, served) /\ reg \in RegType
  BY <1>2 DEF Rest, DataOk
<1>9. r \in Names
  BY <1>1 DEF FrameFits, NodeCalls, Api
<1>10. CallIn(th[t], Fr(t).call, r)
  BY <1>6 DEF CallIn
<1>11. \A u \in Threads, c \in NodeCalls : CallIn(th[u], c, r) => u = t
  BY <1>1, <1>8, <1>9, <1>10 DEF NodesOk, OneNode
<1> QED
  BY <1>1, <1>2, <1>3, <1>5, <1>6, <1>7, <1>8, <1>9, <1>10, <1>11

\* The node is there from now on.
LEMMA MadeStep ==
    ASSUME NEW t, Acts(t), Fr(t).call = "initialize_node",
           Fr(t).at \in {"release", "failed"}, NEW r, r = Fr(t).r,
           reg' = Existing(reg, r, TRUE), Return(t), LockKept, ns' = NoThread,
           lists' = lists, hnd' = hnd, told' = told, served' = served
    PROVE  OpInv'
<1>1. Fr(t).call \in NodeCalls
  BY DEF NodeCalls
<1>2. /\ Over(t) /\ CallsFit' /\ ns' \in Threads \cup {NoThread} /\ th'[t] = <<>>
      /\ th' \in [Threads -> Seq(FrameType)]
      /\ SameMarks(th[t], th'[t]) /\ ~InLockOf(th[t]) /\ ButOne(th, th', t)
      /\ t \in Threads /\ IInv' /\ OpInv /\ OpTypes /\ DataOk /\ r \in Names
      /\ reg \in RegType /\ Rest(th, hnd, reg, lists, told, served)
      /\ NodesOk(th, reg) /\ ToldOk(th, reg, told, served)
      /\ Fr(t) = th[t][1] /\ CallIn(th[t], Fr(t).call, r) /\ Len(th[t]) = 1
      /\ \A u \in Threads, c \in NodeCalls : CallIn(th[u], c, r) => u = t
  BY <1>1, NodeEnds
<1> DEFINE x == TRUE
           R2 == Existing(reg, r, x)
<1>3. /\ R2 \in RegType /\ SameHandlers(reg, R2) /\ R2[r].exists = x
      /\ \A q \in Names : q # r => R2[q] = reg[q]
      /\ \A q \in Names : R2[q].attached = reg[q].attached
      /\ \A q \in Names : R2[q].regged = reg[q].regged
  <2>1. x \in BOOLEAN
    OBVIOUS
  <2> HIDE DEF x
  <2> QED
    BY <1>2, <2>1, ExistingFacts
<1>4. R2[r].exists /\ reg' = R2
  BY <1>3
<1> HIDE DEF R2, x
<1>5. \A q \in Names : reg[q].exists => R2[q].exists
  BY <1>3, <1>4
<1>6. /\ ReleasedOk(th') /\ OneNode(th')
      /\ \A u \in Threads, q \in Names : u # t => MakingOk(th'[u], q, reg[q])
                                                  /\ EndingOk(th'[u], q, reg[q])
      /\ \A y : \A q \in Names : MakingOk(th'[t], q, y) /\ EndingOk(th'[t], q, y)
      /\ \A u \in Threads : u # t => TodoOk(th'[u], reg)
      /\ \A S : TodoOk(th'[t], S)
  BY <1>2, OverNodes
<1>7. NodesOk(th', R2)
  <2>1. ASSUME NEW u \in Threads PROVE TodoOk(th'[u], R2)
    <3>1. CASE u = t
      BY <1>6, <3>1
    <3>2. CASE u # t
      <4>1. TodoOk(th'[u], reg) /\ th'[u] = th[u] /\ th[u] \in Seq(FrameType)
        BY <1>2, <1>6, <3>2 DEF ButOne, OpTypes
      <4>2. InLockOf(th[u]) => Range(th[u][1].todo) \subseteq Names
        BY <4>1, TodoNames DEF InLockOf
      <4> QED
        BY <1>5, <4>1, <4>2 DEF TodoOk
    <3> QED
      BY <3>1, <3>2
  <2>2. ASSUME NEW u \in Threads, NEW q \in Names
        PROVE  MakingOk(th'[u], q, R2[q]) /\ EndingOk(th'[u], q, R2[q])
    <3>1. CASE u = t
      BY <1>6, <3>1
    <3>2. CASE u # t /\ q # r
      BY <1>3, <1>6, <3>2
    <3>3. CASE u # t /\ q = r
      BY <1>2, <3>3 DEF ButOne, NodeCalls, MakingOk, EndingOk
    <3> QED
      BY <3>1, <3>2, <3>3
  <2>3. Orphans(th', R2)
    <3> SUFFICES ASSUME NEW q \in Names, ~R2[q].exists, R2[q].handler # NoHandler
                 PROVE  \E u \in Threads : CallIn(th'[u], "initialize_node", q)
      BY DEF Orphans
    <3>1. q # r /\ ~reg[q].exists /\ reg[q].handler # NoHandler
      BY <1>3, <1>4
    <3>2. PICK u \in Threads : CallIn(th[u], "initialize_node", q)
      BY <1>2, <3>1 DEF NodesOk, Orphans
    <3>3. u # t
      BY <1>2, <3>1, <3>2 DEF CallIn
    <3> QED
      BY <1>2, <3>2, <3>3 DEF ButOne
  <2> QED
    BY <1>6, <2>1, <2>2, <2>3 DEF NodesOk
<1>8. ASSUME NEW u \in Threads PROVE OwnKnown(th'[u], R2, served)
  <2>1. CASE u = t
    <3>1. Flat(th'[u])
      BY <1>2, <2>1 DEF Flat
    <3> QED
      BY <3>1, FlatSilent
  <2>2. CASE u # t
    <3>1. OwnKnown(th[u], reg, served) /\ th'[u] = th[u]
      BY <1>2, <2>2 DEF ButOne, ToldOk
    <3>2. Framed(th[u])
      BY <1>2, CallsFitNow DEF Framed, OpInv, Fits, StackOk
    <3> SUFFICES ASSUME NEW k \in DOMAIN th[u]
                 PROVE  Known(th[u][k], R2[th[u][k].r], served[th[u][k].r],
                              CallIn(th[u], "initialize_node", th[u][k].r))
      BY <3>1 DEF OwnKnown
    <3> DEFINE g == th[u][k]
    <3>3. Known(g, reg[g.r], served[g.r], CallIn(th[u], "initialize_node", g.r))
      BY <3>1 DEF OwnKnown
    <3>4. g.r \in Names \/ g.call \notin RegionCalls
      BY <3>2, FramedRegion
    <3> HIDE DEF g
    <3>5. CASE g.call \notin RegionCalls
      BY <3>5 DEF Known, RegionCalls, g
    <3>6. CASE g.r \in Names
      BY <1>3, <1>5, <3>3, <3>6 DEF Known, SameHandlers, g
    <3> QED
      BY <3>4, <3>5, <3>6
  <2> QED
    BY <2>1, <2>2
<1>9. Told2(th, R2, told, served)
  <2> SUFFICES ASSUME NEW q \in Names
               PROVE  TellOk(R2[q], told[q], served[q], Regions[q].dev \in HasReg,
                             Moving(th, q), Telling(th, q))
    BY DEF Told2
  <2>1. TellOk(reg[q], told[q], served[q], Regions[q].dev \in HasReg,
               Moving(th, q), Telling(th, q))
    BY <1>2 DEF ToldOk
  <2>2. /\ R2[q].attached = reg[q].attached /\ R2[q].regged = reg[q].regged
        /\ R2[q].handler = reg[q].handler /\ (reg[q].exists => R2[q].exists)
    BY <1>3, <1>5 DEF SameHandlers
  <2> QED
    BY <2>1, <2>2 DEF TellOk
<1>10. OwnLists(th'[t], lists)
  BY <1>2 DEF OwnLists, InLockOf
<1>11. Rest(th', hnd, R2, lists, told, served)
  BY <1>2, <1>3, <1>7, <1>8, <1>9, <1>10, EdgeRest
<1>12. Rest(th', hnd', reg', lists', told', served')
  BY <1>4, <1>11
<1>13. Types'
  <2>1. DataOk'
    BY <1>2, <1>3, <1>4 DEF DataOk
  <2> QED
    BY <1>2, <2>1, DataTypes
<1> QED
  BY <1>2, <1>12, <1>13, RestNext, TypesAre

\* The node is gone: nobody in the lock has still to visit it, and its region
\* has no handler.
LEMMA EndedStep ==
    ASSUME NEW t, Acts(t), Fr(t).call = "uninstall_node", Fr(t).at = "release",
           NEW r, r = Fr(t).r,
           reg' = Existing(reg, r, FALSE), Return(t), LockKept, ns' = NoThread,
           lists' = lists, hnd' = hnd, told' = told, served' = served
    PROVE  OpInv'
<1>1. Fr(t).call \in NodeCalls /\ Fr(t).at \in {"release", "failed"}
  BY DEF NodeCalls
<1>2. /\ Over(t) /\ CallsFit' /\ ns' \in Threads \cup {NoThread} /\ th'[t] = <<>>
      /\ th' \in [Threads -> Seq(FrameType)]
      /\ SameMarks(th[t], th'[t]) /\ ~InLockOf(th[t]) /\ ButOne(th, th', t)
      /\ t \in Threads /\ IInv' /\ OpInv /\ OpTypes /\ DataOk /\ r \in Names
      /\ reg \in RegType /\ Rest(th, hnd, reg, lists, told, served)
      /\ NodesOk(th, reg) /\ ToldOk(th, reg, told, served)
      /\ Fr(t) = th[t][1] /\ CallIn(th[t], Fr(t).call, r) /\ Len(th[t]) = 1
      /\ \A u \in Threads, c \in NodeCalls : CallIn(th[u], c, r) => u = t
  BY <1>1, NodeEnds
<1> DEFINE x == FALSE
           R2 == Existing(reg, r, x)
<1>3. /\ R2 \in RegType /\ SameHandlers(reg, R2) /\ R2[r].exists = x
      /\ \A q \in Names : q # r => R2[q] = reg[q]
      /\ \A q \in Names : R2[q].attached = reg[q].attached
      /\ \A q \in Names : R2[q].regged = reg[q].regged
  <2>1. x \in BOOLEAN
    OBVIOUS
  <2> HIDE DEF x
  <2> QED
    BY <1>2, <2>1, ExistingFacts
<1>4. ~R2[r].exists /\ reg' = R2
  BY <1>3
<1> HIDE DEF R2, x
<1>5. reg[r].handler = NoHandler
  BY <1>2 DEF NodesOk, EndingOk
<1>6. /\ ReleasedOk(th') /\ OneNode(th')
      /\ \A u \in Threads, q \in Names : u # t => MakingOk(th'[u], q, reg[q])
                                                  /\ EndingOk(th'[u], q, reg[q])
      /\ \A y : \A q \in Names : MakingOk(th'[t], q, y) /\ EndingOk(th'[t], q, y)
      /\ \A u \in Threads : u # t => TodoOk(th'[u], reg)
      /\ \A S : TodoOk(th'[t], S)
  BY <1>2, OverNodes
<1>7. \A u \in Threads : ~InLockOf(th[u]) /\ Flat(th[u]) /\ ~InLockOf(th'[u]) /\ Flat(th'[u])
  <2> SUFFICES ASSUME NEW u \in Threads
               PROVE  ~InLockOf(th[u]) /\ Flat(th[u]) /\ ~InLockOf(th'[u]) /\ Flat(th'[u])
    OBVIOUS
  <2>1. ~InLockOf(th[u])
    BY <1>2 DEF NodesOk, ReleasedOk
  <2>2. th[u] \in Seq(FrameType) /\ StackOk(th[u], u)
    BY <1>2, CallsFitNow DEF OpInv, OpTypes, Fits
  <2>3. Flat(th[u])
    BY <2>1, <2>2, FlatOrIn
  <2>4. th'[u] = th[u] \/ th'[u] = <<>>
    BY <1>2 DEF ButOne
  <2> QED
    BY <2>1, <2>3, <2>4 DEF Flat, InLockOf
<1>8. NodesOk(th', R2)
  <2>1. ASSUME NEW u \in Threads PROVE TodoOk(th'[u], R2)
    BY <1>7 DEF TodoOk
  <2>2. ASSUME NEW u \in Threads, NEW q \in Names
        PROVE  MakingOk(th'[u], q, R2[q]) /\ EndingOk(th'[u], q, R2[q])
    <3>1. CASE u = t
      BY <1>6, <3>1
    <3>2. CASE u # t /\ q # r
      BY <1>3, <1>6, <3>2
    <3>3. CASE u # t /\ q = r
      BY <1>2, <3>3 DEF ButOne, NodeCalls, MakingOk, EndingOk
    <3> QED
      BY <3>1, <3>2, <3>3
  <2>3. Orphans(th', R2)
    <3> SUFFICES ASSUME NEW q \in Names, ~R2[q].exists, R2[q].handler # NoHandler
                 PROVE  \E u \in Threads : CallIn(th'[u], "initialize_node", q)
      BY DEF Orphans
    <3>1. q # r
      BY <1>3, <1>5 DEF SameHandlers
    <3>2. ~reg[q].exists /\ reg[q].handler # NoHandler
      BY <1>3, <3>1
    <3>3. PICK u \in Threads : CallIn(th[u], "initialize_node", q)
      BY <1>2, <3>2 DEF NodesOk, Orphans
    <3>4. u # t
      BY <1>2, <3>3 DEF CallIn
    <3> QED
      BY <1>2, <3>3, <3>4 DEF ButOne
  <2> QED
    BY <1>6, <2>1, <2>2, <2>3 DEF NodesOk
<1>9. ASSUME NEW u \in Threads PROVE OwnKnown(th'[u], R2, served)
  BY <1>7, FlatSilent
<1>10. Told2(th, R2, told, served)
  <2> SUFFICES ASSUME NEW q \in Names
               PROVE  TellOk(R2[q], told[q], served[q], Regions[q].dev \in HasReg,
                             Moving(th, q), Telling(th, q))
    BY DEF Told2
  <2>1. TellOk(reg[q], told[q], served[q], Regions[q].dev \in HasReg,
               Moving(th, q), Telling(th, q))
    BY <1>2 DEF ToldOk
  <2>2. /\ R2[q].attached = reg[q].attached /\ R2[q].regged = reg[q].regged
        /\ R2[q].handler = reg[q].handler
    BY <1>3 DEF SameHandlers
  <2>3. q # r => R2[q].exists = reg[q].exists
    BY <1>3
  <2> QED
    BY <1>5, <2>1, <2>2, <2>3 DEF TellOk
<1>11. OwnLists(th'[t], lists)
  BY <1>2 DEF OwnLists, InLockOf
<1>12. Rest(th', hnd, R2, lists, told, served)
  BY <1>2, <1>3, <1>8, <1>9, <1>10, <1>11, EdgeRest
<1>13. Rest(th', hnd', reg', lists', told', served')
  BY <1>4, <1>12
<1>14. Types'
  <2>1. DataOk'
    BY <1>2, <1>3, <1>4 DEF DataOk
  <2> QED
    BY <1>2, <2>1, DataTypes
<1> QED
  BY <1>2, <1>13, <1>14, RestNext, TypesAre

-----------------------------------------------------------------------------
(***************************************************************************)
(* A call starts.                                                          *)
(***************************************************************************)
\* Nobody makes or ends the node of r.
NoNodeCall(r) == \A u \in Threads, c \in NodeCalls : ~CallIn(th[u], c, r)
SameAttached(R, R2) ==
  \A q \in Names : R2[q].attached = R[q].attached /\ R2[q].exists = R[q].exists
Begins(t, f) ==
  /\ OpInv /\ IInv' /\ t \in Threads /\ Idle(t) /\ Unlocked(t)
  /\ f \in FrameType /\ FrameFits(f) /\ f.at = "start" /\ f.todo = <<>>
  /\ f.call \in Acquiring /\ (f.call \in Api <=> t \in Users)
  /\ th' = [th EXCEPT ![t] = <<f>>] /\ LockKept
  /\ lists' = lists /\ hnd' = hnd /\ served' = served

\* CallsFit, when a thread begins a call.
LEMMA BeginFits ==
    ASSUME NEW t, NEW f, Begins(t, f), f.call \in Api => ns' = ns,
           f.call \notin Api => Lock(t)
    PROVE  /\ CallsFit' /\ ns' \in Threads \cup {NoThread}
           /\ th' \in [Threads -> Seq(FrameType)] /\ ButOne(th, th', t)
           /\ Flat(th[t]) /\ Flat(th'[t]) /\ ~InLockOf(th'[t]) /\ th[t] = <<>>
           /\ th'[t] # <<>> /\ th'[t][1] = f /\ Len(th'[t]) = 1
<1>1. /\ OpTypes /\ CallsFit /\ TypeOK /\ t \in Threads /\ th[t] = <<>> /\ pc[t] = "ready"
  BY DEF Begins, OpInv, IInv, Idle, Unlocked
<1>2. th \in [Threads -> Seq(FrameType)] /\ ns \in Threads \cup {NoThread}
  BY <1>1 DEF OpTypes
<1>3. <<f>> \in Seq(FrameType) /\ Len(<<f>>) = 1 /\ DOMAIN <<f>> = 1 .. 1 /\ <<f>>[1] = f
      /\ <<f>> # <<>>
  BY DEF Begins
<1>4. /\ th'[t] = <<f>> /\ \A u \in Threads : u # t => th'[u] = th[u]
      /\ th' \in [Threads -> Seq(FrameType)]
  BY <1>1, <1>2, <1>3 DEF Begins
<1>5. Last(<<f>>) = f
  BY <1>3, LastSeq
<1>6. Fits(t, th[t], "ready", held[t], ns = t)
  BY <1>1, CallsFitNow
<1>7. held[t] = 0 /\ ns # t
  BY <1>1, <1>6 DEF Fits, HeldOk, NsOk
<1>8. pc'[t] = "ready" /\ held'[t] = 0
  BY <1>1, <1>7 DEF Begins, LockKept
<1>9. StackOk(<<f>>, t)
  BY <1>3 DEF StackOk, Begins
<1>10. ~Inside(f) /\ f.at = "start" /\ Under(<<f>>) = 0
  BY <1>3 DEF Begins, Inside, Outside, Under
<1>11. HeldOk(<<f>>, pc'[t], held'[t])
  BY <1>3, <1>5, <1>8, <1>10 DEF HeldOk
<1>12. NsOwn(t) /\ (ns' = t <=> ~Away(f))
  BY <1>7, <1>10 DEF NsOwn, Away, Lock, Outside
<1>13. NsOk(<<f>>, ns' = t)
  BY <1>3, <1>5, <1>12 DEF NsOk
<1>14. Fits(t, th'[t], pc'[t], held'[t], ns' = t)
  BY <1>4, <1>9, <1>11, <1>13 DEF Fits
<1>15. SameOthers(t) /\ \A u \in Threads : u # t => pc'[u] = pc[u] /\ held'[u] = held[u]
  BY <1>4 DEF SameOthers, Begins, LockKept
<1>16. Others(t) /\ ns' \in Threads \cup {NoThread}
  BY <1>1, <1>2, <1>12, <1>15, OwnStep
<1>17. CallsFit'
  BY <1>1, <1>14, <1>16, ThreadStep
<1>18. Flat(th[t]) /\ Flat(th'[t]) /\ ~InLockOf(th'[t])
  BY <1>1, <1>3, <1>4, <1>10 DEF Flat, InLockOf, Outside, Begins
<1> QED
  BY <1>1, <1>3, <1>4, <1>16, <1>17, <1>18 DEF ButOne

\* The invariant, when a thread begins a call.
LEMMA BeginStep ==
    ASSUME NEW t, NEW f, Begins(t, f), f.call \in Api => ns' = ns,
           f.call \notin Api => Lock(t), reg' \in RegType,
           told' \in [Names -> {"never", "connect", "disconnect"}],
           SameHandlers(reg, reg'), SameAttached(reg, reg'),
           f.call \in NodeCalls => NoNodeCall(f.r),
           f.call = "initialize_node" => ~reg[f.r].exists,
           f.call = "uninstall_node" => reg[f.r].exists,
           \A u \in Threads : OwnKnown(th[u], reg', served),
           Told2(th, reg', told', served)
    PROVE  OpInv'
<1>1. /\ CallsFit' /\ ns' \in Threads \cup {NoThread}
      /\ th' \in [Threads -> Seq(FrameType)] /\ ButOne(th, th', t)
      /\ Flat(th[t]) /\ Flat(th'[t]) /\ ~InLockOf(th'[t]) /\ th[t] = <<>>
      /\ th'[t] # <<>> /\ th'[t][1] = f /\ Len(th'[t]) = 1
  BY BeginFits
<1>2. /\ t \in Threads /\ IInv' /\ OpInv /\ Rest(th, hnd, reg, lists, told, served) /\ DataOk
      /\ f.at = "start" /\ th \in [Threads -> Seq(FrameType)]
  BY RestNow, DataTypes DEF Begins, OpInv, OpTypes
<1>3. SameMarks(th[t], th'[t])
  BY <1>1, FlatMarks
<1>4. NodesOk(th, reg)
  BY <1>2 DEF Rest
<1>5. \A u \in Threads : \A c, r :
        CallIn(th'[u], c, r) => \/ u # t /\ CallIn(th[u], c, r) /\ th'[u] = th[u]
                                \/ u = t /\ f.call = c /\ f.r = r
  BY <1>1 DEF ButOne, CallIn
<1>6. \A u \in Threads : \A c, r : CallIn(th[u], c, r) => CallIn(th'[u], c, r) /\ u # t
  BY <1>1 DEF ButOne, CallIn
<1>7. NodesOk(th', reg')
  <2>1. ASSUME NEW u \in Threads PROVE TodoOk(th'[u], reg')
    <3>1. CASE u = t
      BY <1>1, <3>1 DEF TodoOk
    <3>2. CASE u # t
      <4>1. TodoOk(th[u], reg) /\ th'[u] = th[u] /\ th[u] \in Seq(FrameType)
        BY <1>1, <1>2, <1>4, <3>2 DEF ButOne, NodesOk
      <4>2. InLockOf(th[u]) => Range(th[u][1].todo) \subseteq Names
        BY <4>1, TodoNames DEF InLockOf
      <4> QED
        BY <4>1, <4>2 DEF TodoOk, SameAttached
    <3> QED
      BY <3>1, <3>2
  <2>2. ASSUME NEW u \in Threads, NEW q \in Names
        PROVE  MakingOk(th'[u], q, reg'[q]) /\ EndingOk(th'[u], q, reg'[q])
    <3>1. CASE u # t
      <4>1. MakingOk(th[u], q, reg[q]) /\ EndingOk(th[u], q, reg[q]) /\ th'[u] = th[u]
        BY <1>1, <1>4, <3>1 DEF ButOne, NodesOk
      <4>2. reg'[q].handler = reg[q].handler /\ reg'[q].exists = reg[q].exists
        BY DEF SameHandlers, SameAttached
      <4> QED
        BY <4>1, <4>2 DEF MakingOk, EndingOk
    <3>2. CASE u = t
      <4>1. reg'[q].handler = reg[q].handler /\ reg'[q].exists = reg[q].exists
        BY DEF SameHandlers, SameAttached
      <4>2. EndingOk(th'[t], q, reg'[q])
        BY <1>1, <1>2, <4>1 DEF EndingOk, CallIn
      <4>3. MakingOk(th'[t], q, reg'[q])
        <5> SUFFICES ASSUME CallIn(th'[t], "initialize_node", q)
                     PROVE  ~reg[q].exists /\ reg[q].handler = NoHandler
          BY <4>1 DEF MakingOk
        <5>1. f.call = "initialize_node" /\ f.r = q
          BY <1>1 DEF CallIn
        <5>2. NoNodeCall(q) /\ ~reg[q].exists
          BY <5>1 DEF NodeCalls
        <5>3. reg[q].handler = NoHandler
          BY <1>4, <5>2 DEF NodesOk, Orphans, NoNodeCall, NodeCalls
        <5> QED
          BY <5>2, <5>3
      <4> QED
        BY <3>2, <4>2, <4>3
    <3> QED
      BY <3>1, <3>2
  <2>3. ReleasedOk(th')
    <3> SUFFICES ASSUME NEW a \in Threads, NEW b \in Threads, NEW r \in Names,
                        CallIn(th'[a], "uninstall_node", r), th'[a][1].at = "release",
                        InLockOf(th'[b])
                 PROVE  FALSE
      BY DEF ReleasedOk
    <3>1. a # t /\ b # t
      BY <1>1, <1>2
    <3>2. th'[a] = th[a] /\ th'[b] = th[b]
      BY <1>1, <3>1 DEF ButOne
    <3>3. ReleasedOk(th)
      BY <1>4 DEF NodesOk
    <3> QED
      BY <3>2, <3>3 DEF ReleasedOk
  <2>4. OneNode(th')
    <3> SUFFICES ASSUME NEW a \in Threads, NEW b \in Threads, NEW r \in Names,
                        NEW c \in NodeCalls, NEW d \in NodeCalls,
                        CallIn(th'[a], c, r), CallIn(th'[b], d, r), a # b
                 PROVE  FALSE
      BY DEF OneNode
    <3>1. OneNode(th)
      BY <1>4 DEF NodesOk
    <3>2. \/ CallIn(th[a], c, r) /\ CallIn(th[b], d, r)
          \/ f.call \in NodeCalls /\ f.r = r /\ (CallIn(th[a], c, r) \/ CallIn(th[b], d, r))
      BY <1>5
    <3>3. f.call \in NodeCalls /\ f.r = r => NoNodeCall(r)
      OBVIOUS
    <3> QED
      BY <3>1, <3>2, <3>3 DEF OneNode, NoNodeCall
  <2>5. Orphans(th', reg')
    <3>1. Orphans(th, reg)
      BY <1>4 DEF NodesOk
    <3>2. \A q \in Names : reg'[q].handler = reg[q].handler /\ reg'[q].exists = reg[q].exists
      BY DEF SameHandlers, SameAttached
    <3> QED
      BY <1>6, <3>1, <3>2 DEF Orphans
  <2> QED
    BY <2>1, <2>2, <2>3, <2>4, <2>5 DEF NodesOk
<1>8. ASSUME NEW u \in Threads PROVE OwnKnown(th'[u], reg', served)
  <2>1. CASE u = t
    BY <1>1, <2>1, FlatSilent
  <2>2. CASE u # t
    BY <1>1, <2>2 DEF ButOne
  <2> QED
    BY <2>1, <2>2
<1>9. OwnLists(th'[t], lists)
  BY <1>1 DEF OwnLists
<1>10. Rest(th', hnd, reg', lists, told', served)
  <2>1. ASSUME NEW R2, R2 = reg', NEW tl2, tl2 = told'
        PROVE  Rest(th', hnd, R2, lists, tl2, served)
    <3>1. SameHandlers(reg, R2) /\ NodesOk(th', R2) /\ Told2(th, R2, tl2, served)
          /\ \A u \in Threads : OwnKnown(th'[u], R2, served)
      BY <1>7, <1>8, <2>1
    <3> QED
      BY <1>1, <1>2, <1>3, <1>9, <3>1, EdgeRest
  <2> QED
    BY <2>1
<1>11. Rest(th', hnd', reg', lists', told', served')
  BY <1>10 DEF Begins
<1>12. Types'
  <2>1. DataOk'
    BY <1>2 DEF DataOk, Begins
  <2> QED
    BY <1>1, <2>1, DataTypes
<1> QED
  BY <1>1, <1>2, <1>11, <1>12, RestNext, TypesAre

\* A call that changes nothing when it starts.
LEMMA QuietBegins ==
    ASSUME NEW t, NEW f, Begins(t, f), f.call \in Api => ns' = ns,
           f.call \notin Api => Lock(t), reg' = reg, told' = told,
           f.call \in NodeCalls => NoNodeCall(f.r), f.call # "initialize_node",
           f.call = "uninstall_node" => reg[f.r].exists
    PROVE  OpInv'
<1>1. OpInv /\ Rest(th, hnd, reg, lists, told, served) /\ DataOk
  BY RestNow, DataTypes DEF Begins, OpInv
<1>2. ToldOk(th, reg, told, served)
  BY <1>1 DEF Rest
<1>3. reg' \in RegType /\ told' \in [Names -> {"never", "connect", "disconnect"}]
  BY <1>1 DEF DataOk
<1>4. SameHandlers(reg, reg') /\ SameAttached(reg, reg')
  BY DEF SameHandlers, SameAttached
<1>5. (\A u \in Threads : OwnKnown(th[u], reg, served)) /\ Told2(th, reg, told, served)
  BY <1>2 DEF ToldOk, Told2
<1>6. (\A u \in Threads : OwnKnown(th[u], reg', served)) /\ Told2(th, reg', told', served)
  BY <1>5
<1> QED
  BY <1>3, <1>4, <1>6, BeginStep

\* uacpi_initialize_opregion_node starts on a region nobody has told firmware of.
LEMMA MakeBegins ==
    ASSUME NEW t, NEW f, Begins(t, f), f.call = "initialize_node", Lock(t),
           NEW r \in Names, r = f.r, NEW v \in BOOLEAN, ~v, reg' = Regged(reg, r, v),
           told' = With(told, r, "never"), NoNodeCall(r), ~reg[r].exists
    PROVE  OpInv'
<1>1. /\ OpInv /\ Rest(th, hnd, reg, lists, told, served) /\ DataOk /\ CallsFit
      /\ th \in [Threads -> Seq(FrameType)]
  BY RestNow, DataTypes DEF Begins, OpInv, OpTypes
<1>2. ToldOk(th, reg, told, served)
  BY <1>1 DEF Rest
<1>3. reg \in RegType /\ told \in [Names -> {"never", "connect", "disconnect"}]
  BY <1>1 DEF DataOk
<1>4. reg' \in RegType
  BY <1>3, ReggedType
<1>5. told' \in [Names -> {"never", "connect", "disconnect"}] /\ told'[r] = "never"
      /\ \A q \in Names : q # r => told'[q] = told[q]
  BY <1>3 DEF With
<1>6. /\ \A q \in Names : q # r => reg'[q] = reg[q]
      /\ reg'[r].handler = reg[r].handler /\ reg'[r].attached = reg[r].attached
      /\ reg'[r].exists = reg[r].exists /\ (reg'[r].regged <=> v)
  BY <1>3 DEF Regged, RegType
<1>7. SameHandlers(reg, reg') /\ SameAttached(reg, reg')
  BY <1>6 DEF SameHandlers, SameAttached
<1>8. ASSUME NEW u \in Threads PROVE OwnKnown(th[u], reg', served)
  <2> DEFINE s == th[u]
  <2>1. OwnKnown(s, reg, served) /\ ~CallIn(s, "initialize_node", r)
    BY <1>2 DEF ToldOk, NoNodeCall, NodeCalls
  <2>2. Framed(s)
    BY <1>1, CallsFitNow DEF Fits, StackOk, Framed
  <2> SUFFICES OwnKnown(s, reg', served)
    OBVIOUS
  <2> HIDE DEF s
  <2> SUFFICES ASSUME NEW k \in DOMAIN s
               PROVE  Known(s[k], reg'[s[k].r], served[s[k].r],
                            CallIn(s, "initialize_node", s[k].r))
    BY DEF OwnKnown
  <2>3. Known(s[k], reg[s[k].r], served[s[k].r], CallIn(s, "initialize_node", s[k].r))
    BY <2>1 DEF OwnKnown
  <2>4. s[k].r \in Names \/ s[k].call \notin RegionCalls
    BY <2>2, FramedRegion
  <2>5. CASE s[k].call \notin RegionCalls
    BY <2>5 DEF Known, RegionCalls
  <2>6. CASE s[k].r \in Names /\ s[k].r # r
    BY <1>6, <2>3, <2>6
  <2>7. CASE s[k].r = r
    <3>1. ~(s[k].call = "_REG" /\ s[k].at = "start")
      BY <2>1, <2>3, <2>7 DEF Known
    <3> QED
      BY <1>6, <2>3, <2>7, <3>1 DEF Known
  <2> QED
    BY <2>4, <2>5, <2>6, <2>7
<1>9. Told2(th, reg', told', served)
  <2> SUFFICES ASSUME NEW q \in Names
               PROVE  TellOk(reg'[q], told'[q], served[q], Regions[q].dev \in HasReg,
                             Moving(th, q), Telling(th, q))
    BY DEF Told2
  <2>1. TellOk(reg[q], told[q], served[q], Regions[q].dev \in HasReg,
               Moving(th, q), Telling(th, q))
    BY <1>2 DEF ToldOk
  <2>2. CASE q # r
    BY <1>5, <1>6, <2>1, <2>2
  <2>3. CASE q = r
    BY <1>5, <1>6, <2>1, <2>3 DEF TellOk
  <2> QED
    BY <2>2, <2>3
<1>10. /\ f.call \notin Api /\ f.call # "uninstall_node"
       /\ (f.call \in NodeCalls => NoNodeCall(f.r)) /\ ~reg[f.r].exists
  BY DEF Api
<1> QED
  BY <1>4, <1>5, <1>7, <1>8, <1>9, <1>10, BeginStep

\* The frame of a user's call.
UserCall(call, d, space) == [Frame(call, "none") EXCEPT !.dev = d, !.space = space]
\* A user's call is a frame of its kind.
LEMMA UserFrame ==
    ASSUME NEW call \in Api, NEW o \in Offers, NEW f, f = UserCall(call, o[1], o[2])
    PROVE  /\ f \in FrameType /\ FrameFits(f) /\ f.call = call /\ f.at = "start"
           /\ f.todo = <<>>
<1>1. f = [call |-> call, at |-> "start", r |-> "none", dev |-> o[1], space |-> o[2],
           h |-> NoHandler, todo |-> <<>>, code |-> "none", unreg |-> FALSE, held |-> 0]
  BY DEF UserCall, Frame
<1>2. call \in DOMAIN PlacesOf /\ "start" \in PlacesOf[call]
  BY PlacesAre DEF Api, Outside
<1>3. o[1] \in Range(Devices) /\ o[1] \in {x[1] : x \in Offers} \cup {"none"}
      /\ o[2] \in Spaces
  BY DevicesSeq DEF Spaces
<1>4. <<>> \in Seq(Names) /\ 0 \in Nat /\ FALSE \in BOOLEAN
      /\ "start" \in UNION {PlacesOf[c] : c \in DOMAIN PlacesOf}
  BY <1>2
<1>5. f \in FrameType
  BY <1>1, <1>2, <1>3, <1>4 DEF FrameType, NoHandler
<1>6. /\ f.call = call /\ f.at = "start" /\ f.todo = <<>> /\ f.dev = o[1]
  BY <1>1
<1>7. FrameFits(f)
  BY <1>2, <1>3, <1>6 DEF FrameFits
<1> QED
  BY <1>5, <1>6, <1>7

\* Whoever begins which call, the invariant is preserved.
LEMMA NewCallStep ==
    ASSUME OpInv, IInv', NEW t \in Threads, NewCall(t)
    PROVE  OpInv'
<1>1. Idle(t) /\ Unlocked(t) /\ LockKept /\ lists' = lists /\ hnd' = hnd /\ served' = served
  BY DEF NewCall, LockKept, vars
<1>2. CASE /\ t \in Users
           /\ \E call \in {"install", "uninstall", "reg_all"}, offer \in Offers :
                th' = [th EXCEPT ![t] =
                  << [Frame(call, "none") EXCEPT !.dev = offer[1], !.space = offer[2]] >>]
           /\ UNCHANGED <<reg, ns, told>>
  <2>1. PICK call \in Api, offer \in Offers :
          th' = [th EXCEPT ![t] = << UserCall(call, offer[1], offer[2]) >>]
    BY <1>2 DEF Api, UserCall
  <2> DEFINE f == UserCall(call, offer[1], offer[2])
  <2>2. th' = [th EXCEPT ![t] = <<f>>]
    BY <2>1
  <2>3. /\ f \in FrameType /\ FrameFits(f) /\ f.call = call /\ f.at = "start"
        /\ f.todo = <<>>
    BY UserFrame
  <2> HIDE DEF f
  <2>4. f.call \in Api /\ f.call \in Acquiring /\ f.call \notin NodeCalls
        /\ f.call # "initialize_node" /\ f.call # "uninstall_node"
    BY <2>3 DEF Api, Acquiring, NodeCalls
  <2>5. Begins(t, f)
    BY <1>1, <1>2, <2>2, <2>3, <2>4 DEF Begins
  <2> QED
    BY <1>2, <2>4, <2>5, QuietBegins
<1>3. CASE t \notin Users /\ Lock(t) /\ ~(t \in Users)
           /\ \E r \in Names :
                LET begin(call) == th' = [th EXCEPT ![t] = << Frame(call, r) >>]
                    busy == \E u \in Threads : ~Idle(u) /\ th[u][1].r = r
                                               /\ th[u][1].call # "io"
                IN \/ begin("io") /\ UNCHANGED <<reg, told>>
                   \/ /\ Regions[r].temp /\ ~reg[r].exists /\ ~busy
                      /\ reg' = [reg EXCEPT ![r].regged = FALSE]
                      /\ told' = [told EXCEPT ![r] = "never"]
                      /\ begin("initialize_node")
                   \/ /\ Regions[r].temp /\ reg[r].exists /\ ~busy
                      /\ begin("uninstall_node") /\ UNCHANGED <<reg, told>>
  <2>1. PICK r \in Names :
          LET begin(call) == th' = [th EXCEPT ![t] = << Frame(call, r) >>]
              busy == \E u \in Threads : ~Idle(u) /\ th[u][1].r = r
                                         /\ th[u][1].call # "io"
          IN \/ begin("io") /\ UNCHANGED <<reg, told>>
             \/ /\ Regions[r].temp /\ ~reg[r].exists /\ ~busy
                /\ reg' = [reg EXCEPT ![r].regged = FALSE]
                /\ told' = [told EXCEPT ![r] = "never"]
                /\ begin("initialize_node")
             \/ /\ Regions[r].temp /\ reg[r].exists /\ ~busy
                /\ begin("uninstall_node") /\ UNCHANGED <<reg, told>>
    BY <1>3
  <2>2. (~\E u \in Threads : ~Idle(u) /\ th[u][1].r = r /\ th[u][1].call # "io")
          => NoNodeCall(r)
    BY DEF NoNodeCall, CallIn, Idle, NodeCalls
  <2>3. ASSUME NEW call \in {"io", "initialize_node", "uninstall_node"},
               th' = [th EXCEPT ![t] = << Frame(call, r) >>],
               NEW f, f = Frame(call, r)
        PROVE  /\ Begins(t, f) /\ f.call = call /\ f.call \notin Api /\ f.r = r
    <3>1. th' = [th EXCEPT ![t] = <<f>>]
      BY <2>3
    <3>2. /\ f \in FrameType /\ FrameFits(f) /\ f.call = call /\ f.at = "start"
          /\ f.r = r /\ f.todo = <<>>
      BY <2>3, NewFrame
    <3>3. f.call \notin Api /\ f.call \in Acquiring
      BY <3>2 DEF Api, Acquiring
    <3> QED
      BY <1>1, <1>3, <3>1, <3>2, <3>3 DEF Begins
  <2>4. CASE th' = [th EXCEPT ![t] = << Frame("io", r) >>] /\ UNCHANGED <<reg, told>>
    <3> DEFINE f == Frame("io", r)
    <3>1. Begins(t, f) /\ f.call = "io" /\ f.call \notin Api /\ f.r = r
      BY <2>3, <2>4
    <3> HIDE DEF f
    <3>2. f.call \notin NodeCalls /\ f.call # "initialize_node" /\ f.call # "uninstall_node"
      BY <3>1 DEF NodeCalls
    <3> QED
      BY <1>3, <2>4, <3>1, <3>2, QuietBegins
  <2>5. CASE /\ ~reg[r].exists /\ NoNodeCall(r)
             /\ reg' = [reg EXCEPT ![r].regged = FALSE]
             /\ told' = [told EXCEPT ![r] = "never"]
             /\ th' = [th EXCEPT ![t] = << Frame("initialize_node", r) >>]
    <3> DEFINE f == Frame("initialize_node", r)
               v == FALSE
    <3>1. Begins(t, f) /\ f.call = "initialize_node" /\ f.call \notin Api /\ f.r = r
      BY <2>3, <2>5
    <3>2. reg' = Regged(reg, r, v) /\ told' = With(told, r, "never") /\ ~v /\ v \in BOOLEAN
      BY <2>5 DEF Regged, With
    <3> HIDE DEF f, v
    <3> QED
      BY <1>3, <2>5, <3>1, <3>2, MakeBegins
  <2>6. CASE /\ reg[r].exists /\ NoNodeCall(r)
             /\ th' = [th EXCEPT ![t] = << Frame("uninstall_node", r) >>]
             /\ UNCHANGED <<reg, told>>
    <3> DEFINE f == Frame("uninstall_node", r)
    <3>1. Begins(t, f) /\ f.call = "uninstall_node" /\ f.call \notin Api /\ f.r = r
      BY <2>3, <2>6
    <3> HIDE DEF f
    <3>2. f.call # "initialize_node"
      BY <3>1
    <3> QED
      BY <1>3, <2>6, <3>1, <3>2, QuietBegins
  <2> QED
    BY <2>1, <2>2, <2>4, <2>5, <2>6
<1> QED
  BY <1>2, <1>3 DEF NewCall

-----------------------------------------------------------------------------
(***************************************************************************)
(* The steps of the lock itself, and of the subsystem.                     *)
(***************************************************************************)
\* What a step of the lock does to the place of a thread and to its count.
LockMoves(p, h, q, g, mayfail) ==
  \/ p = "acquire" /\ q = "ready" /\ g = h + 1
  \/ p = "acquire" /\ q = "take" /\ g = h
  \/ p = "take" /\ q = "store" /\ g = h
  \/ p = "take" /\ q = "ready" /\ g = h /\ mayfail
  \/ p = "store" /\ q = "ready" /\ g = h + 1
  \/ p = "release" /\ q \in {"ready", "drop"} /\ g = h - 1
  \/ p = "drop" /\ q = "unlock" /\ g = h
  \/ p = "unlock" /\ q = "ready" /\ g = h

\* A step of the lock makes such a move, and for one thread.
LEMMA LockStepMoves ==
    ASSUME TypeOK, NEW t \in Threads, LockStep(t), NEW m,
           m <=> Fr(t).call # "uninstall_node"
    PROVE  /\ LockMoves(pc[t], held[t], pc'[t], held'[t], m)
           /\ \A u \in Threads : u # t => pc'[u] = pc[u] /\ held'[u] = held[u]
<1>1. pc \in [Threads -> Places] /\ held \in [Threads -> Nat]
  BY DEF TypeOK
<1>2. CASE LoadOwner(t)
  BY <1>1, <1>2 DEF LoadOwner, Goto, LockMoves
<1>3. CASE TakeMutex(t)
  BY <1>1, <1>3 DEF TakeMutex, Goto, LockMoves
<1>4. CASE StoreOwner(t)
  BY <1>1, <1>4 DEF StoreOwner, Goto, LockMoves
<1>5. CASE TakeMutexFails(t) /\ Fr(t).call # "uninstall_node"
  BY <1>1, <1>5 DEF TakeMutexFails, Goto, LockMoves
<1>6. CASE CountDown(t)
  BY <1>1, <1>6 DEF CountDown, Goto, LockMoves
<1>7. CASE DropOwner(t)
  BY <1>1, <1>7 DEF DropOwner, Goto, LockMoves
<1>8. CASE Unlock(t)
  BY <1>1, <1>8 DEF Unlock, Goto, LockMoves
<1> QED
  BY <1>2, <1>3, <1>4, <1>5, <1>6, <1>7, <1>8 DEF LockStep

\* Such a move fits where the call waits for the lock.
LEMMA LockMovesHeld ==
    ASSUME NEW s, NEW p, NEW h \in Nat, NEW q, NEW g, NEW m,
           m => Last(s).call # "uninstall_node", LockMoves(p, h, q, g, m), HeldOk(s, p, h)
    PROVE  HeldOk(s, q, g)
<1>1. s # <<>> /\ Last(s).at \in {"acquire", "release"}
  BY DEF LockMoves, HeldOk
<1>2. Under(s) \in Nat
  BY DEF Under
<1>3. CASE Last(s).at = "acquire"
  <2>1. /\ p \in {"acquire", "take", "store"} /\ h = Under(s)
        /\ Last(s).held = Under(s)
    BY <1>1, <1>3 DEF LockMoves, HeldOk
  <2>2. /\ q \in {"ready", "acquire", "take", "store"}
        /\ (g # Under(s) => g = Under(s) + 1 /\ q = "ready")
        /\ (Last(s).call = "uninstall_node" /\ q = "ready" => g # Under(s))
    BY <1>2, <2>1 DEF LockMoves
  <2> QED
    BY <1>1, <1>3, <2>1, <2>2 DEF HeldOk
<1>4. CASE Last(s).at = "release"
  <2>1. /\ p \in {"release", "drop", "unlock"}
        /\ h = Under(s) + (IF p = "release" THEN 1 ELSE 0)
    BY <1>1, <1>4 DEF LockMoves, HeldOk
  <2>2. /\ q \in {"ready", "drop", "unlock"} /\ g = Under(s)
    BY <1>2, <2>1 DEF LockMoves
  <2>3. g = Under(s) + (IF q = "release" THEN 1 ELSE 0)
    BY <1>2, <2>2
  <2> QED
    BY <1>1, <1>4, <2>2, <2>3 DEF HeldOk
<1> QED
  BY <1>1, <1>3, <1>4

\* Nothing changes but the lock.
LEMMA OnlyLock ==
    ASSUME OpInv, IInv', CallsFit', UNCHANGED opvars
    PROVE  OpInv'
<1>1. OpTypes /\ Rest(th, hnd, reg, lists, told, served)
  BY RestNow DEF OpInv
<1>2. Rest(th', hnd', reg', lists', told', served')
  BY <1>1 DEF opvars
<1>3. OpTypes'
  BY <1>1 DEF OpTypes, opvars
<1> QED
  BY <1>2, <1>3, RestNext

\* A step of the lock preserves the invariant.
LEMMA LockStepStep ==
    ASSUME OpInv, IInv', NEW t \in Threads, LockStep(t)
    PROVE  OpInv'
<1>1. TypeOK /\ CallsFit /\ OpTypes
  BY DEF OpInv, IInv
<1>2. UNCHANGED opvars
  BY DEF LockStep
<1>3. held[t] \in Nat
  BY <1>1 DEF TypeOK
<1>4. Fits(t, th[t], pc[t], held[t], ns = t)
  BY <1>1, CallsFitNow
<1> DEFINE m == Fr(t).call # "uninstall_node"
<1>5. m => Last(th[t]).call # "uninstall_node"
  BY DEF Fr
<1>6. m <=> Fr(t).call # "uninstall_node"
  OBVIOUS
<1> HIDE DEF m
<1>7. /\ LockMoves(pc[t], held[t], pc'[t], held'[t], m)
      /\ \A u \in Threads : u # t => pc'[u] = pc[u] /\ held'[u] = held[u]
  BY <1>1, <1>6, LockStepMoves
<1>8. HeldOk(th[t], pc'[t], held'[t])
  BY <1>3, <1>4, <1>5, <1>7, LockMovesHeld DEF Fits
<1>9. th' = th /\ ns' = ns
  BY <1>2 DEF opvars
<1>10. Fits(t, th[t], pc'[t], held'[t], ns = t)
  BY <1>4, <1>8 DEF Fits
<1>11. Fits(t, th'[t], pc'[t], held'[t], ns' = t)
  BY <1>9, <1>10
<1>12. Others(t)
  BY <1>7, <1>9 DEF Others
<1>13. CallsFit'
  BY <1>1, <1>11, <1>12, ThreadStep
<1> QED
  BY <1>2, <1>13, OnlyLock

\* The calls do not see that the lock is created, or that firmware's tables
\* have been loaded.
LEMMA SubsystemStep ==
    ASSUME OpInv, IInv', NamespaceLoaded \/ InitializeRegions \/ UNCHANGED allvars
    PROVE  OpInv'
<1>1. /\ lists' = lists /\ hnd' = hnd /\ reg' = reg /\ th' = th /\ ns' = ns
      /\ told' = told /\ served' = served /\ pc' = pc /\ held' = held
  BY DEF NamespaceLoaded, InitializeRegions, uacpi_recursive_lock_init, allvars, opvars, vars
<1>2. OpTypes /\ CallsFit /\ Rest(th, hnd, reg, lists, told, served)
  BY RestNow DEF OpInv
<1>3. Rest(th', hnd', reg', lists', told', served')
  BY <1>1, <1>2
<1>4. OpTypes'
  BY <1>1, <1>2 DEF OpTypes
<1>5. \A t \in Threads : Fits(t, th[t], pc[t], held[t], ns = t)
  BY <1>2, CallsFitNow
<1>6. \A t \in Threads : Fits(t, th'[t], pc'[t], held'[t], ns' = t)
  BY <1>1, <1>5
<1>7. CallsFit'
  BY <1>6, CallsFitNext
<1> QED
  BY <1>3, <1>4, <1>7, RestNext

\* The lock goes when nobody is in a call.
LEMMA DeinitStep ==
    ASSUME OpInv, IInv', DeinitializeRegions
    PROVE  OpInv'
<1>1. CallsFit /\ UNCHANGED opvars /\ pc' = pc /\ held' = [t \in Threads |-> 0]
      /\ \A t \in Threads : Idle(t)
  BY DEF OpInv, DeinitializeRegions, uacpi_recursive_lock_deinit
<1>2. \A t \in Threads : Fits(t, th[t], pc[t], held[t], ns = t)
  BY <1>1, CallsFitNow
<1>3. th' = th /\ ns' = ns
  BY <1>1 DEF opvars
<1>4. ASSUME NEW t \in Threads
      PROVE  held'[t] = held[t] /\ pc'[t] = pc[t]
  <2>1. held[t] = 0 /\ th[t] = <<>>
    BY <1>1, <1>2 DEF Fits, HeldOk, Idle
  <2> QED
    BY <1>1, <2>1
<1>5. \A t \in Threads : Fits(t, th'[t], pc'[t], held'[t], ns' = t)
  BY <1>2, <1>3, <1>4
<1>6. CallsFit'
  BY <1>5, CallsFitNext
<1> QED
  BY <1>1, <1>6, OnlyLock

-----------------------------------------------------------------------------
(***************************************************************************)
(* The invariant, and what it says.                                        *)
(***************************************************************************)
\* The calls for a node that comes or goes preserve the invariant.
LEMMA NodeStep ==
    ASSUME NEW t, Acts(t),
           uacpi_initialize_opregion_node(t) \/ uacpi_opregion_uninstall_handler(t)
    PROVE  OpInv'
<1>1. CASE uacpi_initialize_opregion_node(t) /\ Fr(t).at \in {"locked", "connect"}
  BY <1>1, MakeStep
<1>2. CASE uacpi_initialize_opregion_node(t) /\ Fr(t).at \notin {"locked", "connect"}
  <2>1. /\ Fr(t).call = "initialize_node" /\ Fr(t).at \in {"release", "failed"}
        /\ reg' = [reg EXCEPT ![Fr(t).r].exists = TRUE] /\ Return(t) /\ ns' = NoThread
        /\ UNCHANGED <<vars, lists, hnd, loaded, told, served, calls>>
    BY <1>2 DEF uacpi_initialize_opregion_node, AtFrame
  <2>2. LockKept
    BY <2>1 DEF LockKept, vars
  <2>3. reg' = Existing(reg, Fr(t).r, TRUE)
    BY <2>1 DEF Existing
  <2> QED
    BY <2>1, <2>2, <2>3, MadeStep
<1>3. CASE uacpi_opregion_uninstall_handler(t) /\ AtFrame(t, "uninstall_node", "locked")
  BY <1>3, EndUninstalls
<1>4. CASE uacpi_opregion_uninstall_handler(t) /\ ~AtFrame(t, "uninstall_node", "locked")
  <2>1. /\ Fr(t).call = "uninstall_node" /\ Fr(t).at = "release"
        /\ reg' = [reg EXCEPT ![Fr(t).r].exists = FALSE] /\ Return(t) /\ ns' = NoThread
        /\ UNCHANGED <<vars, lists, hnd, loaded, told, served, calls>>
    BY <1>4 DEF uacpi_opregion_uninstall_handler, AtFrame
  <2>2. LockKept
    BY <2>1 DEF LockKept, vars
  <2>3. reg' = Existing(reg, Fr(t).r, FALSE)
    BY <2>1 DEF Existing
  <2> QED
    BY <2>1, <2>2, <2>3, EndedStep
<1> QED
  BY <1>1, <1>2, <1>3, <1>4

\* Every step of a call under way preserves the invariant.
LEMMA RegionStepStep ==
    ASSUME OpInv, IInv', NEW t \in Threads, RegionStep(t)
    PROVE  OpInv'
<1>1. CASE LockStep(t)
  BY <1>1, LockStepStep
<1>2. CASE NewCall(t)
  BY <1>2, NewCallStep
<1>3. CASE /\ ~Idle(t) /\ Unlocked(t)
           /\ \/ Upgrade(t) \/ LeaveRegions(t)
              \/ Unlink(t) \/ Detach(t) \/ Unreg(t) \/ Unhandled(t) \/ region_run_reg(t)
              \/ Io(t) \/ uacpi_initialize_opregion_node(t)
              \/ uacpi_opregion_uninstall_handler(t)
              \/ RunReg(t) \/ Install(t) \/ Uninstall(t) \/ uacpi_reg_all_opregions(t)
  <2>1. Acts(t)
    BY <1>3 DEF Acts
  <2>2. CASE Upgrade(t) \/ LeaveRegions(t)
    BY <2>1, <2>2, UpgradeStep, LeaveStep
  <2>3. CASE Unlink(t) \/ Detach(t) \/ Unreg(t) \/ Unhandled(t)
    BY <2>1, <2>3, UnlinkStep, DetachStep, UnregStep, UnhandledStep
  <2>4. CASE region_run_reg(t) \/ Io(t)
    BY <2>1, <2>4, RegStep, IoStep
  <2>5. CASE uacpi_initialize_opregion_node(t) \/ uacpi_opregion_uninstall_handler(t)
    BY <2>1, <2>5, NodeStep
  <2>6. CASE RunReg(t) \/ Install(t) \/ Uninstall(t) \/ uacpi_reg_all_opregions(t)
    BY <2>1, <2>6, RunRegStep, InstallStep, UninstallStep, RegAllStep
  <2> QED
    BY <1>3, <2>2, <2>3, <2>4, <2>5, <2>6
<1> QED
  BY <1>1, <1>2, <1>3 DEF RegionStep

\* Every step of every call preserves the invariant.
THEOREM NextOpInv == OpInv /\ [OpNext]_allvars => OpInv'
<1> SUFFICES ASSUME OpInv, [OpNext]_allvars PROVE OpInv'
  OBVIOUS
<1>1. IInv'
  BY StepIsLockStep, NextIInv DEF OpInv
<1>2. CASE NamespaceLoaded \/ InitializeRegions \/ UNCHANGED allvars
  BY <1>1, <1>2, SubsystemStep
<1>3. CASE DeinitializeRegions
  BY <1>1, <1>3, DeinitStep
<1>4. ASSUME NEW t \in Threads, RegionStep(t) PROVE OpInv'
  BY <1>1, <1>4, RegionStepStep
<1> QED
  BY <1>2, <1>3, <1>4 DEF OpNext

\* The invariant holds before anything is installed.
THEOREM InitOpInv == OpInit => OpInv
<1> SUFFICES ASSUME OpInit PROVE OpInv
  OBVIOUS
<1>1. IInv
  BY InitIInv DEF OpInit
<1>2. /\ th = [t \in Threads |-> <<>>] /\ ns = NoThread
      /\ pc = [t \in Threads |-> "ready"] /\ held = [t \in Threads |-> 0]
  BY DEF OpInit, Init
<1>3. \A t \in Threads : th[t] = <<>> /\ Flat(th[t]) /\ ~InLockOf(th[t])
  BY <1>2 DEF Flat, InLockOf
<1>4. Types
  <2>1. lists \in [Range(Devices) -> Seq(Ids)]
    BY DEF OpInit
  <2>2. hnd \in [Ids -> HandlerType]
    <3>1. [space |-> "none", regions |-> <<>>, refs |-> 0] \in HandlerType
      BY DEF HandlerType, Spaces
    <3> QED
      BY <3>1 DEF OpInit
  <2>3. reg \in RegType
    BY DEF OpInit, RegType, NoHandler
  <2>4. th \in [Threads -> Seq(FrameType)] /\ ns \in Threads \cup {NoThread}
    BY <1>2
  <2>5. told \in [Names -> {"never", "connect", "disconnect"}]
        /\ served \in [Names -> Ids \cup {NoHandler}]
    BY DEF OpInit
  <2> QED
    BY <2>1, <2>2, <2>3, <2>4, <2>5 DEF Types
<1>5. CallsFit
  <2> SUFFICES ASSUME NEW t \in Threads PROVE Fits(t, th[t], pc[t], held[t], ns = t)
    BY CallsFitNow
  <2>1. th[t] = <<>> /\ pc[t] = "ready" /\ held[t] = 0 /\ ns # t
    BY <1>2, ThreadsAssumption
  <2> QED
    BY <2>1, NoFrames DEF Fits, NsOk
<1>6. /\ \A r \in Names : reg[r].handler = NoHandler /\ ~reg[r].attached /\ ~reg[r].regged
      /\ \A r \in Names : told[r] = "never" /\ served[r] = NoHandler
      /\ \A h \in Ids : hnd[h].refs = 0 /\ hnd[h].regions = <<>>
      /\ \A d \in Range(Devices) : lists[d] = <<>>
  BY DEF OpInit
<1>7. \A t \in Threads : \A c, r : ~CallIn(th[t], c, r)
  BY <1>3 DEF CallIn
<1>8. NodesOk(th, reg)
  BY <1>3, <1>6, <1>7 DEF NodesOk, TodoOk, MakingOk, EndingOk, ReleasedOk, OneNode, Orphans
<1>9. ListsOk(th, lists)
  BY <1>3, <1>6, NoRange DEF ListsOk, ListsShape, OwnLists
<1>10. HandlersOk(th, hnd, reg, lists)
  <2> SUFFICES ASSUME NEW h \in Ids
               PROVE  HandlerOk(hnd[h], MineOf(reg, h),
                                ListedIn(lists, h) \/ LetGoAny(th, h), LeavingSet(th))
    BY DEF HandlersOk
  <2>1. h # NoHandler
    BY IdsAssumption DEF NoHandler
  <2>2. MineOf(reg, h) = {}
    BY <1>6, <2>1 DEF MineOf
  <2>3. ~ListedIn(lists, h) /\ ~LetGoAny(th, h)
    BY <1>3, <1>6, NoRange, FlatSilent DEF ListedIn, LetGoAny
  <2>4. hnd[h].refs = 0 /\ IsInjective(hnd[h].regions) /\ Range(hnd[h].regions) = {}
    BY <1>6, NoRange
  <2>5. Cardinality({}) = 0
    BY FS_EmptySet
  <2> QED
    BY <2>2, <2>3, <2>4, <2>5 DEF HandlerOk
<1>11. ToldOk(th, reg, told, served)
  <2>1. \A t \in Threads : OwnKnown(th[t], reg, served)
    BY <1>3, FlatSilent
  <2>2. ASSUME NEW r \in Names
        PROVE  TellOk(reg[r], told[r], served[r], Regions[r].dev \in HasReg,
                      Moving(th, r), Telling(th, r))
    BY <1>6 DEF TellOk
  <2> QED
    BY <2>1, <2>2 DEF ToldOk
<1>12. Rest(th, hnd, reg, lists, told, served)
  BY <1>8, <1>9, <1>10, <1>11 DEF Rest
<1> QED
  BY <1>1, <1>4, <1>5, <1>12, RestNow, TypesAre

\* The inductive invariant holds in every reachable state.
THEOREM RegionsInvariance == OpSpec => []OpInv
  BY InitOpInv, NextOpInv, PTL DEF OpSpec

\* opregion.c: a region is on the list of its handler and on no other, and the
\* references of a handler are its regions and its device, through every
\* install, uninstall, creation and end of a region, by any threads; so
\* uacpi_address_space_handler_unref never frees one that is still in use.
THEOREM HandlersCounted == OpSpec => []HandlersExact
<1>1. OpInv => HandlersExact
  BY DEF OpInv
<1> QED
  BY <1>1, RegionsInvariance, PTL

\* With the lock at rest, nobody is between two calls of a handler.
LEMMA RestingPaired ==
    ASSUME OpInv, mutex = NoThread, NEW r \in Names
    PROVE  /\ served[r] = (IF reg[r].attached THEN reg[r].handler ELSE NoHandler)
           /\ reg[r].attached => reg[r].exists /\ reg[r].handler # NoHandler
           /\ reg[r].regged <=> told[r] = "connect"
<1>1. IInv /\ CallsFit /\ OpTypes /\ Rest(th, hnd, reg, lists, told, served)
  BY RestNow DEF OpInv
<1>2. ASSUME NEW t \in Threads PROVE Flat(th[t])
  <2>1. Fits(t, th[t], pc[t], held[t], ns = t) /\ th[t] \in Seq(FrameType)
    BY <1>1, CallsFitNow DEF OpTypes
  <2>2. ~(held[t] > 0)
    BY <1>1, ThreadsAssumption DEF IInv, DepthExact
  <2>3. ~InLockOf(th[t])
    BY <2>1, <2>2, InLockHolds
  <2>4. StackOk(th[t], t)
    BY <2>1 DEF Fits
  <2> QED
    BY <2>1, <2>3, <2>4, FlatOrIn
<1>3. ~Moving(th, r) /\ ~Telling(th, r)
  BY <1>2, FlatSilent DEF Moving, Telling, MovingIn, TellingIn
<1>4. TellOk(reg[r], told[r], served[r], Regions[r].dev \in HasReg,
             Moving(th, r), Telling(th, r))
  BY <1>1 DEF Rest, ToldOk
<1> QED
  BY <1>3, <1>4 DEF TellOk

\* The handler that is called for an access is there, and has been attached.
LEMMA CallbackPaired ==
    ASSUME OpInv, NEW t \in Threads, AtFrame(t, "io", "callback")
    PROVE  hnd[Fr(t).h].refs > 0 /\ served[Fr(t).r] = Fr(t).h
<1>1. Fr(t).call = "io" /\ Fr(t).at = "callback" /\ th[t] # <<>> /\ ~Idle(t)
  BY DEF AtFrame, Idle
<1>2. Unlocked(t)
  BY <1>1 DEF OpInv, CallsFit, HeldFit
<1>3. Inner(t)
  BY <1>1, <1>2, InnerAt DEF Outside
<1>4. Fr(t).at \in IoPlaces
  BY <1>1 DEF IoPlaces
<1>5. /\ Accessing(th[t]) /\ Fr(t) = Last(th[t]) /\ Fr(t).r \in Names
      /\ Core(th[t], hnd, reg, lists, told, served)
      /\ Known(Fr(t), reg[Fr(t).r], served[Fr(t).r],
               CallIn(th[t], "initialize_node", Fr(t).r))
  BY <1>1, <1>3, <1>4, IoWithin
<1> DEFINE r == Fr(t).r
           h == Fr(t).h
<1>6. h = reg[r].handler /\ h # NoHandler /\ reg[r].attached
  BY <1>1, <1>5 DEF Known
<1>7. reg \in RegType /\ hnd \in [Ids -> HandlerType]
  BY DataTypes DEF OpInv, DataOk
<1>8. h \in Ids /\ hnd[h].refs \in Nat
  BY <1>5, <1>6, <1>7 DEF RegType, HandlerType
<1>9. ~MovingIn(th[t], r)
  BY <1>1, <1>5, AccessView
<1>10. TellOk(reg[r], told[r], served[r], Regions[r].dev \in HasReg,
              MovingIn(th[t], r), TellingIn(th[t], r))
  BY <1>5 DEF Core, ToldBy
<1>11. served[r] = h
  BY <1>6, <1>9, <1>10 DEF TellOk
<1>12. hnd[h].refs # 0
  <2> DEFINE one == ListedIn(lists, h) \/ LetGoIn(th[t], h)
             mine == MineOf(reg, h)
  <2>1. HandlerOk(hnd[h], mine, one, LeavingOf(th[t]))
    BY <1>5, <1>8 DEF Core, HeldBy
  <2>2. IsFiniteSet(mine) /\ r \in mine /\ one \in BOOLEAN
    BY <1>5, <1>6, MineFinite DEF MineOf
  <2> HIDE DEF one, mine
  <2> QED
    BY <2>1, <2>2, FreeOne
<1> QED
  BY <1>8, <1>11, <1>12

\* opregion.c: a handler gets an access only between its ATTACH and its DETACH
\* and while it is allocated; a region that changes hands or goes away has been
\* detached, and firmware's _REG has been told what the region is.
THEOREM CallsArePaired == OpSpec => []CallsPaired
<1>1. OpInv => CallsPaired
  BY RestingPaired, CallbackPaired DEF CallsPaired, Resting
<1> QED
  BY <1>1, RegionsInvariance, PTL
=============================================================================
