-------------------------- MODULE GlobalLockProofs --------------------------
(***************************************************************************)
(* Proofs about GlobalLock for any set of threads, with and without a lock *)
(* in the FACS, any number of attempts, any range of the sequence number   *)
(* and any depth of recursion.                                             *)
(***************************************************************************)
EXTENDS GlobalLock, TLAPS

\* The locals of a call that is over.
LEMMA CallReset ==
    ASSUME NEW t \in Threads, call \in [Threads -> Calls]
    PROVE  [call EXCEPT ![t] = <<"api", FALSE>>] \in [Threads -> Calls]
<1>1. <<"api", FALSE>> \in Calls
  BY DEF Calls
<1> QED
  BY <1>1

\* Nobody is in a call at first, and the word is free.
THEOREM InitIInv == Init => IInv
<1> SUFFICES ASSUME Init PROVE IInv
  OBVIOUS
<1>1. FreeWord \in Words
  BY DEF FreeWord, Words
<1>2. <<"api", FALSE>> \in Calls
  BY DEF Calls
<1>3. irq \in BOOLEAN /\ pending \in BOOLEAN /\ acquired \in BOOLEAN
  BY Zenon DEF Init
<1>4. TypeOK
  BY <1>1, <1>2, <1>3, BoundsAssumption DEF Init, TypeOK, Places
<1>5. mutex \notin Threads /\ owner \notin Threads
  BY ThreadsAssumption DEF Init
<1>6. \A t \in Threads : pc[t] = "idle" /\ spins[t] = 0
  BY DEF Init
<1>7. MutexExact /\ SpinlockExact /\ NamespaceExact /\ OwnerPlaces /\ SpinsFit
  BY <1>5, <1>6, ThreadsAssumption
  DEF Init, MutexExact, InMutex, SpinlockExact, NamespaceExact, OwnerPlaces,
      SpinsFit
<1>8. WordExact /\ WithoutLock /\ FirmwareExact /\ WaitExact /\ TellExact
  BY <1>5, <1>6
  DEF Init, FreeWord, WordExact, WithoutLock, FirmwareExact, WaitExact,
      TellExact, Owner, Waiting
<1> QED
  BY <1>4, <1>7, <1>8 DEF IInv

\* Every step of the firmware, of its interrupt and of a thread preserves the
\* inductive invariant.
THEOREM NextIInv == IInv /\ [Next]_vars => IInv'
<1> SUFFICES ASSUME IInv, [Next]_vars PROVE IInv'
  OBVIOUS
<1> USE DEF IInv, hardware, wait, aml, api, locals
<1>1. CASE UNCHANGED vars
  BY <1>1
  DEF vars, TypeOK, MutexExact, InMutex, SpinlockExact, NamespaceExact,
      OwnerPlaces, SpinsFit, WordExact, WithoutLock, FirmwareExact, WaitExact,
      TellExact, Owner, Holds, Waiting
<1>2. ASSUME FirmwareAcquire PROVE IInv'
  <2>1. TypeOK'
    BY <1>2, BoundsAssumption
    DEF FirmwareAcquire, TypeOK, Words
  <2>2. MutexExact' /\ SpinlockExact' /\ NamespaceExact' /\ OwnerPlaces' /\
       SpinsFit'
    BY <1>2, <2>1, ThreadsAssumption, BoundsAssumption
    DEF FirmwareAcquire, TypeOK, InMutex, MutexExact, SpinlockExact,
        NamespaceExact, OwnerPlaces, SpinsFit
  <2>3. WordExact' /\ WithoutLock' /\ FirmwareExact' /\ WaitExact' /\
       TellExact'
    BY <1>2, <2>1, ThreadsAssumption, BoundsAssumption
    DEF FirmwareAcquire, TypeOK, InMutex, MutexExact, SpinlockExact,
        NamespaceExact, OwnerPlaces, SpinsFit, WordExact, WithoutLock,
        FirmwareExact, WaitExact, TellExact, Owner, Holds, Waiting
  <2> QED
    BY <2>1, <2>2, <2>3
<1>3. ASSUME FirmwareRelease PROVE IInv'
  <2>1. TypeOK'
    BY <1>3, BoundsAssumption
    DEF FirmwareRelease, FreeWord, TypeOK, Words
  <2>2. MutexExact' /\ SpinlockExact' /\ NamespaceExact' /\ OwnerPlaces' /\
       SpinsFit'
    BY <1>3, <2>1, ThreadsAssumption, BoundsAssumption
    DEF FirmwareRelease, FreeWord, TypeOK, InMutex, MutexExact,
        SpinlockExact, NamespaceExact, OwnerPlaces, SpinsFit
  <2>3. WordExact' /\ WithoutLock' /\ FirmwareExact' /\ WaitExact' /\
       TellExact'
    BY <1>3, <2>1, ThreadsAssumption, BoundsAssumption
    DEF FirmwareRelease, FreeWord, TypeOK, InMutex, MutexExact,
        SpinlockExact, NamespaceExact, OwnerPlaces, SpinsFit, WordExact,
        WithoutLock, FirmwareExact, WaitExact, TellExact, Owner, Holds,
        Waiting
  <2> QED
    BY <2>1, <2>2, <2>3
<1>4. ASSUME handle_global_lock PROVE IInv'
  <2>1. pending' \in BOOLEAN /\ irq' \in BOOLEAN
    BY <1>4, Zenon DEF handle_global_lock
  <2>2. TypeOK'
    BY <1>4, <2>1, BoundsAssumption
    DEF handle_global_lock, TypeOK
  <2>3. MutexExact' /\ SpinlockExact' /\ NamespaceExact' /\ OwnerPlaces' /\
       SpinsFit'
    BY <1>4, <2>2, ThreadsAssumption, BoundsAssumption
    DEF handle_global_lock, TypeOK, InMutex, MutexExact, SpinlockExact,
        NamespaceExact, OwnerPlaces, SpinsFit
  <2>4. WordExact' /\ WithoutLock' /\ FirmwareExact' /\ WaitExact' /\
       TellExact'
    BY <1>4, <2>2, ThreadsAssumption, BoundsAssumption
    DEF handle_global_lock, TypeOK, InMutex, MutexExact, SpinlockExact,
        NamespaceExact, OwnerPlaces, SpinsFit, WordExact, WithoutLock,
        FirmwareExact, WaitExact, TellExact, Owner, Holds, Waiting
  <2> QED
    BY <2>2, <2>3, <2>4
<1>5. ASSUME NEW t \in Threads, NEW timed \in BOOLEAN,
             CallAcquire(t, timed)
      PROVE  IInv'
  <2>1. TypeOK'
    BY <1>5, BoundsAssumption
    DEF CallAcquire, Goto, TypeOK, Places, Calls
  <2>2. MutexExact' /\ SpinlockExact' /\ NamespaceExact' /\ OwnerPlaces' /\
       SpinsFit'
    BY <1>5, <2>1, ThreadsAssumption, BoundsAssumption
    DEF CallAcquire, Goto, TypeOK, InMutex, MutexExact, SpinlockExact,
        NamespaceExact, OwnerPlaces, SpinsFit
  <2>3. WordExact' /\ WithoutLock' /\ FirmwareExact' /\ WaitExact' /\
       TellExact'
    BY <1>5, <2>1, ThreadsAssumption, BoundsAssumption
    DEF CallAcquire, Goto, TypeOK, InMutex, MutexExact, SpinlockExact,
        NamespaceExact, OwnerPlaces, SpinsFit, WordExact, WithoutLock,
        FirmwareExact, WaitExact, TellExact, Owner, Holds, Waiting
  <2> QED
    BY <2>1, <2>2, <2>3
<1>6. ASSUME NEW t \in Threads, NEW timed \in BOOLEAN,
             AmlAcquire(t, timed)
      PROVE  IInv'
  <2>1. TypeOK'
    BY <1>6, BoundsAssumption
    DEF AmlAcquire, Goto, TypeOK, Places, Calls
  <2>2. MutexExact' /\ SpinlockExact' /\ NamespaceExact' /\ OwnerPlaces' /\
       SpinsFit'
    BY <1>6, <2>1, ThreadsAssumption, BoundsAssumption
    DEF AmlAcquire, Goto, TypeOK, InMutex, MutexExact, SpinlockExact,
        NamespaceExact, OwnerPlaces, SpinsFit
  <2>3. WordExact' /\ WithoutLock' /\ FirmwareExact' /\ WaitExact' /\
       TellExact'
    BY <1>6, <2>1, ThreadsAssumption, BoundsAssumption
    DEF AmlAcquire, Goto, TypeOK, InMutex, MutexExact, SpinlockExact,
        NamespaceExact, OwnerPlaces, SpinsFit, WordExact, WithoutLock,
        FirmwareExact, WaitExact, TellExact, Owner, Holds, Waiting
  <2> QED
    BY <2>1, <2>2, <2>3
<1>7. ASSUME NEW t \in Threads, EnterAml(t) PROVE IInv'
  <2>1. TypeOK'
    BY <1>7, BoundsAssumption
    DEF EnterAml, Goto, TypeOK, Places
  <2>2. MutexExact' /\ SpinlockExact' /\ NamespaceExact' /\ OwnerPlaces' /\
       SpinsFit'
    BY <1>7, <2>1, ThreadsAssumption, BoundsAssumption
    DEF EnterAml, Goto, TypeOK, InMutex, MutexExact, SpinlockExact,
        NamespaceExact, OwnerPlaces, SpinsFit
  <2>3. WordExact' /\ WithoutLock' /\ FirmwareExact' /\ WaitExact' /\
       TellExact'
    BY <1>7, <2>1, ThreadsAssumption, BoundsAssumption
    DEF EnterAml, Goto, TypeOK, InMutex, MutexExact, SpinlockExact,
        NamespaceExact, OwnerPlaces, SpinsFit, WordExact, WithoutLock,
        FirmwareExact, WaitExact, TellExact, Owner, Holds, Waiting
  <2> QED
    BY <2>1, <2>2, <2>3
<1>8. ASSUME NEW t \in Threads, LeaveAml(t) PROVE IInv'
  <2>1. TypeOK'
    BY <1>8, BoundsAssumption
    DEF LeaveAml, Goto, TypeOK, Places
  <2>2. MutexExact' /\ SpinlockExact' /\ NamespaceExact' /\ OwnerPlaces' /\
       SpinsFit'
    BY <1>8, <2>1, ThreadsAssumption, BoundsAssumption
    DEF LeaveAml, Goto, TypeOK, InMutex, MutexExact, SpinlockExact,
        NamespaceExact, OwnerPlaces, SpinsFit
  <2>3. WordExact' /\ WithoutLock' /\ FirmwareExact' /\ WaitExact' /\
       TellExact'
    BY <1>8, <2>1, ThreadsAssumption, BoundsAssumption
    DEF LeaveAml, Goto, TypeOK, InMutex, MutexExact, SpinlockExact,
        NamespaceExact, OwnerPlaces, SpinsFit, WordExact, WithoutLock,
        FirmwareExact, WaitExact, TellExact, Owner, Holds, Waiting
  <2> QED
    BY <2>1, <2>2, <2>3
<1>9. ASSUME NEW t \in Threads, AmlReenter(t) PROVE IInv'
  <2>1. TypeOK'
    BY <1>9, BoundsAssumption
    DEF AmlReenter, TypeOK, Places
  <2>2. MutexExact' /\ SpinlockExact' /\ NamespaceExact' /\ OwnerPlaces' /\
       SpinsFit'
    BY <1>9, <2>1, ThreadsAssumption, BoundsAssumption
    DEF AmlReenter, TypeOK, InMutex, MutexExact, SpinlockExact,
        NamespaceExact, OwnerPlaces, SpinsFit
  <2>3. WordExact' /\ WithoutLock' /\ FirmwareExact' /\ WaitExact' /\
       TellExact'
    BY <1>9, <2>1, ThreadsAssumption, BoundsAssumption
    DEF AmlReenter, TypeOK, InMutex, MutexExact, SpinlockExact,
        NamespaceExact, OwnerPlaces, SpinsFit, WordExact, WithoutLock,
        FirmwareExact, WaitExact, TellExact, Owner, Holds, Waiting
  <2> QED
    BY <2>1, <2>2, <2>3
<1>10. ASSUME NEW t \in Threads, AmlRelease(t) PROVE IInv'
  <2>1. TypeOK'
    BY <1>10, BoundsAssumption
    DEF AmlRelease, StartRelease, Goto, TypeOK, Places, OwnerPlaces,
        NamespaceExact
  <2>2. MutexExact' /\ SpinlockExact' /\ NamespaceExact' /\ OwnerPlaces' /\
       SpinsFit'
    BY <1>10, <2>1, ThreadsAssumption, BoundsAssumption
    DEF AmlRelease, StartRelease, Goto, TypeOK, InMutex, MutexExact,
        SpinlockExact, NamespaceExact, OwnerPlaces, SpinsFit
  <2>3. WordExact' /\ WithoutLock' /\ FirmwareExact' /\ WaitExact' /\
       TellExact'
    BY <1>10, <2>1, ThreadsAssumption, BoundsAssumption
    DEF AmlRelease, StartRelease, Goto, TypeOK, InMutex, MutexExact,
        SpinlockExact, NamespaceExact, OwnerPlaces, SpinsFit, WordExact,
        WithoutLock, FirmwareExact, WaitExact, TellExact, Owner, Holds,
        Waiting
  <2> QED
    BY <2>1, <2>2, <2>3
<1>11. ASSUME NEW t \in Threads, MutexTimeout(t) PROVE IInv'
  <2>1. call' \in [Threads -> Calls]
    BY <1>11, CallReset DEF MutexTimeout, GiveUp, TypeOK
  <2>2. TypeOK'
    BY <1>11, <2>1, BoundsAssumption
    DEF MutexTimeout, GiveUp, ByAml, Goto, TypeOK, Places
  <2>3. MutexExact' /\ SpinlockExact' /\ NamespaceExact' /\ OwnerPlaces' /\
       SpinsFit'
    BY <1>11, <2>2, ThreadsAssumption, BoundsAssumption
    DEF MutexTimeout, GiveUp, ByAml, Goto, TypeOK, InMutex, MutexExact,
        SpinlockExact, NamespaceExact, OwnerPlaces, SpinsFit
  <2>4. WordExact' /\ WithoutLock' /\ FirmwareExact' /\ WaitExact' /\
       TellExact'
    BY <1>11, <2>2, ThreadsAssumption, BoundsAssumption
    DEF MutexTimeout, GiveUp, ByAml, Goto, TypeOK, InMutex, MutexExact,
        SpinlockExact, NamespaceExact, OwnerPlaces, SpinsFit, WordExact,
        WithoutLock, FirmwareExact, WaitExact, TellExact, Owner, Holds,
        Waiting
  <2> QED
    BY <2>2, <2>3, <2>4
<1>12. ASSUME NEW t \in Threads, NEW s \in 0 .. MaxSeq,
             uacpi_release_global_lock(t, s)
      PROVE  IInv'
  <2>1. acquired' \in BOOLEAN
    BY <1>12, Zenon DEF uacpi_release_global_lock
  <2>2. TypeOK'
    BY <1>12, <2>1, BoundsAssumption
    DEF uacpi_release_global_lock, StartRelease, Goto, TypeOK, Places
  <2>3. MutexExact' /\ SpinlockExact' /\ NamespaceExact' /\ OwnerPlaces' /\
       SpinsFit'
    BY <1>12, <2>2, ThreadsAssumption, BoundsAssumption
    DEF uacpi_release_global_lock, StartRelease, Goto, TypeOK, InMutex,
        MutexExact, SpinlockExact, NamespaceExact, OwnerPlaces, SpinsFit
  <2>4. WordExact' /\ WithoutLock' /\ FirmwareExact' /\ WaitExact' /\
       TellExact'
    BY <1>12, <2>2, ThreadsAssumption, BoundsAssumption
    DEF uacpi_release_global_lock, StartRelease, Goto, TypeOK, InMutex,
        MutexExact, SpinlockExact, NamespaceExact, OwnerPlaces, SpinsFit,
        WordExact, WithoutLock, FirmwareExact, WaitExact, TellExact, Owner,
        Holds, Waiting
  <2> QED
    BY <2>2, <2>3, <2>4
<1>13. ASSUME NEW t \in Threads, TakeMutex(t) PROVE IInv'
  <2>1. call[t] \in Calls
    BY DEF TypeOK
  <2>2. <<call[t][1], FALSE>> \in Calls
    BY <2>1 DEF Calls
  <2>3. call' \in [Threads -> Calls]
    BY <1>13, <2>2 DEF TakeMutex, TypeOK
  <2>4. TypeOK'
    BY <1>13, <2>3, BoundsAssumption
    DEF TakeMutex, Goto, TypeOK, Places
  <2>5. MutexExact' /\ SpinlockExact' /\ NamespaceExact' /\ OwnerPlaces' /\
       SpinsFit'
    BY <1>13, <2>4, ThreadsAssumption, BoundsAssumption
    DEF TakeMutex, Goto, TypeOK, InMutex, MutexExact, SpinlockExact,
        NamespaceExact, OwnerPlaces, SpinsFit
  <2>6. WordExact' /\ WithoutLock' /\ FirmwareExact' /\ WaitExact' /\
       TellExact'
    BY <1>13, <2>4, ThreadsAssumption, BoundsAssumption
    DEF TakeMutex, Goto, TypeOK, InMutex, MutexExact, SpinlockExact,
        NamespaceExact, OwnerPlaces, SpinsFit, WordExact, WithoutLock,
        FirmwareExact, WaitExact, TellExact, Owner, Holds, Waiting
  <2> QED
    BY <2>4, <2>5, <2>6
<1>14. ASSUME NEW t \in Threads, TakeSpinlock(t) PROVE IInv'
  <2>1. TypeOK'
    BY <1>14, BoundsAssumption
    DEF TakeSpinlock, Goto, TypeOK, Places, SpinsFit
  <2>2. MutexExact' /\ SpinlockExact' /\ NamespaceExact' /\ OwnerPlaces' /\
       SpinsFit'
    BY <1>14, <2>1, ThreadsAssumption, BoundsAssumption
    DEF TakeSpinlock, Goto, TypeOK, InMutex, MutexExact, SpinlockExact,
        NamespaceExact, OwnerPlaces, SpinsFit
  <2>3. WordExact' /\ WithoutLock' /\ FirmwareExact' /\ WaitExact' /\
       TellExact'
    BY <1>14, <2>1, ThreadsAssumption, BoundsAssumption
    DEF TakeSpinlock, Goto, TypeOK, InMutex, MutexExact, SpinlockExact,
        NamespaceExact, OwnerPlaces, SpinsFit, WordExact, WithoutLock,
        FirmwareExact, WaitExact, TellExact, Owner, Holds, Waiting
  <2> QED
    BY <2>1, <2>2, <2>3
<1>15. ASSUME NEW t \in Threads, LoadWord(t) PROVE IInv'
  <2>1. TypeOK'
    BY <1>15, BoundsAssumption
    DEF LoadWord, Goto, TypeOK, Places
  <2>2. MutexExact' /\ SpinlockExact' /\ NamespaceExact' /\ OwnerPlaces' /\
       SpinsFit'
    BY <1>15, <2>1, ThreadsAssumption, BoundsAssumption
    DEF LoadWord, Goto, TypeOK, InMutex, MutexExact, SpinlockExact,
        NamespaceExact, OwnerPlaces, SpinsFit
  <2>3. WordExact' /\ WithoutLock' /\ FirmwareExact' /\ WaitExact' /\
       TellExact'
    BY <1>15, <2>1, ThreadsAssumption, BoundsAssumption
    DEF LoadWord, Goto, TypeOK, InMutex, MutexExact, SpinlockExact,
        NamespaceExact, OwnerPlaces, SpinsFit, WordExact, WithoutLock,
        FirmwareExact, WaitExact, TellExact, Owner, Holds, Waiting
  <2> QED
    BY <2>1, <2>2, <2>3
<1>16. ASSUME NEW t \in Threads, CasRetry(t) PROVE IInv'
  <2>1. TypeOK'
    BY <1>16, BoundsAssumption
    DEF CasRetry, TypeOK, Places
  <2>2. MutexExact' /\ SpinlockExact' /\ NamespaceExact' /\ OwnerPlaces' /\
       SpinsFit'
    BY <1>16, <2>1, ThreadsAssumption, BoundsAssumption
    DEF CasRetry, TypeOK, InMutex, MutexExact, SpinlockExact, NamespaceExact,
        OwnerPlaces, SpinsFit
  <2>3. WordExact' /\ WithoutLock' /\ FirmwareExact' /\ WaitExact' /\
       TellExact'
    BY <1>16, <2>1, ThreadsAssumption, BoundsAssumption
    DEF CasRetry, TypeOK, InMutex, MutexExact, SpinlockExact, NamespaceExact,
        OwnerPlaces, SpinsFit, WordExact, WithoutLock, FirmwareExact,
        WaitExact, TellExact, Owner, Holds, Waiting
  <2> QED
    BY <2>1, <2>2, <2>3
<1>17. ASSUME NEW t \in Threads, Cas(t) PROVE IInv'
  <2>1. TypeOK'
    BY <1>17, BoundsAssumption
    DEF Cas, AcquiredWord, Goto, TypeOK, Words, Places, SpinsFit, FreeWord
  <2>2. MutexExact' /\ SpinlockExact' /\ NamespaceExact' /\ OwnerPlaces' /\
       SpinsFit'
    BY <1>17, <2>1, ThreadsAssumption, BoundsAssumption
    DEF Cas, AcquiredWord, Goto, TypeOK, InMutex, MutexExact, SpinlockExact,
        NamespaceExact, OwnerPlaces, SpinsFit
  <2>3. WordExact' /\ WithoutLock' /\ FirmwareExact' /\ WaitExact' /\
       TellExact'
    BY <1>17, <2>1, ThreadsAssumption, BoundsAssumption
    DEF Cas, AcquiredWord, Goto, TypeOK, InMutex, MutexExact, SpinlockExact,
        NamespaceExact, OwnerPlaces, SpinsFit, WordExact, WithoutLock,
        FirmwareExact, WaitExact, TellExact, Owner, Holds, Waiting
  <2> QED
    BY <2>1, <2>2, <2>3
<1>18. ASSUME NEW t \in Threads, WaitForEvent(t) PROVE IInv'
  <2>1. TypeOK'
    BY <1>18, BoundsAssumption
    DEF WaitForEvent, Goto, TypeOK, Places
  <2>2. MutexExact' /\ SpinlockExact' /\ NamespaceExact' /\ OwnerPlaces' /\
       SpinsFit'
    BY <1>18, <2>1, ThreadsAssumption, BoundsAssumption
    DEF WaitForEvent, Goto, TypeOK, InMutex, MutexExact, SpinlockExact,
        NamespaceExact, OwnerPlaces, SpinsFit
  <2>3. WordExact' /\ WithoutLock' /\ FirmwareExact' /\ WaitExact' /\
       TellExact'
    BY <1>18, <2>1, ThreadsAssumption, BoundsAssumption
    DEF WaitForEvent, Goto, TypeOK, InMutex, MutexExact, SpinlockExact,
        NamespaceExact, OwnerPlaces, SpinsFit, WordExact, WithoutLock,
        FirmwareExact, WaitExact, TellExact, Owner, Holds, Waiting
  <2> QED
    BY <2>1, <2>2, <2>3
<1>19. ASSUME NEW t \in Threads, Failed(t) PROVE IInv'
  <2>1. call' \in [Threads -> Calls]
    BY <1>19, CallReset DEF Failed, GiveUp, TypeOK
  <2>2. TypeOK'
    BY <1>19, <2>1, BoundsAssumption
    DEF Failed, GiveUp, ByAml, Goto, TypeOK, Places
  <2>3. MutexExact' /\ SpinlockExact' /\ NamespaceExact' /\ OwnerPlaces' /\
       SpinsFit'
    BY <1>19, <2>2, ThreadsAssumption, BoundsAssumption
    DEF Failed, GiveUp, ByAml, Goto, TypeOK, InMutex, MutexExact,
        SpinlockExact, NamespaceExact, OwnerPlaces, SpinsFit
  <2>4. WordExact' /\ WithoutLock' /\ FirmwareExact' /\ WaitExact' /\
       TellExact'
    BY <1>19, <2>2, ThreadsAssumption, BoundsAssumption
    DEF Failed, GiveUp, ByAml, Goto, TypeOK, InMutex, MutexExact,
        SpinlockExact, NamespaceExact, OwnerPlaces, SpinsFit, WordExact,
        WithoutLock, FirmwareExact, WaitExact, TellExact, Owner, Holds,
        Waiting
  <2> QED
    BY <2>2, <2>3, <2>4
<1>20. ASSUME NEW t \in Threads, GotByApi(t) PROVE IInv'
  <2>1. TypeOK'
    BY <1>20, BoundsAssumption
    DEF GotByApi, ByAml, Goto, TypeOK, Places
  <2>2. MutexExact' /\ SpinlockExact' /\ NamespaceExact' /\ OwnerPlaces' /\
       SpinsFit'
    BY <1>20, <2>1, ThreadsAssumption, BoundsAssumption
    DEF GotByApi, ByAml, Goto, TypeOK, InMutex, MutexExact, SpinlockExact,
        NamespaceExact, OwnerPlaces, SpinsFit
  <2>3. WordExact' /\ WithoutLock' /\ FirmwareExact' /\ WaitExact' /\
       TellExact'
    BY <1>20, <2>1, ThreadsAssumption, BoundsAssumption
    DEF GotByApi, ByAml, Goto, TypeOK, InMutex, MutexExact, SpinlockExact,
        NamespaceExact, OwnerPlaces, SpinsFit, WordExact, WithoutLock,
        FirmwareExact, WaitExact, TellExact, Owner, Holds, Waiting
  <2> QED
    BY <2>1, <2>2, <2>3
<1>21. ASSUME NEW t \in Threads, GotByAml(t) PROVE IInv'
  <2>1. call' \in [Threads -> Calls]
    BY <1>21, CallReset DEF GotByAml, TypeOK
  <2>2. TypeOK'
    BY <1>21, <2>1, BoundsAssumption
    DEF GotByAml, ByAml, Goto, TypeOK, Places
  <2>3. MutexExact' /\ SpinlockExact' /\ NamespaceExact' /\ OwnerPlaces' /\
       SpinsFit'
    BY <1>21, <2>2, ThreadsAssumption, BoundsAssumption
    DEF GotByAml, ByAml, Goto, TypeOK, InMutex, MutexExact, SpinlockExact,
        NamespaceExact, OwnerPlaces, SpinsFit
  <2>4. WordExact' /\ WithoutLock' /\ FirmwareExact' /\ WaitExact' /\
       TellExact'
    BY <1>21, <2>2, ThreadsAssumption, BoundsAssumption
    DEF GotByAml, ByAml, Goto, TypeOK, InMutex, MutexExact, SpinlockExact,
        NamespaceExact, OwnerPlaces, SpinsFit, WordExact, WithoutLock,
        FirmwareExact, WaitExact, TellExact, Owner, Holds, Waiting
  <2> QED
    BY <2>2, <2>3, <2>4
<1>22. ASSUME NEW t \in Threads, RelockNamespace(t) PROVE IInv'
  <2>1. TypeOK'
    BY <1>22, BoundsAssumption
    DEF RelockNamespace, Goto, TypeOK, Places
  <2>2. MutexExact' /\ SpinlockExact' /\ NamespaceExact' /\ OwnerPlaces' /\
       SpinsFit'
    BY <1>22, <2>1, ThreadsAssumption, BoundsAssumption
    DEF RelockNamespace, Goto, TypeOK, InMutex, MutexExact, SpinlockExact,
        NamespaceExact, OwnerPlaces, SpinsFit
  <2>3. WordExact' /\ WithoutLock' /\ FirmwareExact' /\ WaitExact' /\
       TellExact'
    BY <1>22, <2>1, ThreadsAssumption, BoundsAssumption
    DEF RelockNamespace, Goto, TypeOK, InMutex, MutexExact, SpinlockExact,
        NamespaceExact, OwnerPlaces, SpinsFit, WordExact, WithoutLock,
        FirmwareExact, WaitExact, TellExact, Owner, Holds, Waiting
  <2> QED
    BY <2>1, <2>2, <2>3
<1>23. ASSUME NEW t \in Threads, ReleaseCas(t) PROVE IInv'
  <2>1. TypeOK'
    BY <1>23, BoundsAssumption
    DEF ReleaseCas, ReleasedWord, FreeWord, Goto, TypeOK, Words, Places
  <2>2. MutexExact' /\ SpinlockExact' /\ NamespaceExact' /\ OwnerPlaces' /\
       SpinsFit'
    BY <1>23, <2>1, ThreadsAssumption, BoundsAssumption
    DEF ReleaseCas, ReleasedWord, FreeWord, Goto, TypeOK, InMutex,
        MutexExact, SpinlockExact, NamespaceExact, OwnerPlaces, SpinsFit
  <2>3. WordExact' /\ WithoutLock' /\ FirmwareExact' /\ WaitExact' /\
       TellExact'
    BY <1>23, <2>1, ThreadsAssumption, BoundsAssumption
    DEF ReleaseCas, ReleasedWord, FreeWord, Goto, TypeOK, InMutex,
        MutexExact, SpinlockExact, NamespaceExact, OwnerPlaces, SpinsFit,
        WordExact, WithoutLock, FirmwareExact, WaitExact, TellExact, Owner,
        Holds, Waiting
  <2> QED
    BY <2>1, <2>2, <2>3
<1>24. ASSUME NEW t \in Threads, TellFirmware(t) PROVE IInv'
  <2>1. TypeOK'
    BY <1>24, BoundsAssumption
    DEF TellFirmware, Goto, TypeOK, Places
  <2>2. MutexExact' /\ SpinlockExact' /\ NamespaceExact' /\ OwnerPlaces' /\
       SpinsFit'
    BY <1>24, <2>1, ThreadsAssumption, BoundsAssumption
    DEF TellFirmware, Goto, TypeOK, InMutex, MutexExact, SpinlockExact,
        NamespaceExact, OwnerPlaces, SpinsFit
  <2>3. WordExact' /\ WithoutLock' /\ FirmwareExact' /\ WaitExact' /\
       TellExact'
    BY <1>24, <2>1, ThreadsAssumption, BoundsAssumption
    DEF TellFirmware, Goto, TypeOK, InMutex, MutexExact, SpinlockExact,
        NamespaceExact, OwnerPlaces, SpinsFit, WordExact, WithoutLock,
        FirmwareExact, WaitExact, TellExact, Owner, Holds, Waiting
  <2> QED
    BY <2>1, <2>2, <2>3
<1>25. ASSUME NEW t \in Threads, ClearOwner(t) PROVE IInv'
  <2>1. TypeOK'
    BY <1>25, BoundsAssumption
    DEF ClearOwner, Goto, TypeOK, Places
  <2>2. MutexExact' /\ SpinlockExact' /\ NamespaceExact' /\ OwnerPlaces' /\
       SpinsFit'
    BY <1>25, <2>1, ThreadsAssumption, BoundsAssumption
    DEF ClearOwner, Goto, TypeOK, InMutex, MutexExact, SpinlockExact,
        NamespaceExact, OwnerPlaces, SpinsFit
  <2>3. WordExact' /\ WithoutLock' /\ FirmwareExact' /\ WaitExact' /\
       TellExact'
    BY <1>25, <2>1, ThreadsAssumption, BoundsAssumption
    DEF ClearOwner, Goto, TypeOK, InMutex, MutexExact, SpinlockExact,
        NamespaceExact, OwnerPlaces, SpinsFit, WordExact, WithoutLock,
        FirmwareExact, WaitExact, TellExact, Owner, Holds, Waiting
  <2> QED
    BY <2>1, <2>2, <2>3
<1>26. ASSUME NEW t \in Threads, ReleaseMutex(t) PROVE IInv'
  <2>1. TypeOK'
    BY <1>26, BoundsAssumption
    DEF ReleaseMutex, Goto, TypeOK, Places
  <2>2. MutexExact' /\ SpinlockExact' /\ NamespaceExact' /\ OwnerPlaces' /\
       SpinsFit'
    BY <1>26, <2>1, ThreadsAssumption, BoundsAssumption
    DEF ReleaseMutex, Goto, TypeOK, InMutex, MutexExact, SpinlockExact,
        NamespaceExact, OwnerPlaces, SpinsFit
  <2>3. WordExact' /\ WithoutLock' /\ FirmwareExact' /\ WaitExact' /\
       TellExact'
    BY <1>26, <2>1, ThreadsAssumption, BoundsAssumption
    DEF ReleaseMutex, Goto, TypeOK, InMutex, MutexExact, SpinlockExact,
        NamespaceExact, OwnerPlaces, SpinsFit, WordExact, WithoutLock,
        FirmwareExact, WaitExact, TellExact, Owner, Holds, Waiting
  <2> QED
    BY <2>1, <2>2, <2>3
<1> QED
  BY <1>1, <1>2, <1>3, <1>4, <1>5, <1>6, <1>7, <1>8, <1>9, <1>10, <1>11,
     <1>12, <1>13, <1>14, <1>15, <1>16, <1>17, <1>18, <1>19, <1>20, <1>21,
     <1>22, <1>23, <1>24, <1>25, <1>26 DEF Next, Proceed

\* The inductive invariant holds in every state of every behaviour.
THEOREM Invariance == Spec => []IInv
<1>1. Init => IInv
  BY InitIInv
<1>2. IInv /\ [Next]_vars => IInv'
  BY NextIInv
<1> QED
  BY <1>1, <1>2, PTL DEF Spec

\* Who has the word has the mutex of \_GL, so there is one such thread.
LEMMA HolderHasMutex ==
    ASSUME IInv, NEW t \in Threads, Holds(t)
    PROVE  mutex = t
BY DEF IInv, Holds, MutexExact, InMutex

\* The recursive use of \_GL, the public API and the firmware exclude one
\* another, and the recorded owner has the native mutex.
THEOREM Sound == Spec => []LockSound
<1>1. IInv => LockSound
  <2> SUFFICES ASSUME IInv PROVE LockSound
    OBVIOUS
  <2>1. \A t, u \in Threads : Holds(t) /\ Holds(u) => t = u
    BY HolderHasMutex
  <2>2. fw = "in" => \A t \in Threads : ~Holds(t)
    BY HolderHasMutex DEF IInv, FirmwareExact, Owner
  <2>3. OwnerHasMutex
    BY DEF IInv, TypeOK, MutexExact, InMutex, OwnerHasMutex
  <2> QED
    BY <2>1, <2>2, <2>3 DEF IInv, LockSound, Exclusion
<1> QED
  BY <1>1, Invariance, PTL

\* No wait for the release interrupt is forgotten, no signal outlives its wait,
\* and a firmware that set the pending bit will be told.
THEOREM Signals == Spec => []SignalExact
<1>1. IInv => SignalExact
  <2> SUFFICES ASSUME IInv PROVE SignalExact
    OBVIOUS
  <2>1. NoLostWakeup
    BY DEF IInv, NoLostWakeup, WaitExact, Waiting, MutexExact, InMutex
  <2>2. NoStaleSignal
    BY DEF IInv, NoStaleSignal, WaitExact, Waiting
  <2>3. NoLostRelease
    BY DEF IInv, NoLostRelease, TellExact, Owner
  <2> QED
    BY <2>1, <2>2, <2>3 DEF SignalExact
<1> QED
  BY <1>1, Invariance, PTL
=============================================================================
