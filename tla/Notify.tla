------------------------------- MODULE Notify -------------------------------
(***************************************************************************)
(* Notify handlers of src/kern/acpi/notify.c: AML executes Notify, which   *)
(* schedules deferred work under notify_mutex; the work walks the handler  *)
(* list of the device and then that of the root, without the mutex.  What  *)
(* keeps the lists still meanwhile is that installing and uninstalling     *)
(* wait, with the mutex in hand, for all scheduled work to finish.         *)
(*                                                                         *)
(* AML runs with the namespace write lock held and keeps it in Notify.  A  *)
(* callback in Evaluating evaluates AML itself, which takes that lock for  *)
(* a while.  A device may leave the namespace; its object then lives on    *)
(* while it is referenced.                                                 *)
(***************************************************************************)
EXTENDS Naturals, Sequences, FiniteSets

CONSTANTS Threads, Devices, Root, Callbacks, None,
          Evaluating,        \* the callbacks that evaluate AML
          Cells,             \* handler records that may be allocated
          Works,             \* notifications that may be scheduled
          MaxCalls,          \* bound on calls and removals
          MaxFaults          \* bound on host failures

Objects == Devices \cup {Root}

ASSUME NamesAssumption ==
    /\ Evaluating \subseteq Callbacks
    /\ Root \notin Devices /\ None \notin Threads \cup Objects \cup Cells \cup Works
    /\ Threads \cap (Cells \cup Works) = {}
    /\ IsFiniteSet(Threads) /\ IsFiniteSet(Cells) /\ IsFiniteSet(Works)
ASSUME BoundsAssumption == MaxCalls \in Nat /\ MaxFaults \in Nat

VARIABLES
    notify_mutex,  \* its holder, or None
    ns,            \* holder of the namespace write lock, or None
    head,          \* per object, notify_head
    next, callback,\* per handler record
    allocated,     \* handler records that are allocated
    attached,      \* devices still in the namespace
    refs,          \* per device, references to its object
    work,          \* per notification, its context and progress
    at,            \* per thread, where it is and what it was called with
    calls, faults

lists == <<head, next, callback, allocated>>
objects == <<attached, refs>>
vars == <<notify_mutex, ns, lists, objects, work, at, calls, faults>>

Idle == [pc |-> "idle", obj |-> None, cb |-> None, cell |-> None]
NoWork == [state |-> "none", obj |-> None, ptr |-> None, called |-> <<>>, due |-> <<>>]

Init ==
    /\ notify_mutex = None /\ ns = None
    /\ head = [o \in Objects |-> None]
    /\ next = [c \in Cells |-> None]
    /\ callback = [c \in Cells |-> None]
    /\ allocated = {}
    /\ attached = Devices
    /\ refs = [d \in Devices |-> 1]
    /\ work = [w \in Works |-> NoWork]
    /\ at = [t \in Threads |-> Idle]
    /\ calls = 0 /\ faults = 0

At(t, pc) == at[t].pc = pc
Goto(t, pc) == at' = [at EXCEPT ![t].pc = pc]
Return(t) == at' = [at EXCEPT ![t] = Idle]

\* The handlers that are linked from each one on, by their next pointers.
Onward(link, rest) ==
    [c \in Cells \cup {None} |-> IF c = None THEN <<>> ELSE <<c>> \o rest[link[c]]]
Chain(link) ==
    LET from[n \in 0 .. Cardinality(Cells)] ==
          IF n = 0 THEN [c \in Cells \cup {None} |-> <<>>] ELSE Onward(link, from[n - 1])
    IN from[Cardinality(Cells)]
Handlers(o) == Chain(next)[head[o]]
InList(o, c) == \E i \in DOMAIN Handlers(o) : Handlers(o)[i] = c
CallbacksOf(o) == [i \in DOMAIN Handlers(o) |-> callback[Handlers(o)[i]]]

Quiescent == \A w \in Works : work[w].state \notin {"queued", "device", "root"}

-----------------------------------------------------------------------------
(***************************************************************************)
(* References.  Dropping the last one frees the object and its handlers.   *)
(***************************************************************************)
Ref(o) == refs' = IF o = Root THEN refs ELSE [refs EXCEPT ![o] = @ + 1]

Unref(o, dying) ==
    IF o = Root
    THEN UNCHANGED refs /\ allocated' = allocated \ dying
    ELSE /\ refs' = [refs EXCEPT ![o] = @ - 1]
         /\ allocated' = allocated \ (dying \cup
                IF refs[o] = 1 THEN {c \in Cells : InList(o, c)} ELSE {})

Installing == {"install", "installing"}
Notifying == {"notify", "notifying"}
AnyFree(set) == CHOOSE x \in set : TRUE

\* A call of the public API takes a reference under the namespace read lock.
\* The root object is used without one.
Call(t, pc, o, cb) ==
    /\ At(t, "idle") /\ calls < MaxCalls
    /\ o = Root \/ (o \in attached /\ ns = None)
    /\ Ref(o)
    /\ at' = [at EXCEPT ![t] = [pc |-> pc, obj |-> o, cb |-> cb, cell |-> None]]
    /\ calls' = calls + 1
    /\ UNCHANGED <<notify_mutex, ns, lists, attached, work, faults>>

\* (Bound: a record is left for every install that is under way.)
CallInstall(t, o, cb) ==
    /\ Cardinality(allocated) + Cardinality({u \in Threads : at[u].pc \in Installing})
          < Cardinality(Cells)
    /\ Call(t, "install", o, cb)
CallUninstall(t, o, cb) == Call(t, "uninstall", o, cb)

\* uacpi_acquire_native_mutex: infinite wait, or an error of the host.
Entered == [install |-> "installing", uninstall |-> "uninstalling", notify |-> "notifying"]

LockMutex(t) ==
    /\ at[t].pc \in DOMAIN Entered
    /\ notify_mutex = None
    /\ notify_mutex' = t
    /\ Goto(t, Entered[at[t].pc])
    /\ UNCHANGED <<ns, lists, objects, work, calls, faults>>

LockMutexFails(t) ==
    /\ at[t].pc \in DOMAIN Entered
    /\ faults < MaxFaults
    /\ faults' = faults + 1
    /\ IF At(t, "notify")
       THEN ns' = None /\ UNCHANGED <<refs, allocated>>
       ELSE UNCHANGED ns /\ Unref(at[t].obj, {})
    /\ Return(t)
    /\ UNCHANGED <<notify_mutex, head, next, callback, attached, work, calls>>

-----------------------------------------------------------------------------
(***************************************************************************)
(* uacpi_install_notify_handler and uacpi_uninstall_notify_handler, from   *)
(* the wait for work completion on.                                        *)
(***************************************************************************)
\* handler_container: the linked handlers with this callback.
handler_container(o, cb) == {c \in Cells : InList(o, c) /\ callback[c] = cb}

\* Mutant: scheduled work is not waited for.
WorkCompletedNot == TRUE

\* uacpi_kernel_wait_for_work_completion.
WorkCompleted == Quiescent

Install(t) ==
    /\ At(t, "installing") /\ WorkCompleted
    /\ handler_container(at[t].obj, at[t].cb) = {}
    /\ LET c == AnyFree(Cells \ allocated) IN
          /\ allocated' = allocated \cup {c}
          /\ callback' = [callback EXCEPT ![c] = at[t].cb]
          /\ next' = [next EXCEPT ![c] = head[at[t].obj]]
          /\ head' = [head EXCEPT ![at[t].obj] = c]
    /\ Goto(t, "leave")
    /\ UNCHANGED <<notify_mutex, ns, objects, work, calls, faults>>

\* UACPI_STATUS_ALREADY_EXISTS
InstallExists(t) ==
    /\ At(t, "installing") /\ WorkCompleted
    /\ handler_container(at[t].obj, at[t].cb) # {}
    /\ Goto(t, "leave")
    /\ UNCHANGED <<notify_mutex, ns, lists, objects, work, calls, faults>>

\* UACPI_STATUS_OUT_OF_MEMORY is returned on the spot: neither the mutex nor
\* the reference is given back.
InstallOutOfMemory(t) ==
    /\ At(t, "installing") /\ WorkCompleted
    /\ handler_container(at[t].obj, at[t].cb) = {}
    /\ Return(t)
    /\ UNCHANGED <<notify_mutex, ns, lists, objects, work, calls, faults>>

\* UACPI_STATUS_NOT_FOUND
UninstallMissing(t) ==
    /\ At(t, "uninstalling") /\ WorkCompleted
    /\ handler_container(at[t].obj, at[t].cb) = {}
    /\ Goto(t, "leave")
    /\ UNCHANGED <<notify_mutex, ns, lists, objects, work, calls, faults>>

\* The handler is unlinked, from the head or from its predecessor; it is
\* freed after the mutex and the reference are given back.
Uninstall(t) ==
    /\ At(t, "uninstalling") /\ WorkCompleted
    /\ \E c \in handler_container(at[t].obj, at[t].cb) :
          /\ IF head[at[t].obj] = c
             THEN head' = [head EXCEPT ![at[t].obj] = next[c]] /\ UNCHANGED next
             ELSE /\ next' = [p \in Cells |-> IF InList(at[t].obj, p) /\ next[p] = c
                                              THEN next[c] ELSE next[p]]
                  /\ UNCHANGED head
          /\ at' = [at EXCEPT ![t].pc = "leave", ![t].cell = c]
    /\ UNCHANGED <<notify_mutex, ns, callback, allocated, objects, work, calls, faults>>

Leave(t) ==
    /\ At(t, "leave")
    /\ notify_mutex' = None
    /\ Unref(at[t].obj, {at[t].cell})
    /\ Return(t)
    /\ UNCHANGED <<ns, head, next, callback, attached, work, calls, faults>>

-----------------------------------------------------------------------------
(***************************************************************************)
(* uacpi_notify_all, called by AML with the namespace write lock held.     *)
(***************************************************************************)
\* (Bound: a context is left for every call that is under way.)
UnusedWorks == {w \in Works : work[w].state = "none"}

CallNotify(t, d) ==
    /\ At(t, "idle") /\ calls < MaxCalls
    /\ Cardinality({u \in Threads : at[u].pc \in Notifying}) < Cardinality(UnusedWorks)
    /\ ns = None /\ d \in attached
    /\ ns' = t
    /\ at' = [at EXCEPT ![t] = [pc |-> "notify", obj |-> d, cb |-> None, cell |-> None]]
    /\ calls' = calls + 1
    /\ UNCHANGED <<notify_mutex, lists, objects, work, faults>>

FinishNotify(t) ==
    /\ notify_mutex' = None
    /\ ns' = None
    /\ Return(t)

\* Somebody listens: a context with references of its own is scheduled.
\* (`due' is what the work owes: every handler of the device and the root.)
Schedule(t) ==
    /\ At(t, "notifying")
    /\ head[at[t].obj] # None \/ head[Root] # None
    /\ LET w == AnyFree(UnusedWorks) IN
          /\ work' = [work EXCEPT ![w] =
                [state |-> "queued", obj |-> at[t].obj, ptr |-> None, called |-> <<>>,
                 due |-> CallbacksOf(at[t].obj) \o CallbacksOf(Root)]]
    /\ Ref(at[t].obj)
    /\ FinishNotify(t)
    /\ UNCHANGED <<lists, attached, calls, faults>>

\* UACPI_STATUS_NO_HANDLER; or no memory for the context; or the host does
\* not schedule, and the context is freed again.
NotScheduled(t) ==
    /\ At(t, "notifying")
    /\ \/ head[at[t].obj] = None /\ head[Root] = None /\ UNCHANGED faults
       \/ /\ head[at[t].obj] # None \/ head[Root] # None
          /\ faults < MaxFaults /\ faults' = faults + 1
    /\ FinishNotify(t)
    /\ UNCHANGED <<lists, objects, work, calls>>

-----------------------------------------------------------------------------
(***************************************************************************)
(* do_notify.  Works run concurrently, in any order.                       *)
(***************************************************************************)
\* Mutant: the work takes the mutex under which it is waited for.
BeginWorkLocked(w) ==
    /\ work[w].state = "queued" /\ notify_mutex = None
    /\ work' = [work EXCEPT ![w].state = "device", ![w].ptr = head[work[w].obj]]
    /\ UNCHANGED <<notify_mutex, ns, lists, objects, at, calls, faults>>

BeginWork(w) ==
    /\ work[w].state = "queued"
    /\ work' = [work EXCEPT ![w].state = "device", ![w].ptr = head[work[w].obj]]
    /\ UNCHANGED <<notify_mutex, ns, lists, objects, at, calls, faults>>

\* A handler that evaluates AML needs the namespace lock meanwhile.
CallHandler(w) ==
    /\ work[w].state \in {"device", "root"} /\ work[w].ptr # None
    /\ callback[work[w].ptr] \in Evaluating => ns = None
    /\ work' = [work EXCEPT ![w].called = Append(@, callback[work[w].ptr]),
                            ![w].ptr = next[work[w].ptr]]
    /\ UNCHANGED <<notify_mutex, ns, lists, objects, at, calls, faults>>

\* Mutant: the root is not notified.
TurnToNobody(w) ==
    /\ work[w].state = "device" /\ work[w].ptr = None
    /\ work' = [work EXCEPT ![w].state = "root"]
    /\ UNCHANGED <<notify_mutex, ns, lists, objects, at, calls, faults>>

TurnToRoot(w) ==
    /\ work[w].state = "device" /\ work[w].ptr = None
    /\ work' = [work EXCEPT ![w].state = "root", ![w].ptr = head[Root]]
    /\ UNCHANGED <<notify_mutex, ns, lists, objects, at, calls, faults>>

\* free_notification_ctx.
EndWork(w) ==
    /\ work[w].state = "root" /\ work[w].ptr = None
    /\ work' = [work EXCEPT ![w].state = "done"]
    /\ Unref(work[w].obj, {})
    /\ UNCHANGED <<notify_mutex, ns, head, next, callback, attached, at, calls, faults>>

\* A device leaves the namespace, under its write lock.
RemoveDevice(d) ==
    /\ d \in attached /\ ns = None /\ calls < MaxCalls
    /\ attached' = attached \ {d}
    /\ Unref(d, {})
    /\ calls' = calls + 1
    /\ UNCHANGED <<notify_mutex, ns, head, next, callback, work, at, faults>>

-----------------------------------------------------------------------------
Proceed(t) ==
    \/ LockMutex(t)
    \/ Install(t) \/ InstallExists(t) \/ Uninstall(t) \/ UninstallMissing(t) \/ Leave(t)
    \/ Schedule(t) \/ NotScheduled(t)

RunWork(w) == BeginWork(w) \/ CallHandler(w) \/ TurnToRoot(w) \/ EndWork(w)

Next ==
    \/ \E t \in Threads, o \in Objects, cb \in Callbacks :
          CallInstall(t, o, cb) \/ CallUninstall(t, o, cb)
    \/ \E t \in Threads, d \in Devices : CallNotify(t, d)
    \/ \E t \in Threads : Proceed(t) \/ LockMutexFails(t) \/ InstallOutOfMemory(t)
    \/ \E w \in Works : RunWork(w)
    \/ \E d \in Devices : RemoveDevice(d)

Spec == Init /\ [][Next]_vars

\* Threads and scheduled work run; calls are finitely many, so a thread that
\* waits for the mutex gets it if it is ever free for good.
FairSpec ==
    /\ Spec
    /\ \A t \in Threads : WF_vars(Proceed(t))
    /\ \A w \in Works : WF_vars(RunWork(w))

-----------------------------------------------------------------------------
TypeOK ==
    /\ notify_mutex \in Threads \cup {None} /\ ns \in Threads \cup {None}
    /\ head \in [Objects -> Cells \cup {None}]
    /\ next \in [Cells -> Cells \cup {None}]
    /\ callback \in [Cells -> Callbacks \cup {None}]
    /\ allocated \subseteq Cells /\ attached \subseteq Devices
    /\ refs \in [Devices -> Nat]
    /\ \A w \in Works : work[w].state \in {"none", "queued", "device", "root", "done"}
    /\ calls \in 0 .. MaxCalls /\ faults \in 0 .. MaxFaults

Alive(o) == o = Root \/ refs[o] > 0

\* Running work never stands on a handler that has been freed or
\* unlinked, nor on an object that has been freed, although it walks the
\* lists without the mutex and its device may be removed.
WorkOnLiveHandlers ==
    \A w \in Works : work[w].state \in {"queued", "device", "root"} =>
        /\ Alive(work[w].obj)
        /\ work[w].ptr # None =>
              /\ work[w].ptr \in allocated
              /\ InList(IF work[w].state = "root" THEN Root ELSE work[w].obj, work[w].ptr)

\* A list of a live object links allocated handlers only, each
\* callback once.
ListsSound ==
    \A o \in Objects : Alive(o) =>
        \A i, j \in DOMAIN Handlers(o) :
            /\ Handlers(o)[i] \in allocated
            /\ i # j => CallbacksOf(o)[i] # CallbacksOf(o)[j]

\* Safety: a notification that was accepted calls exactly the handlers that
\* were installed at that time on the device and then on the root, in order.
DeliveredExactly == \A w \in Works : work[w].state = "done" => work[w].called = work[w].due

\* Safety: no handler is lost: each allocated one is linked, or its removal
\* is on its way out.
NoneLost ==
    \A c \in allocated :
        \/ \E o \in Objects : Alive(o) /\ InList(o, c)
        \/ \E t \in Threads : at[t].cell = c

\* Safety: through any installs and removals the handler lists stay whole, and
\* do_notify, on its way through them without the mutex, never meets a handler
\* or an object that is gone.
HandlersSound == TypeOK /\ ListsSound /\ NoneLost /\ WorkOnLiveHandlers

\* An install that found no memory has left the mutex held.
Leaked ==
    \E t \in Threads :
        notify_mutex = t /\ at[t].pc \notin {"installing", "uninstalling", "notifying", "leave"}

\* AML in Notify waits for the mutex, its holder for scheduled work, and the
\* work, about to call a handler that evaluates AML, for the namespace.
AmlBehindHandler ==
    \E w \in Works :
        /\ work[w].state \in {"device", "root"} /\ work[w].ptr # None
        /\ callback[work[w].ptr] \in Evaluating
        /\ ns # None /\ notify_mutex # None
        /\ \/ Leaked
           \/ at[notify_mutex].pc \in {"installing", "uninstalling"}

\* Liveness: what notify.h says of a root handler, that it receives all
\* notifications.  Notify returns to AML, and accepted work completes, but
\* for the two ways in which the code itself stops them.
NotifyHeard ==
    /\ \A t \in Threads :
          At(t, "notify") ~> (~At(t, "notify") \/ Leaked \/ AmlBehindHandler)
    /\ \A w \in Works :
          work[w].state = "queued" ~> (work[w].state = "done" \/ AmlBehindHandler)
-----------------------------------------------------------------------------
(***************************************************************************)
(* The inductive invariant behind HandlersSound and DeliveredExactly: the  *)
(* lists are finite and apart, everybody who has an object refers to it,   *)
(* and a work has called what precedes the handler it stands on.           *)
(***************************************************************************)
Places == {"idle", "install", "installing", "uninstall", "uninstalling",
           "notify", "notifying", "leave"}
Running == {"queued", "device", "root"}

ThreadsTyped ==
    /\ at \in [Threads -> [pc : Places, obj : Objects \cup {None},
                          cb : Callbacks \cup {None}, cell : Cells \cup {None}]]
    /\ \A t \in Threads :
          /\ ~At(t, "idle") => at[t].obj \in Objects
          /\ at[t].pc \in Installing => at[t].cb \in Callbacks
          /\ at[t].cell # None => At(t, "leave")
WorksTyped ==
    /\ DOMAIN work = Works
    /\ \A w \in Works :
          /\ DOMAIN work[w] = {"state", "obj", "ptr", "called", "due"}
          /\ work[w].state \in Running => work[w].obj \in Devices
Typed == TypeOK /\ ThreadsTyped /\ WorksTyped

\* The mutex and the namespace are in the hands of who works under them.
LocksFit ==
    \A t \in Threads :
        /\ at[t].pc \in {"installing", "uninstalling", "notifying", "leave"} =>
              notify_mutex = t
        /\ at[t].pc \in Notifying => ns = t /\ at[t].obj \in attached

\* Sequence s is what is linked from cell h on.
Entry(s, i) == IF i \in DOMAIN s THEN s[i] ELSE None
Linked(link, s, h) ==
    /\ s \in Seq(Cells) /\ \A i, j \in DOMAIN s : s[i] = s[j] => i = j
    /\ h = Entry(s, 1) /\ \A i \in DOMAIN s : link[s[i]] = Entry(s, i + 1)

ListsFit ==
    \A o \in Objects : Alive(o) =>
        /\ Linked(next, Handlers(o), head[o])
        /\ \A i, j \in DOMAIN Handlers(o) :
              /\ Handlers(o)[i] \in allocated
              /\ i # j => callback[Handlers(o)[i]] # callback[Handlers(o)[j]]

\* No handler is in two lists, or in one when it is about to be freed.
ListsApart ==
    \A o \in Objects : Alive(o) => \A i \in DOMAIN Handlers(o) :
        /\ \A p \in Objects \ {o} : Alive(p) => ~InList(p, Handlers(o)[i])
        /\ \A t \in Threads : at[t].cell # Handlers(o)[i]
RemovedAllocated == \A t \in Threads : at[t].cell # None => at[t].cell \in allocated

\* Who has a reference to a device: the namespace, calls of the API and works.
Referrers(d) ==
    {None : a \in attached \cap {d}}
    \cup {t \in Threads : at[t].obj = d /\ at[t].pc \notin Notifying}
    \cup {w \in Works : work[w].obj = d /\ work[w].state \in Running}
Referred == \A d \in Devices : Cardinality(Referrers(d)) <= refs[d]

\* A record is left for each install under way, a context for each Notify.
Claims == allocated \cup {t \in Threads : at[t].pc \in Installing}
RoomLeft ==
    /\ Cardinality(Claims) <= Cardinality(Cells)
    /\ (\E t \in Threads : at[t].pc \in Notifying) => UnusedWorks # {}

\* A work owes the handlers of its device and of the root, and has called
\* those before the one it stands on.
Progress(w) ==
    LET o == work[w].obj
        mine == CallbacksOf(o)
        roots == CallbacksOf(Root)
    IN CASE work[w].state = "none" -> TRUE
         [] work[w].state = "done" -> work[w].called = work[w].due
         [] work[w].state = "queued" ->
              work[w].ptr = None /\ work[w].called = <<>> /\ work[w].due = mine \o roots
         [] work[w].state = "device" ->
              /\ work[w].due = mine \o roots
              /\ \E i \in 1 .. Len(mine) + 1 :
                    /\ work[w].ptr = Entry(Handlers(o), i)
                    /\ work[w].called = SubSeq(mine, 1, i - 1)
         [] work[w].state = "root" ->
              /\ work[w].due = mine \o roots
              /\ \E i \in 1 .. Len(roots) + 1 :
                    /\ work[w].ptr = Entry(Handlers(Root), i)
                    /\ work[w].called = mine \o SubSeq(roots, 1, i - 1)
WorksFit == \A w \in Works : Progress(w)

IInv ==
    /\ Typed /\ LocksFit /\ ListsFit /\ ListsApart /\ RemovedAllocated /\ NoneLost
    /\ Referred /\ RoomLeft /\ WorksFit
=============================================================================
