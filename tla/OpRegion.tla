------------------------------ MODULE OpRegion ------------------------------
(***************************************************************************)
(* Operation regions and address space handlers (opregion.c): user threads *)
(* install and uninstall handlers while AML threads create, access and     *)
(* destroy regions.  Two locks: the opregion lock (RecursiveLock), taken   *)
(* first, and the namespace write lock, which is dropped around every      *)
(* callback of a handler and wherever _REG gives it up.                    *)
(*                                                                         *)
(* A call is a frame on the stack of its thread: what it does, where it is *)
(* (at), the region it is about, and the regions an iteration has still to *)
(* visit.  The regions and the handlers change only under the opregion     *)
(* lock, so that what an iteration visits is known when it starts.         *)
(***************************************************************************)
EXTENDS RecursiveLock, FiniteSets, Sequences, SequencesExt

CONSTANTS
  Users,        \* threads that call the API; the others execute AML
  Devices,      \* the root first, each the parent of the next
  Regions,      \* region -> [dev, space, temp]
  HasReg,       \* the devices that have a _REG method
  Ids,          \* handler objects
  Offers,       \* the devices and spaces the users have handlers for
  MaxCalls      \* bound on the calls of the users and the failing acquires

ASSUME DevicesAssumption ==
  /\ Devices \in Seq({Devices[k] : k \in DOMAIN Devices})
  /\ \A o \in Offers : o[1] \in {Devices[k] : k \in DOMAIN Devices}
ASSUME RegionsAssumption == IsFiniteSet(DOMAIN Regions)
ASSUME IdsAssumption == Ids \subseteq Nat \ {0}

VARIABLES
  lists,        \* device -> its handlers, head first
  hnd,          \* handler -> [space, regions, refs]; refs = 0: not allocated
  reg,          \* region -> [handler, attached, regged, exists]
  th,           \* thread -> its calls, innermost last
  ns,           \* the holder of the namespace write lock
  loaded,       \* init_level >= NAMESPACE_LOADED
  calls,        \* made by the users so far
  told,         \* region -> what firmware's _REG was last told about it
  served        \* region -> the handler whose ATTACH it had, without a DETACH

opvars == <<lists, hnd, reg, th, ns, loaded, calls, told, served>>
allvars == <<vars, opvars>>

NoHandler == 0
needs_reg == {"PCC"}        \* space_needs_reg: not SystemMemory, here
Names == DOMAIN Regions
Order == SetToSeq(Names)    \* the order of the namespace

OpInit ==
  /\ Init
  /\ lists = [d \in Range(Devices) |-> <<>>]
  /\ hnd = [h \in Ids |-> [space |-> "none", regions |-> <<>>, refs |-> 0]]
  /\ reg = [r \in Names |-> [handler |-> NoHandler, attached |-> FALSE,
                             regged |-> FALSE, exists |-> ~Regions[r].temp]]
  /\ th = [t \in Threads |-> <<>>]
  /\ ns = NoThread /\ loaded = FALSE /\ calls = 0
  /\ told = [r \in Names |-> "never"]
  /\ served = [r \in Names |-> NoHandler]

----------------------------------------------------------------------------
Idle(t) == th[t] = <<>>
Fr(t) == Last(th[t])
AtFrame(t, call, at) == th[t] # <<>> /\ Fr(t).call = call /\ Fr(t).at = at
Set(t, f) == th' = [th EXCEPT ![t] = Append(Front(@), f)]
Move(t, at) == Set(t, [Fr(t) EXCEPT !.at = at])
Frame(call, r) ==
  [call |-> call, at |-> "start", r |-> r, dev |-> "none", space |-> "none",
   h |-> NoHandler, todo |-> <<>>, code |-> "none", unreg |-> FALSE, held |-> 0]
\* The caller goes on at a place of its own, the callee starts.
Call(t, at, f) ==
  th' = [th EXCEPT ![t] = Append(Front(@), [Fr(t) EXCEPT !.at = at]) \o << f >>]
Return(t) == th' = [th EXCEPT ![t] = Front(@)]

\* uacpi_namespace_write_lock and _unlock.
Lock(t) == ns = NoThread /\ ns' = t
Drop(t) == ns = t /\ ns' = NoThread

Unlocked(t) == pc[t] = "ready"

----------------------------------------------------------------------------
\* find_handler, and the handler of the closest device above that has one.
find_handler(d, space) ==
  LET k == SelectInSeq(lists[d], LAMBDA h : hnd[h].space = space)
  IN IF k = 0 THEN NoHandler ELSE lists[d][k]
Above(d) == {k \in DOMAIN Devices : k <= IndexFirstSubSeq(<<d>>, Devices)}
Nearest(d, space) ==
  LET with == {k \in Above(d) : find_handler(Devices[k], space) # NoHandler}
  IN IF with = {} THEN NoHandler
     ELSE find_handler(Devices[CHOOSE k \in with : \A j \in with : j <= k], space)
Below(d, e) == e \in Range(Devices) /\ IndexFirstSubSeq(<<d>>, Devices)
                                       <= IndexFirstSubSeq(<<e>>, Devices)

\* uacpi_namespace_do_for_each_child over the regions: those of temporary
\* nodes only where asked for, and none behind a device that has a handler of
\* its own when handlers are moved around.
Visit(d, space, temps, stop) ==
  LET wanted(r) ==
        LET e == Regions[r].dev
        IN /\ reg[r].exists /\ Regions[r].space = space /\ Below(d, e)
           /\ Regions[r].temp => temps
           /\ stop => \A k \in DOMAIN Devices :
                        Below(d, Devices[k]) /\ Devices[k] # d /\ Below(Devices[k], e)
                          => find_handler(Devices[k], space) = NoHandler
      visited[k \in 0..Len(Order)] ==
        IF k = 0 THEN <<>>
        ELSE IF wanted(Order[k]) THEN Append(visited[k - 1], Order[k])
        ELSE visited[k - 1]
  IN visited[Len(Order)]

\* uacpi_address_space_handler_unref.
Unref(hs, h) ==
  LET x == hs[h]
  IN [hs EXCEPT ![h] = IF x.refs = 1 THEN [space |-> "none", regions |-> <<>>, refs |-> 0]
                       ELSE [x EXCEPT !.refs = x.refs - 1]]

\* region_install_handler.
Linked(hs, r, h) == [hs EXCEPT ![h].refs = @ + 1, ![h].regions = <<r>> \o @]

----------------------------------------------------------------------------
\* region_uninstall_handler, called by whoever has both locks.
\* Mutant: the region stays on the list of its handler.
UnlinkForgotten(t) ==
  /\ AtFrame(t, "region_uninstall", "start")
  /\ IF reg[Fr(t).r].handler = NoHandler THEN Return(t)
     ELSE Move(t, IF reg[Fr(t).r].attached THEN "detach" ELSE "unreg")
  /\ UNCHANGED <<vars, lists, hnd, reg, ns, loaded, told, served, calls>>
\* Mutant: a region that is attached is not detached.
UnlinkAttached(t) ==
  /\ AtFrame(t, "region_uninstall", "start")
  /\ LET r == Fr(t).r
         h == reg[r].handler
     IN IF h = NoHandler THEN Return(t) /\ UNCHANGED hnd
        ELSE /\ hnd' = [hnd EXCEPT ![h].regions = RemoveFirst(@, r)]
             /\ Move(t, "unreg")
  /\ UNCHANGED <<vars, lists, reg, ns, loaded, told, served, calls>>
Unlink(t) ==
  /\ AtFrame(t, "region_uninstall", "start")
  /\ LET r == Fr(t).r
         h == reg[r].handler
     IN IF h = NoHandler THEN Return(t) /\ UNCHANGED hnd
        ELSE /\ hnd' = [hnd EXCEPT ![h].regions = RemoveFirst(@, r)]
             /\ Move(t, IF reg[r].attached THEN "detach" ELSE "unreg")
  /\ UNCHANGED <<vars, lists, reg, ns, loaded, told, served, calls>>

\* The DETACH callback, with the namespace unlocked.
Detach(t) ==
  \/ /\ AtFrame(t, "region_uninstall", "detach")
     /\ Drop(t) /\ Move(t, "detached")
     /\ served' = [served EXCEPT ![Fr(t).r] = NoHandler]
     /\ UNCHANGED <<vars, lists, hnd, reg, loaded, told, calls>>
  \/ /\ AtFrame(t, "region_uninstall", "detached")
     /\ Lock(t) /\ Move(t, "unreg")
     /\ UNCHANGED <<vars, lists, hnd, reg, loaded, told, served, calls>>

Unreg(t) ==
  /\ AtFrame(t, "region_uninstall", "unreg")
  /\ IF reg[Fr(t).r].regged /\ Fr(t).unreg
     THEN /\ Call(t, "end", [Frame("_REG", Fr(t).r) EXCEPT !.code = "disconnect"])
          /\ reg' = [reg EXCEPT ![Fr(t).r].regged = FALSE]
     ELSE Move(t, "end") /\ UNCHANGED reg
  /\ UNCHANGED <<vars, lists, hnd, ns, loaded, told, served, calls>>

Unhandled(t) ==
  /\ AtFrame(t, "region_uninstall", "end")
  /\ hnd' = Unref(hnd, reg[Fr(t).r].handler)
  /\ reg' = [reg EXCEPT ![Fr(t).r].handler = NoHandler, ![Fr(t).r].attached = FALSE]
  /\ Return(t)
  /\ UNCHANGED <<vars, lists, ns, loaded, told, served, calls>>

----------------------------------------------------------------------------
\* region_run_reg: the method runs with the namespace locked; it may sleep,
\* and access the region it is told about.
region_run_reg(t) ==
  LET r == Fr(t).r
      quiet == UNCHANGED <<vars, lists, hnd, reg, loaded, served, calls>>
  IN \/ /\ AtFrame(t, "_REG", "start")
        /\ IF Regions[r].dev \notin HasReg THEN Return(t) /\ UNCHANGED told
           ELSE /\ told' = [told EXCEPT ![r] = Fr(t).code]
                /\ \/ Move(t, "body") \/ Return(t)
        /\ UNCHANGED ns /\ quiet
     \/ /\ AtFrame(t, "_REG", "body")
        /\ \/ Drop(t) /\ Move(t, "sleep")
           \/ /\ Fr(t).code = "connect" /\ reg[r].exists
              /\ Call(t, "end", Frame("io", r)) /\ UNCHANGED ns
        /\ UNCHANGED told /\ quiet
     \/ /\ AtFrame(t, "_REG", "sleep")
        /\ Lock(t) /\ Move(t, "end") /\ UNCHANGED told /\ quiet
     \/ /\ AtFrame(t, "_REG", "end")
        /\ Return(t) /\ UNCHANGED <<told, ns>> /\ quiet

----------------------------------------------------------------------------
\* upgrade_to_opregion_lock, and the same acquire made by the API calls, which
\* do not have the namespace lock to begin with.  A call that does not get
\* the opregion lock is over.
Api == {"install", "uninstall", "reg_all"}
Acquiring == {"io", "initialize_node", "uninstall_node"} \cup Api
\* Mutant: the namespace stays locked.
UpgradeInside(t) ==
  \/ /\ ~Idle(t) /\ Fr(t).call \in Acquiring /\ Fr(t).at = "start"
     /\ CallAcquire(t)
     /\ Set(t, [Fr(t) EXCEPT !.at = "acquire", !.held = held[t]])
     /\ UNCHANGED <<ns, lists, hnd, reg, loaded, told, served, calls>>
  \/ /\ ~Idle(t) /\ Fr(t).at = "acquire" /\ Unlocked(t)
     /\ ns \in {NoThread, t} /\ ns' = t
     /\ Move(t, IF held[t] > Fr(t).held THEN "locked" ELSE "failed")
     /\ UNCHANGED <<vars, lists, hnd, reg, loaded, told, served, calls>>
Upgrade(t) ==
  \/ /\ ~Idle(t) /\ Fr(t).call \in Acquiring /\ Fr(t).at = "start"
     /\ ns' = IF ns = t THEN NoThread ELSE ns
     /\ CallAcquire(t)
     /\ Set(t, [Fr(t) EXCEPT !.at = "acquire", !.held = held[t]])
     /\ UNCHANGED <<lists, hnd, reg, loaded, told, served, calls>>
  \/ /\ ~Idle(t) /\ Fr(t).at = "acquire" /\ Unlocked(t)
     /\ IF held[t] > Fr(t).held THEN Move(t, "locked") /\ Lock(t)
        ELSE Move(t, "failed") /\ IF Fr(t).call \in Api THEN UNCHANGED ns ELSE Lock(t)
     /\ UNCHANGED <<vars, lists, hnd, reg, loaded, told, served, calls>>

\* uacpi_recursive_lock_release, behind uacpi_namespace_write_unlock in the API
\* calls; the namespace stays locked for a thread that executes AML.
LeaveRegions(t) ==
  \/ /\ ~Idle(t) /\ Fr(t).at = "leave"
     /\ CallRelease(t) /\ Move(t, "release")
     /\ ns' = IF Fr(t).call \in Api THEN NoThread ELSE ns
     /\ UNCHANGED <<lists, hnd, reg, loaded, told, served, calls>>
  \/ /\ ~Idle(t) /\ Unlocked(t) /\ Fr(t).at \in {"release", "failed"}
     /\ Fr(t).call # "initialize_node" /\ Fr(t).call # "uninstall_node"
     /\ Return(t)
     /\ ns' = IF ns = t /\ Len(th[t]) = 1 THEN NoThread ELSE ns
     /\ UNCHANGED <<vars, lists, hnd, reg, loaded, told, served, calls>>

----------------------------------------------------------------------------
\* uacpi_dispatch_opregion_io with uacpi_opregion_attach.  An access out of
\* bounds, or one that the PCC buffer can serve, calls nobody.
Io(t) ==
  LET r == Fr(t).r
      quiet == UNCHANGED <<vars, lists, hnd, loaded, told, calls>>
  IN \/ /\ AtFrame(t, "io", "locked")
        /\ Move(t, CASE ~reg[r].exists \/ reg[r].handler = NoHandler -> "leave"
                     [] reg[r].exists /\ reg[r].attached -> "access"
                     [] OTHER -> "attach")
        /\ UNCHANGED <<reg, ns, served>> /\ quiet
     \/ /\ AtFrame(t, "io", "attach") /\ Drop(t)
        /\ \/ Move(t, "attached") /\ served' = [served EXCEPT ![r] = reg[r].handler]
           \/ Move(t, "refused") /\ UNCHANGED served
        /\ UNCHANGED reg /\ quiet
     \/ /\ AtFrame(t, "io", "refused") /\ Lock(t) /\ Move(t, "leave")
        /\ UNCHANGED <<reg, served>> /\ quiet
     \/ /\ AtFrame(t, "io", "attached") /\ Lock(t)
        /\ reg' = [reg EXCEPT ![r].attached = TRUE]
        /\ Move(t, "access") /\ UNCHANGED served /\ quiet
     \/ /\ AtFrame(t, "io", "access")
        /\ \/ Drop(t) /\ Set(t, [Fr(t) EXCEPT !.at = "callback", !.h = reg[r].handler])
           \/ Move(t, "leave") /\ UNCHANGED ns
        /\ UNCHANGED <<reg, served>> /\ quiet
     \/ /\ AtFrame(t, "io", "callback") /\ Lock(t) /\ Move(t, "leave")
        /\ UNCHANGED <<reg, served>> /\ quiet

----------------------------------------------------------------------------
\* handle_create_op_region: uacpi_initialize_opregion_node looks upwards for a
\* handler, then the node is installed.
uacpi_initialize_opregion_node(t) ==
  LET r == Fr(t).r
      quiet == UNCHANGED <<vars, lists, ns, loaded, told, served, calls>>
  IN \/ /\ AtFrame(t, "initialize_node", "locked")
        /\ LET h == Nearest(Regions[r].dev, Regions[r].space)
           IN IF h = NoHandler THEN Move(t, "leave") /\ UNCHANGED <<reg, hnd>>
              ELSE /\ hnd' = Linked(hnd, r, h)
                   /\ reg' = [reg EXCEPT ![r].handler = h]
                   /\ Move(t, IF Regions[r].space \in needs_reg /\ loaded
                              THEN "connect" ELSE "leave")
        /\ quiet
     \/ /\ AtFrame(t, "initialize_node", "connect")
        /\ reg' = [reg EXCEPT ![r].regged = Regions[r].dev \in HasReg]
        /\ Call(t, "leave", [Frame("_REG", r) EXCEPT !.code = "connect"])
        /\ UNCHANGED hnd /\ quiet
     \/ /\ ~Idle(t) /\ Fr(t).call = "initialize_node" /\ Unlocked(t)
        /\ Fr(t).at \in {"release", "failed"}
        /\ reg' = [reg EXCEPT ![r].exists = TRUE]
        /\ Return(t) /\ ns' = NoThread
        /\ UNCHANGED <<vars, lists, hnd, loaded, told, served, calls>>

\* namespace_node_detach_object of a temporary region when its method ends.
uacpi_opregion_uninstall_handler(t) ==
  LET r == Fr(t).r
  IN \/ /\ AtFrame(t, "uninstall_node", "locked")
        /\ Call(t, "leave", [Frame("region_uninstall", r) EXCEPT !.unreg = TRUE])
        /\ UNCHANGED <<vars, lists, hnd, reg, ns, loaded, told, served, calls>>
     \/ /\ AtFrame(t, "uninstall_node", "release") /\ Unlocked(t)
        /\ reg' = [reg EXCEPT ![r].exists = FALSE]
        /\ Return(t) /\ ns' = NoThread
        /\ UNCHANGED <<vars, lists, hnd, loaded, told, served, calls>>

----------------------------------------------------------------------------
\* reg_or_unreg_all_opregions with do_run_reg.
RunReg(t) ==
  /\ ~Idle(t) /\ Fr(t).at = "regs"
  /\ LET f == Fr(t)
         r == Head(f.todo)
         connect == f.code = "connect"
         next == [f EXCEPT !.todo = Tail(@)]
     IN IF f.todo = <<>> THEN Move(t, "end") /\ UNCHANGED reg
        ELSE IF reg[r].regged = connect THEN Set(t, next) /\ UNCHANGED reg
        ELSE /\ reg' = [reg EXCEPT ![r].regged = connect /\ Regions[r].dev \in HasReg]
             /\ th' = [th EXCEPT ![t] = Append(Front(@), next)
                         \o << [Frame("_REG", r) EXCEPT !.code = f.code] >>]
  /\ UNCHANGED <<vars, lists, hnd, ns, loaded, told, served, calls>>

\* uacpi_install_address_space_handler_with_flags.
Install(t) ==
  LET f == Fr(t)
      free == {h \in Ids : hnd[h].refs = 0}
      regs == Visit(f.dev, f.space, FALSE, FALSE)
  IN \/ /\ AtFrame(t, "install", "locked")
        /\ IF find_handler(f.dev, f.space) # NoHandler \/ free = {}
           THEN Move(t, "leave") /\ UNCHANGED <<hnd, lists>>
           ELSE LET h == CHOOSE k \in free : \A j \in free : k <= j
                IN /\ hnd' = [hnd EXCEPT ![h] =
                                [space |-> f.space, regions |-> <<>>, refs |-> 1]]
                   /\ lists' = [lists EXCEPT ![f.dev] = <<h>> \o @]
                   /\ Set(t, [f EXCEPT !.at = "regions", !.h = h,
                                !.todo = Visit(f.dev, f.space, FALSE, TRUE)])
        /\ UNCHANGED <<vars, reg, ns, loaded, told, served, calls>>
     \/ /\ AtFrame(t, "install", "regions")
        /\ IF f.todo = <<>>
           THEN /\ IF f.space \in needs_reg /\ loaded
                   THEN Set(t, [f EXCEPT !.at = "regs", !.code = "connect", !.todo = regs])
                   ELSE Move(t, "leave")
                /\ UNCHANGED <<hnd, reg>>
           ELSE LET r == Head(f.todo)
                IN IF reg[r].handler # NoHandler
                   THEN Call(t, "regions", Frame("region_uninstall", r)) /\ UNCHANGED <<hnd, reg>>
                   ELSE /\ hnd' = Linked(hnd, r, f.h)
                        /\ reg' = [reg EXCEPT ![r].handler = f.h]
                        /\ Set(t, [f EXCEPT !.todo = Tail(@)])
        /\ UNCHANGED <<vars, lists, ns, loaded, told, served, calls>>
     \/ /\ AtFrame(t, "install", "end") /\ Move(t, "leave")
        /\ UNCHANGED <<vars, lists, hnd, reg, ns, loaded, told, served, calls>>

\* uacpi_uninstall_address_space_handler: a handler that is not at the head of
\* the list leaves without telling firmware.
Uninstall(t) ==
  LET f == Fr(t)
      h == find_handler(f.dev, f.space)
      quiet == UNCHANGED <<vars, reg, ns, loaded, told, served, calls>>
  IN \/ /\ AtFrame(t, "uninstall", "locked")
        /\ IF h = NoHandler THEN Move(t, "leave")
           ELSE Set(t, [f EXCEPT !.at = "regions", !.h = h,
                          !.todo = Visit(f.dev, f.space, TRUE, TRUE)])
        /\ UNCHANGED <<lists, hnd>> /\ quiet
     \/ /\ AtFrame(t, "uninstall", "regions")
        /\ IF f.todo = <<>>
           THEN /\ lists' = [lists EXCEPT ![f.dev] = RemoveFirst(@, f.h)]
                /\ IF Head(lists[f.dev]) = f.h /\ f.space \in needs_reg
                   THEN Set(t, [f EXCEPT !.at = "regs", !.code = "disconnect",
                                  !.todo = Visit(f.dev, f.space, TRUE, FALSE)])
                   ELSE Move(t, "end")
           ELSE /\ LET r == Head(f.todo)
                       next == [f EXCEPT !.todo = Tail(@)]
                   IN IF reg[r].handler # f.h THEN Set(t, next)
                      ELSE th' = [th EXCEPT ![t] = Append(Front(@), next)
                                    \o << Frame("region_uninstall", r) >>]
                /\ UNCHANGED lists
        /\ UNCHANGED hnd /\ quiet
     \/ /\ AtFrame(t, "uninstall", "end")
        /\ hnd' = Unref(hnd, f.h) /\ Move(t, "leave")
        /\ UNCHANGED lists /\ quiet

uacpi_reg_all_opregions(t) ==
  /\ \/ /\ AtFrame(t, "reg_all", "locked")
        /\ IF find_handler(Fr(t).dev, Fr(t).space) = NoHandler THEN Move(t, "leave")
           ELSE Set(t, [Fr(t) EXCEPT !.at = "regs", !.code = "connect",
                          !.todo = Visit(Fr(t).dev, Fr(t).space, FALSE, FALSE)])
     \/ AtFrame(t, "reg_all", "end") /\ Move(t, "leave")
  /\ UNCHANGED <<vars, lists, hnd, reg, ns, loaded, told, served, calls>>

----------------------------------------------------------------------------
\* A user's next call; what a method does next, once it has the namespace.
NewCall(t) ==
  /\ Idle(t) /\ Unlocked(t)
  /\ \/ /\ t \in Users /\ calls + faults < MaxCalls /\ calls' = calls + 1
        /\ \E call \in {"install", "uninstall", "reg_all"}, offer \in Offers :
             /\ call = "reg_all" => loaded /\ offer[2] \in needs_reg
             /\ th' = [th EXCEPT ![t] =
                  << [Frame(call, "none") EXCEPT !.dev = offer[1], !.space = offer[2]] >>]
        /\ UNCHANGED <<reg, ns, told>>
     \/ /\ t \notin Users /\ live /\ Lock(t) /\ UNCHANGED calls
        /\ \E r \in Names :
             LET begin(call) == th' = [th EXCEPT ![t] = << Frame(call, r) >>]
                 busy == \E u \in Threads : ~Idle(u) /\ th[u][1].r = r
                                            /\ th[u][1].call # "io"
             IN \/ begin("io") /\ UNCHANGED <<reg, told>>
                \/ /\ Regions[r].temp /\ ~reg[r].exists /\ ~busy
                   /\ reg' = [reg EXCEPT ![r].regged = FALSE]
                   /\ told' = [told EXCEPT ![r] = "never"]
                   /\ begin("initialize_node")
                \/ /\ Regions[r].temp /\ reg[r].exists /\ ~busy
                   /\ begin("uninstall_node") /\ UNCHANGED <<reg, told>>
  /\ UNCHANGED <<vars, lists, hnd, loaded, served>>

NamespaceLoaded ==
  /\ live /\ ~loaded /\ loaded' = TRUE
  /\ UNCHANGED <<vars, lists, hnd, reg, th, ns, told, served, calls>>

\* uacpi_initialize_opregion and uacpi_deinitialize_opregion.
InitializeRegions == uacpi_recursive_lock_init /\ UNCHANGED opvars
DeinitializeRegions ==
  /\ \A t \in Threads : Idle(t)
  /\ \A h \in Ids : hnd[h].refs = 0
  /\ uacpi_recursive_lock_deinit
  /\ UNCHANGED opvars

\* A mutex that waits without a limit is not expected to fail while a node is
\* being torn down: the handler would keep a region that is freed.
LockStep(t) ==
  /\ \/ LoadOwner(t) \/ TakeMutex(t) \/ StoreOwner(t)
     \/ /\ TakeMutexFails(t) /\ calls + faults' <= MaxCalls
        /\ Fr(t).call # "uninstall_node"
     \/ CountDown(t) \/ DropOwner(t) \/ Unlock(t)
  /\ UNCHANGED opvars

RegionStep(t) ==
  \/ LockStep(t) \/ NewCall(t)
  \/ /\ ~Idle(t) /\ Unlocked(t)
     /\ \/ Upgrade(t) \/ LeaveRegions(t)
        \/ Unlink(t) \/ Detach(t) \/ Unreg(t) \/ Unhandled(t) \/ region_run_reg(t)
        \/ Io(t) \/ uacpi_initialize_opregion_node(t)
        \/ uacpi_opregion_uninstall_handler(t)
        \/ RunReg(t) \/ Install(t) \/ Uninstall(t) \/ uacpi_reg_all_opregions(t)

OpNext ==
  \/ NamespaceLoaded \/ InitializeRegions \/ DeinitializeRegions
  \/ \E t \in Threads : RegionStep(t)
OpSpec == OpInit /\ [][OpNext]_allvars

----------------------------------------------------------------------------
InLists(h) == \E d \in Range(Devices) : h \in Range(lists[d])
\* A region is unlinked and lets go of its handler in two steps.
Leaving(r) ==
  \E t \in Threads : \E k \in DOMAIN th[t] :
    /\ th[t][k].call = "region_uninstall" /\ th[t][k].r = r /\ th[t][k].at # "start"
\* Handlers and regions agree: a region is on the list of its handler, once,
\* and on no other; a handler is counted by its device and by its regions, so
\* it is not freed while either still leads to it, whatever is installed,
\* removed, created and destroyed in between.
HandlersExact ==
  \A h \in Ids :
    LET mine == {r \in Names : reg[r].handler = h}
        unref == {t \in Threads : ~Idle(t) /\ th[t][1].call = "uninstall"
                                  /\ th[t][1].h = h /\ ~InLists(h)
                                  /\ th[t][1].at \in {"regs", "end"}}
    IN /\ hnd[h].refs = Cardinality(mine) + (IF InLists(h) \/ unref # {} THEN 1 ELSE 0)
       /\ IsInjective(hnd[h].regions)
       /\ \A r \in Names :
            r \in Range(hnd[h].regions) <=> reg[r].handler = h /\ ~Leaving(r)

\* What a handler and firmware are told comes in pairs: I/O only between the
\* ATTACH and the DETACH of a handler that is still there; DETACH before the
\* region goes to another handler or away; _REG is told connect and disconnect
\* by turns.
Resting == mutex = NoThread
CallsPaired ==
  /\ \A r \in Names : Resting =>
       /\ served[r] = (IF reg[r].attached THEN reg[r].handler ELSE NoHandler)
       /\ reg[r].attached => reg[r].exists /\ reg[r].handler # NoHandler
       /\ reg[r].regged <=> told[r] = "connect"
  /\ \A t \in Threads : AtFrame(t, "io", "callback") =>
       hnd[Fr(t).h].refs > 0 /\ served[Fr(t).r] = Fr(t).h

\* upgrade_to_opregion_lock keeps the order of the two locks: nobody waits for
\* the opregion lock while holding the namespace lock, nor for one he holds.
LockOrder == NoSelfWait /\ \A t \in Threads : pc[t] = "take" => ns # t

----------------------------------------------------------------------------
(***************************************************************************)
(* What the proofs add to make these inductive.                            *)
(***************************************************************************)
NodeCalls == {"initialize_node", "uninstall_node"}
Outside == {"start", "acquire", "failed", "release"}
PlacesOf ==
  [call \in Acquiring \cup {"region_uninstall", "_REG"} |->
     CASE call = "io" ->
            Outside \cup {"locked", "attach", "attached", "refused", "access",
                          "callback", "leave"}
       [] call = "initialize_node" -> Outside \cup {"locked", "connect", "leave"}
       [] call = "uninstall_node" -> (Outside \ {"failed"}) \cup {"locked", "leave"}
       [] call \in {"install", "uninstall"} ->
            Outside \cup {"locked", "regions", "regs", "end", "leave"}
       [] call = "reg_all" -> Outside \cup {"locked", "regs", "end", "leave"}
       [] call = "region_uninstall" -> {"start", "detach", "detached", "unreg", "end"}
       [] OTHER -> {"start", "body", "sleep", "end"}]

Spaces == {o[2] : o \in Offers} \cup {"none"}
FrameType ==
  [call : DOMAIN PlacesOf, at : UNION {PlacesOf[c] : c \in DOMAIN PlacesOf},
   r : Names \cup {"none"}, dev : {o[1] : o \in Offers} \cup {"none"},
   space : Spaces, h : Ids \cup {NoHandler}, todo : Seq(Names),
   code : {"none", "connect", "disconnect"}, unreg : BOOLEAN, held : Nat]
OpTypes ==
  /\ lists \in [Range(Devices) -> Seq(Ids)]
  /\ hnd \in [Ids -> [space : Spaces, regions : Seq(Names), refs : Nat]]
  /\ reg \in [Names -> [handler : Ids \cup {NoHandler}, attached : BOOLEAN,
                        regged : BOOLEAN, exists : BOOLEAN]]
  /\ th \in [Threads -> Seq(FrameType)]
  /\ ns \in Threads \cup {NoThread}
  /\ told \in [Names -> {"never", "connect", "disconnect"}]
  /\ served \in [Names -> Ids \cup {NoHandler}]

FrameFits(f) ==
  /\ f.at \in PlacesOf[f.call]
  /\ f.at \in {"start", "acquire", "locked"} => f.todo = <<>>
  /\ f.at = "regs" => f.code # "none"
  /\ IF f.call \in Api THEN f.dev \in Range(Devices) ELSE f.r \in Names

\* What p may have called, and what f, called by p, may have called in turn.
MayCall(p, f) ==
  \/ /\ f.call = "region_uninstall"
     /\ \/ p.call \in {"install", "uninstall"} /\ p.at = "regions" /\ ~f.unreg
        \/ p.call = "uninstall_node" /\ p.at = "leave" /\ f.unreg /\ f.r = p.r
  \/ /\ f.call = "_REG" /\ f.code # "none"
     /\ \/ p.call \in Api /\ p.at = "regs"
        \/ p.call = "initialize_node" /\ p.at = "leave" /\ f.r = p.r
MayCallAgain(f, g) ==
  \/ /\ f.call = "region_uninstall" /\ f.at = "end" /\ f.unreg
     /\ g.call = "_REG" /\ g.code = "disconnect" /\ g.r = f.r
  \/ /\ f.call = "_REG" /\ f.at = "end" /\ f.code = "connect"
     /\ g.call = "io" /\ g.r = f.r

StackFit(t) ==
  /\ Len(th[t]) <= 3
  /\ \A k \in DOMAIN th[t] : FrameFits(th[t][k])
  /\ Len(th[t]) > 0 => th[t][1].call \in Acquiring
                       /\ (th[t][1].call \in Api <=> t \in Users)
  /\ Len(th[t]) > 1 => MayCall(th[t][1], th[t][2])
  /\ Len(th[t]) > 2 => MayCallAgain(th[t][2], th[t][3])

\* How often a thread has the opregion lock follows from where its calls are.
Inside(f) == f.call \in Acquiring /\ f.at \notin Outside
Beneath(t) == IF Len(th[t]) > 1 THEN 1 ELSE 0
HeldFit(t) ==
  /\ Idle(t) => Unlocked(t) /\ held[t] = 0
  /\ ~Idle(t) /\ Fr(t).at = "acquire" =>
       /\ Fr(t).held = Beneath(t)
       /\ pc[t] \in {"ready", "acquire", "take", "store"}
       /\ held[t] # Beneath(t) => held[t] = Beneath(t) + 1 /\ Unlocked(t)
       /\ Fr(t).call = "uninstall_node" /\ Unlocked(t) => held[t] # Beneath(t)
  /\ ~Idle(t) /\ Fr(t).at = "release" =>
       /\ pc[t] \in {"ready", "release", "drop", "unlock"}
       /\ held[t] = Beneath(t) + (IF pc[t] = "release" THEN 1 ELSE 0)
  /\ ~Idle(t) /\ Fr(t).at \notin {"acquire", "release"} =>
       /\ Unlocked(t)
       /\ held[t] = Beneath(t) + (IF Inside(Fr(t)) THEN 1 ELSE 0)

\* The namespace is locked by the thread whose call is not in a callback, in
\* _REG's sleep or on its way into the opregion lock.
Away(f) ==
  \/ f.at \in {"acquire", "detached", "sleep", "attached", "refused", "callback"}
  \/ f.call \in Api /\ f.at \in Outside
NsFit(t) == ns = t <=> ~Idle(t) /\ ~Away(Fr(t))

CallsFit == \A t \in Threads : StackFit(t) /\ HeldFit(t) /\ NsFit(t)

InLock(t) == ~Idle(t) /\ th[t][1].at \notin Outside
InCall(t, call, r) == ~Idle(t) /\ th[t][1].call = call /\ th[t][1].r = r

\* A region that is not there has no handler, but for the one whose creation
\* has looked for one; one that goes away has lost it, and nobody in the
\* opregion lock has still to visit it.
NodesFit ==
  /\ \A t \in Threads, r \in Names :
       /\ InCall(t, "initialize_node", r) =>
            /\ ~reg[r].exists
            /\ th[t][1].at \in {"start", "acquire", "locked", "failed"}
                 => reg[r].handler = NoHandler
       /\ InCall(t, "uninstall_node", r) =>
            /\ reg[r].exists
            /\ th[t][1].at \in {"leave", "release"} /\ Len(th[t]) = 1
                 => reg[r].handler = NoHandler
            /\ th[t][1].at = "release" => \A u \in Threads : ~InLock(u)
       /\ \A u \in Threads, c, e \in NodeCalls :
            InCall(t, c, r) /\ InCall(u, e, r) => t = u
  /\ \A t \in Threads : InLock(t) => \A q \in Range(th[t][1].todo) : reg[q].exists
  /\ \A r \in Names :
       ~reg[r].exists /\ reg[r].handler # NoHandler
         => \E t \in Threads : InCall(t, "initialize_node", r)

\* A handler is on one list, once.
ListsFit ==
  /\ \A d \in Range(Devices) : IsInjective(lists[d])
  /\ \A d, e \in Range(Devices) : \A h \in Range(lists[d]) : h \in Range(lists[e]) => d = e
  /\ \A t \in Threads : InLock(t) =>
       LET f == th[t][1]
       IN /\ f.call = "install" /\ f.at = "regions" => f.h \in Ids
          /\ f.call = "uninstall" /\ f.at = "regions" => f.h \in Range(lists[f.dev])
          /\ f.call = "uninstall" /\ f.at \in {"regs", "end"} =>
               f.h \in Ids /\ ~InLists(f.h)

\* What a call inside the opregion lock knows of its region.
RegionKnown(t, f) ==
  /\ f.call = "region_uninstall" =>
       /\ f.at # "start" => reg[f.r].handler # NoHandler
       /\ f.at = "detach" => reg[f.r].attached
       /\ f.at \in {"detached", "unreg", "end"} => served[f.r] = NoHandler
  /\ f.call = "io" =>
       /\ f.at \in {"attach", "attached", "access", "callback"} =>
            reg[f.r].exists /\ reg[f.r].handler # NoHandler
       /\ f.at \in {"attach", "attached"} => ~reg[f.r].attached
       /\ f.at = "attached" => served[f.r] = reg[f.r].handler
       /\ f.at \in {"access", "callback"} => reg[f.r].attached
       /\ f.at = "callback" => f.h = reg[f.r].handler
  /\ f.call = "_REG" /\ f.at = "start" =>
       /\ reg[f.r].regged <=> f.code = "connect" /\ Regions[f.r].dev \in HasReg
       /\ reg[f.r].exists \/ InCall(t, "initialize_node", f.r)

Doing(r, call, ats) ==
  \E t \in Threads : \E k \in DOMAIN th[t] :
    th[t][k].call = call /\ th[t][k].r = r /\ th[t][k].at \in ats
ToldFits ==
  /\ \A t \in Threads : \A k \in DOMAIN th[t] : RegionKnown(t, th[t][k])
  /\ \A r \in Names :
       /\ reg[r].attached => reg[r].exists /\ reg[r].handler # NoHandler
       /\ told[r] = "connect" => Regions[r].dev \in HasReg
       /\ Doing(r, "region_uninstall", {"detached", "unreg", "end"})
          \/ Doing(r, "io", {"attached"})
          \/ served[r] = IF reg[r].attached THEN reg[r].handler ELSE NoHandler
       /\ Doing(r, "_REG", {"start"}) \/ (reg[r].regged <=> told[r] = "connect")

OpInv ==
  /\ IInv /\ OpTypes /\ CallsFit /\ NodesFit /\ ListsFit /\ HandlersExact /\ ToldFits
============================================================================
