----------------------------- MODULE Namespace -----------------------------
(***************************************************************************)
(* The ACPI namespace (namespace.c, and the name resolution of the         *)
(* interpreter): a tree of reference-counted nodes kept as linked lists,   *)
(* under the reader-writer lock of RwLock.  Threads that execute AML       *)
(* create nodes, some of which go away when their method returns; threads  *)
(* of the host look names up and walk the tree with bare node pointers,    *)
(* giving the lock up round their callbacks.  A reset wipes everything.    *)
(*                                                                         *)
(* A node is an identity that is used once: a freed one stays recognisable.*)
(* Of a name the model keeps which name it is, of an object that it is     *)
(* there, whether the mask of the calls matches it, and its references.    *)
(*                                                                         *)
(* The lock's functions are steps of RwLock for threads that do nothing in *)
(* their sections; the calls below take and leave it in one step: what the *)
(* functions do in between happens under read_mutex and shows only there.  *)
(***************************************************************************)
EXTENDS RwLock, Sequences, SequencesExt

CONSTANTS
  Nodes,        \* all nodes but the root
  Predefined,   \* those that the program declares itself -> their names
  Root, NoNode,
  Names,
  Walks,        \* the arguments for walks: [max, cbs, any]
  MaxSleeps     \* bound on the times AML gives the lock up

VARIABLES
  ns,           \* node -> its fields
  call,         \* thread -> the call it is in
  it,           \* thread -> the variables of its iteration, search or wipe
  frames,       \* thread -> the method and table frames it executes
  pending,      \* thread -> the node created but not installed yet
  kept,         \* nodes that some AML object holds a reference to
  sleeps,
  roles         \* thread -> the calls it makes, and which of the choices that
                \* AML has in them: fixed by the initial state

nsvars == <<ns, call, it, frames, pending, kept, sleeps, roles>>
lockvars == vars
all == <<lockvars, nsvars>>

Blank ==
  [state |-> "unused", name |-> "none", parent |-> NoNode, child |-> NoNode,
   next |-> NoNode, temp |-> FALSE, matches |-> TRUE, refs |-> 0,
   obj |-> FALSE, objrefs |-> 0]

\* Where an iteration is, and what it has visited (history: the nodes that
\* were there when it began, those whose children it was told to skip, and the
\* turns of the wipe).
Start ==
  [node |-> NoNode, from |-> Root, depth |-> 1, max |-> 1, up |-> FALSE,
   cbs |-> {}, any |-> TRUE, decision |-> "none", visits |-> <<>>,
   there |-> {}, skipped |-> {}, turns |-> 0]

NsInit ==
  /\ Init
  /\ ns = [n \in Nodes \cup {Root} |-> Blank]
  /\ call = [t \in Threads |-> "none"]
  /\ it = [t \in Threads |-> Start]
  /\ frames = [t \in Threads |-> <<>>]
  /\ pending = [t \in Threads |-> NoNode]
  /\ kept = {} /\ sleeps = 0

LockRead(t) ==
  /\ pc[t] = "idle" /\ read_mutex = NoThread /\ (num_readers = 0 => ~write_mutex)
  /\ num_readers' = num_readers + 1 /\ write_mutex' = TRUE /\ Goto(t, "reading")
  /\ UNCHANGED <<live, read_mutex, leaked, faults>>
UnlockRead(t) ==
  /\ pc[t] = "reading" /\ read_mutex = NoThread
  /\ num_readers' = num_readers - 1 /\ write_mutex' = (num_readers > 1) /\ Goto(t, "idle")
  /\ UNCHANGED <<live, read_mutex, leaked, faults>>
LockWrite(t) ==
  /\ pc[t] = "idle" /\ ~write_mutex
  /\ write_mutex' = TRUE /\ Goto(t, "writing")
  /\ UNCHANGED <<live, read_mutex, num_readers, leaked, faults>>

Becomes(t, what) == call' = [call EXCEPT ![t] = what]
In(t, what) == call[t] = what /\ pc[t] \in {"reading", "writing"}
Out(t, what) == call[t] = what /\ pc[t] = "idle"

----------------------------------------------------------------------------
(***************************************************************************)
(* The lists.  Chain(s, x) is x and its later peers, with NoNode behind    *)
(* the last one.                                                           *)
(***************************************************************************)
Chain(s, x) ==
  LET c[i \in 0 .. Cardinality(Nodes)] ==
        IF i = 0 THEN x ELSE IF c[i - 1] = NoNode THEN NoNode ELSE s[c[i - 1]].next
  IN c
First(s, x, P(_)) ==
  LET c == Chain(s, x)
      hits == {i \in DOMAIN c : c[i] # NoNode /\ P(c[i])}
  IN IF hits = {} THEN NoNode ELSE c[Min(hits)]

\* The nodes from n's parent up to the root.
Above(s, n) ==
  LET c[i \in 0 .. Cardinality(Nodes)] ==
        IF i = 0 THEN s[n].parent
        ELSE IF c[i - 1] = NoNode THEN NoNode ELSE s[c[i - 1]].parent
  IN SelectSeq([i \in 1 .. Cardinality(Nodes) + 1 |-> c[i - 1]],
               LAMBDA m : m # NoNode)

uacpi_namespace_node_find_sub_node(s, p, name) ==
  First(s, s[p].child, LAMBDA n : s[n].name = name)

\* uacpi_namespace_node_install: behind the last child; a dangling node is
\* refused.
Installed(s, p, n) ==
  LET last == First(s, s[p].child, LAMBDA m : s[m].next = NoNode)
      linked == IF last = NoNode THEN [s EXCEPT ![p].child = n]
                ELSE [s EXCEPT ![last].next = n]
  IN IF s[n].state = "dangling" THEN s
     ELSE [linked EXCEPT ![n].parent = p, ![n].state = "in"]

\* uacpi_shareable_unref_and_delete_if_last and free_namespace_node: the
\* memory of a predefined node is reset, that of others is gone.
Unref(s, n) ==
  CASE s[n].refs = 0 -> s
    [] s[n].refs > 1 -> [s EXCEPT ![n].refs = @ - 1]
    [] n \in DOMAIN Predefined -> [s EXCEPT ![n] = Blank]
    [] OTHER -> [s EXCEPT ![n].refs = 0, ![n].state = "freed"]

\* namespace_node_detach_object.
Detached(s, n) ==
  IF s[n].obj THEN [s EXCEPT ![n].obj = FALSE, ![n].objrefs = @ - 1] ELSE s

Unlinked(s, n) ==
  LET head == s[s[n].parent].child
      prev == First(s, head, LAMBDA m : s[m].next = n)
  IN IF head = n THEN [s EXCEPT ![s[n].parent].child = s[n].next]
     ELSE [s EXCEPT ![prev].next = s[n].next]
\* uacpi_namespace_node_uninstall: denied to a node with a child.
Uninstalled(s, n) ==
  IF s[n].child # NoNode THEN s
  ELSE Unref([Unlinked(Detached(s, n), n) EXCEPT ![n].state = "dangling"], n)

Present == {n \in Nodes : ns[n].state = "in"}

----------------------------------------------------------------------------
(***************************************************************************)
(* uacpi_namespace_node_resolve: a path is where it starts and its         *)
(* segments.  A single relative segment may be looked up further and       *)
(* further above.                                                          *)
(***************************************************************************)
Path(from, segs) == [from |-> from, segs |-> segs]
Descend(s, p, segs) ==
  FoldLeft(LAMBDA n, name :
             IF n = NoNode THEN NoNode
             ELSE uacpi_namespace_node_find_sub_node(s, n, name), p, segs)
\* Mutant: the search stops at the first scope above.
ScopesOneUp(s, parent) == SelectSeq(<< s[parent].parent >>, LAMBDA p : p # NoNode)
Scopes(s, parent) == Above(s, parent)
Resolve(s, parent, path, above) ==
  LET from == CASE path.from = "root" -> Root [] path.from = "up" -> s[parent].parent
                [] OTHER -> parent
      found == IF from = NoNode THEN NoNode ELSE Descend(s, from, path.segs)
      hits == SelectSeq(Scopes(s, parent), LAMBDA p : Descend(s, p, path.segs) # NoNode)
  IN IF found = NoNode /\ above /\ path.from = "here" /\ Len(path.segs) = 1 /\ hits # <<>>
     THEN Descend(s, hits[1], path.segs) ELSE found

\* uacpi_namespace_node_generate_absolute_path: its segments, root first, and
\* the offset at which the first one starts after it was filled from its end:
\* one byte for the root, four for a segment, one for each dot between them.
Depth(s, n) == Len(Above(s, n))
AbsolutePath(s, n) ==
  LET up == <<n>> \o Above(s, n)
      depth == Len(up)
      bytes_needed == 1 + (depth - 1) * 4 + (IF depth > 2 THEN depth - 2 ELSE 0) + 1
      dots == Cardinality({k \in 1 .. depth - 1 : up[k + 1] # Root})
  IN [segs |-> [k \in 1 .. depth - 1 |-> s[up[depth - k]].name],
      offset |-> bytes_needed - 1 - 4 * (depth - 1) - dots]

----------------------------------------------------------------------------
(***************************************************************************)
(* Creation and reset.  uacpi_initialize_namespace ignores the result of   *)
(* an installation: a node that is still dangling is then left out.        *)
(***************************************************************************)
uacpi_initialize_namespace ==
  /\ uacpi_rw_lock_init
  /\ ns[Root].state = "unused"
  /\ LET made == [n \in DOMAIN ns |->
                    IF n \notin DOMAIN Predefined \cup {Root} THEN ns[n]
                    ELSE [ns[n] EXCEPT !.obj = TRUE, !.objrefs = 1, !.refs = 1,
                          !.name = IF n = Root THEN "none" ELSE Predefined[n],
                          !.state = IF n = Root THEN "in"
                                    ELSE IF @ = "dangling" THEN @ ELSE "made"]]
     IN ns' = FoldLeft(LAMBDA s, n : Installed(s, Root, n), made, SetToSeq(DOMAIN Predefined))
  /\ UNCHANGED <<call, it, frames, pending, kept, sleeps, roles>>

\* Whoever resets the system has seen to it that nobody is in a call.
StartReset(t) ==
  /\ live /\ "reset" \in roles[t]
  /\ \A u \in Threads : Out(u, "none")
  /\ \/ LockWrite(t)
     \/ HostError /\ UNCHANGED <<live, read_mutex, write_mutex, num_readers, pc, leaked>>
  /\ Becomes(t, "wipe")
  /\ it' = [it EXCEPT ![t] = [Start EXCEPT !.from = Root]]
  /\ UNCHANGED <<ns, frames, pending, kept, sleeps, roles>>

\* Mutant: the last child of a scope is not looked into.
LooksInsideButLast(n) == ns[n].child # NoNode /\ ns[n].next # NoNode
LooksInside(n) == ns[n].child # NoNode

\* One turn of the loop: `from' is the code's current, `node' its next.  The
\* lock is held unless the acquire failed, which does not stop the wipe.
Wipe(t) ==
  /\ call[t] = "wipe" /\ pc[t] \in {"writing", "idle"} /\ it[t].depth > 0
  /\ LET w == it[t]
         next == IF w.up THEN NoNode
                 ELSE IF w.node = NoNode THEN ns[w.from].child ELSE ns[w.node].next
         turns == w.turns + 1
     IN IF next = NoNode /\ ns[w.from].child # NoNode
        THEN \* `up': in the inner loop that wipes the children
             /\ ns' = Uninstalled(ns, ns[w.from].child)
             /\ it' = [it EXCEPT ![t].up = TRUE, ![t].node = NoNode, ![t].turns = turns]
        ELSE /\ it' = [it EXCEPT ![t] =
                         IF next = NoNode
                         THEN [w EXCEPT !.depth = w.depth - 1, !.node = w.from, !.turns = turns,
                                        !.from = ns[w.from].parent, !.up = FALSE]
                         ELSE IF LooksInside(next)
                         THEN [w EXCEPT !.depth = w.depth + 1, !.from = next, !.node = NoNode,
                                        !.turns = turns]
                         ELSE [w EXCEPT !.node = next, !.turns = turns]]
             /\ UNCHANGED ns
  /\ UNCHANGED <<lockvars, call, frames, pending, kept, sleeps, roles>>

WipeEnd(t) ==
  /\ call[t] = "wipe" /\ pc[t] \in {"writing", "idle"} /\ it[t].depth = 0
  /\ ns' = [Detached(ns, Root) EXCEPT ![Root] = Blank]
  /\ Becomes(t, "wiped")
  /\ IF pc[t] = "writing" THEN UnlockWrite(t) ELSE UNCHANGED lockvars
  /\ UNCHANGED <<it, frames, pending, kept, sleeps, roles>>

WipeDeinit(t) ==
  /\ Out(t, "wiped") /\ uacpi_rw_lock_deinit
  /\ Becomes(t, "none") /\ it' = [it EXCEPT ![t] = Start]
  /\ UNCHANGED <<ns, frames, pending, kept, sleeps, roles>>

----------------------------------------------------------------------------
(***************************************************************************)
(* AML.  The lock is held for writing from the evaluation's start to its   *)
(* end, except where AML sleeps or waits.  A frame remembers the temporary *)
(* nodes of its method; nodes of table-level code stay.                    *)
(***************************************************************************)
Frame(persist) == [persist |-> persist, temps |-> <<>>]
Top(t) == Last(frames[t])
Executes(t) == In(t, "aml") /\ frames[t] # <<>>

CallAml(t) ==
  /\ live /\ "aml" \in roles[t] /\ Out(t, "none")
  /\ LockWrite(t) /\ Becomes(t, "aml")
  /\ UNCHANGED <<ns, it, frames, pending, kept, sleeps, roles>>

EnterFrame(t, persist) ==
  /\ In(t, "aml") /\ pending[t] = NoNode
  /\ frames[t] # <<>> => persist /\ Len(frames[t]) = 1 /\ ~Top(t).persist
  /\ frames' = [frames EXCEPT ![t] = Append(@, Frame(persist))]
  /\ UNCHANGED <<lockvars, ns, call, it, pending, kept, sleeps, roles>>

\* resolve_name_string: AML gives the absolute path of an existing scope, in
\* which the last segment must not exist, and the node is made.
CreateName(t, n, p, name) ==
  /\ pending[t] = NoNode
  /\ ns[n].state = "unused" /\ n \notin DOMAIN Predefined
  /\ \A m \in Nodes \ DOMAIN Predefined : ns[m].state = "unused" => n <= m
  /\ Resolve(ns, Root, Path("root", AbsolutePath(ns, p).segs), FALSE) = p
  /\ uacpi_namespace_node_find_sub_node(ns, p, name) = NoNode
  /\ \E matches \in IF "types" \in roles[t] THEN BOOLEAN ELSE {TRUE} :
       ns' = [ns EXCEPT ![n] = [Blank EXCEPT !.state = "made", !.name = name, !.parent = p,
                                 !.temp = ~Top(t).persist, !.matches = matches, !.refs = 1]]
  /\ pending' = [pending EXCEPT ![t] = n]
  /\ UNCHANGED <<lockvars, call, it, frames, kept, sleeps, roles>>

\* The handler has attached the object; do_install_node_item.
InstallName(t) ==
  /\ Executes(t) /\ pending[t] # NoNode
  /\ LET n == pending[t]
         temps == Append(Top(t).temps, n)
     IN /\ ns' = Installed([ns EXCEPT ![n].obj = TRUE, ![n].objrefs = 1], ns[n].parent, n)
        /\ frames' = IF Top(t).persist THEN frames
                     ELSE [frames EXCEPT ![t] = Append(Front(@),
                             [Top(t) EXCEPT !.temps = temps])]
  /\ pending' = [pending EXCEPT ![t] = NoNode]
  /\ UNCHANGED <<lockvars, call, it, kept, sleeps, roles>>

\* A field, a handler or a reference refers to a node, and later no more.
Keep(t, n) ==
  /\ "keep" \in roles[t] /\ n \in Present \ kept
  /\ ns' = [ns EXCEPT ![n].refs = @ + 1] /\ kept' = kept \cup {n}
  /\ UNCHANGED <<lockvars, call, it, frames, pending, sleeps, roles>>

Forget(n) ==
  /\ n \in kept
  /\ ns' = Unref(ns, n) /\ kept' = kept \ {n}
  /\ UNCHANGED <<lockvars, call, it, frames, pending, sleeps, roles>>

\* AML names no scope that another invocation will remove: the parent of a
\* name whose object is still being evaluated stays while the lock is free.
Safe(t) ==
  pending[t] # NoNode =>
    LET p == ns[pending[t]].parent
    IN ns[p].temp => \E k \in DOMAIN frames[t] : p \in Range(frames[t][k].temps)

Sleep(t) ==
  /\ Executes(t) /\ "sleep" \in roles[t] /\ sleeps < MaxSleeps /\ Safe(t)
  /\ UnlockWrite(t) /\ Becomes(t, "asleep") /\ sleeps' = sleeps + 1
  /\ UNCHANGED <<ns, it, frames, pending, kept, roles>>

Wake(t) ==
  /\ Out(t, "asleep") /\ LockWrite(t) /\ Becomes(t, "aml")
  /\ UNCHANGED <<ns, it, frames, pending, kept, sleeps, roles>>

\* call_frame_clear uninstalls the temporary nodes, last one first.
\* Mutant: first one first.
ClearedFirstFirst(s, temps) == FoldLeft(LAMBDA r, n : Uninstalled(r, n), s, temps)
Cleared(s, temps) == FoldRight(LAMBDA n, r : Uninstalled(r, n), temps, s)

\* ctx_reload_post_ret.  An evaluation that was aborted gives its pending node
\* up.
Leave(t) ==
  /\ Executes(t)
  /\ ns' = Cleared(IF pending[t] = NoNode THEN ns ELSE Unref(ns, pending[t]), Top(t).temps)
  /\ pending' = [pending EXCEPT ![t] = NoNode]
  /\ frames' = [frames EXCEPT ![t] = Front(@)]
  /\ IF Len(frames[t]) = 1 THEN UnlockWrite(t) /\ Becomes(t, "none")
     ELSE UNCHANGED <<lockvars, call>>
  /\ UNCHANGED <<it, kept, sleeps, roles>>

----------------------------------------------------------------------------
(***************************************************************************)
(* uacpi_namespace_do_for_each_child, as the host calls it: permanent nodes*)
(* only, without the lock during a callback.                               *)
(***************************************************************************)
Mask(w, n) == ns[n].obj /\ (w.any \/ ns[n].matches)

\* A walk ends with an error where giving the lock up or taking it again
\* fails, which for the tree is the same as a callback that breaks it off.

\* What such a walk can reach, whatever its callbacks answer.
Barred(w, n) == ns[n].temp /\ Mask(w, n)
Reachable(w) ==
  {n \in Present :
     LET up == Above(ns, n)
         under == SelectInSeq(up, LAMBDA m : m = w.from)
     IN /\ Mask(w, n) /\ ~ns[n].temp /\ under \in 1 .. w.max
        /\ \A k \in 1 .. under - 1 : ~Barred(w, up[k])}

StartWalk(t) ==
  /\ live /\ "walk" \in roles[t] /\ Out(t, "none")
  /\ LockRead(t) /\ Becomes(t, "walk")
  /\ \E from \in {Root} \cup {n \in Present : ~ns[n].temp}, w \in Walks :
       it' = [it EXCEPT ![t] = [Start EXCEPT !.from = from, !.max = w.max,
                                             !.cbs = w.cbs, !.any = w.any]]
  /\ UNCHANGED <<ns, frames, pending, kept, sleeps, roles>>

WalkBegin(t) ==
  /\ In(t, "walk") /\ it[t].node = NoNode
  /\ LET w == it[t]
     IN it' = [it EXCEPT ![t].node = ns[w.from].child, ![t].there = Reachable(w),
                         ![t].depth = IF ns[w.from].child = NoNode THEN 0 ELSE 1]
  /\ UNCHANGED <<lockvars, ns, call, frames, pending, kept, sleeps, roles>>

Way(w) == IF w.up THEN "up" ELSE "down"

\* The callback is called with the lock given up.
\* Mutant: temporary nodes are passed to it as well.
WalkCallsAny(t) ==
  /\ In(t, "walk") /\ it[t].node # NoNode /\ it[t].depth > 0 /\ it[t].decision = "none"
  /\ LET w == it[t]
     IN /\ Mask(w, w.node) /\ Way(w) \in w.cbs
        /\ it' = [it EXCEPT ![t].visits = Append(@, <<Way(w), w.node>>)]
  /\ UnlockRead(t) /\ Becomes(t, "callback")
  /\ UNCHANGED <<ns, frames, pending, kept, sleeps, roles>>
WalkCalls(t) ==
  /\ In(t, "walk") /\ it[t].node # NoNode /\ it[t].depth > 0 /\ it[t].decision = "none"
  /\ LET w == it[t]
     IN /\ Mask(w, w.node) /\ ~ns[w.node].temp /\ Way(w) \in w.cbs
        /\ it' = [it EXCEPT ![t].visits = Append(@, <<Way(w), w.node>>)]
  /\ UnlockRead(t) /\ Becomes(t, "callback")
  /\ UNCHANGED <<ns, frames, pending, kept, sleeps, roles>>

CallbackReturns(t, decision) ==
  /\ Out(t, "callback")
  /\ IF decision = "break"
     THEN UNCHANGED lockvars /\ Becomes(t, "none") /\ it' = [it EXCEPT ![t] = Start]
     ELSE /\ LockRead(t) /\ Becomes(t, "walk")
          /\ it' = [it EXCEPT ![t].decision = decision,
                      ![t].skipped = IF decision = "next_peer" /\ ~it[t].up
                                     THEN @ \cup {it[t].node} ELSE @]
  /\ UNCHANGED <<ns, frames, pending, kept, sleeps, roles>>

\* do_next: where the walk goes from its node.
\* Mutant: the way up forgets that the parent's peers come next.
NextStepKeepsUp(w, decision) ==
  CASE w.up /\ ns[w.node].next # NoNode -> [w EXCEPT !.node = ns[w.node].next, !.decision = "none"]
    [] w.up -> [w EXCEPT !.node = ns[w.node].parent, !.depth = @ - 1, !.decision = "none"]
    [] decision = "continue" /\ w.depth # w.max /\ ns[w.node].child # NoNode ->
         [w EXCEPT !.node = ns[w.node].child, !.depth = @ + 1, !.decision = "none"]
    [] OTHER -> [w EXCEPT !.up = TRUE, !.decision = "none"]
NextStep(w, decision) ==
  CASE w.up /\ ns[w.node].next # NoNode ->
         [w EXCEPT !.node = ns[w.node].next, !.up = FALSE, !.decision = "none"]
    [] w.up -> [w EXCEPT !.node = ns[w.node].parent, !.depth = @ - 1, !.decision = "none"]
    [] decision = "continue" /\ w.depth # w.max /\ ns[w.node].child # NoNode ->
         [w EXCEPT !.node = ns[w.node].child, !.depth = @ + 1, !.decision = "none"]
    [] OTHER -> [w EXCEPT !.up = TRUE, !.decision = "none"]

WalkMoves(t) ==
  /\ In(t, "walk") /\ it[t].node # NoNode /\ it[t].depth > 0
  /\ LET w == it[t]
         barred == ns[w.node].temp /\ Mask(w, w.node)
     IN /\ w.decision = "none" => ~Mask(w, w.node) \/ barred \/ Way(w) \notin w.cbs
        /\ it' = [it EXCEPT ![t] =
                    NextStep(w, IF w.decision # "none" THEN w.decision
                                ELSE IF barred THEN "next_peer" ELSE "continue")]
  /\ UNCHANGED <<lockvars, ns, call, frames, pending, kept, sleeps, roles>>

WalkEnds(t) ==
  /\ In(t, "walk") /\ it[t].depth = 0
  /\ UnlockRead(t) /\ Becomes(t, "walked")
  /\ UNCHANGED <<ns, it, frames, pending, kept, sleeps, roles>>

----------------------------------------------------------------------------
(***************************************************************************)
(* uacpi_namespace_node_next_typed, called until there is no further node, *)
(* with anything happening between two calls.                              *)
(***************************************************************************)
StartNext(t) ==
  /\ live /\ "next" \in roles[t] /\ Out(t, "none")
  /\ LockRead(t) /\ Becomes(t, "next")
  /\ \E from \in {Root} \cup {n \in Present : ~ns[n].temp}, any \in {w.any : w \in Walks} :
       it' = [it EXCEPT ![t] = [Start EXCEPT !.from = from, !.any = any, !.cbs = {"down"}]]
  /\ UNCHANGED <<ns, frames, pending, kept, sleeps, roles>>

uacpi_namespace_node_next_typed(t) ==
  /\ In(t, "next")
  /\ LET w == it[t]
         after == IF w.node = NoNode THEN ns[w.from].child ELSE ns[w.node].next
         n == First(ns, after, LAMBDA m : ~ns[m].temp /\ Mask(w, m))
     IN /\ it' = [it EXCEPT ![t].node = IF n = NoNode THEN @ ELSE n,
                            ![t].visits = IF n = NoNode THEN @ ELSE Append(@, <<"down", n>>),
                            ![t].there = IF w.node = NoNode THEN Reachable(w) ELSE @]
        /\ Becomes(t, IF n = NoNode THEN "walked" ELSE "between")
  /\ UnlockRead(t)
  /\ UNCHANGED <<ns, frames, pending, kept, sleeps, roles>>

NextAgain(t) ==
  /\ Out(t, "between") /\ LockRead(t) /\ Becomes(t, "next")
  /\ UNCHANGED <<ns, it, frames, pending, kept, sleeps, roles>>

----------------------------------------------------------------------------
(***************************************************************************)
(* uacpi_namespace_node_find and uacpi_namespace_node_resolve_from_        *)
(* aml_namepath, then the object of what was found is acquired, and        *)
(* released when the host is done with it, without the lock.               *)
(***************************************************************************)
StartFind(t) ==
  /\ live /\ "find" \in roles[t] /\ Out(t, "none")
  /\ LockRead(t) /\ Becomes(t, "find")
  /\ \E from \in {Root} \cup {n \in Present : ~ns[n].temp} :
       it' = [it EXCEPT ![t] = [Start EXCEPT !.from = from]]
  /\ UNCHANGED <<ns, frames, pending, kept, sleeps, roles>>

\* The last check of uacpi_namespace_node_resolve.
PermanentOnly(n) == n # NoNode /\ ~ns[n].temp

Find(t, path, above) ==
  /\ LET n == Resolve(ns, it[t].from, path, above)
     IN IF PermanentOnly(n)
        THEN it' = [it EXCEPT ![t].node = n] /\ Becomes(t, "found")
        ELSE UNCHANGED it /\ Becomes(t, "walked")
  /\ UnlockRead(t)
  /\ UNCHANGED <<ns, frames, pending, kept, sleeps, roles>>

CallAcquire(t) ==
  /\ Out(t, "found") /\ LockRead(t) /\ Becomes(t, "acquire")
  /\ UNCHANGED <<ns, it, frames, pending, kept, sleeps, roles>>

uacpi_namespace_node_acquire_object_typed(t, any) ==
  /\ In(t, "acquire")
  /\ LET n == it[t].node
     IN IF Mask([any |-> any], n)
        THEN ns' = [ns EXCEPT ![n].objrefs = @ + 1] /\ Becomes(t, "owner")
        ELSE UNCHANGED ns /\ Becomes(t, "walked")
  /\ UnlockRead(t)
  /\ UNCHANGED <<it, frames, pending, kept, sleeps, roles>>

uacpi_namespace_node_release_object(t) ==
  /\ Out(t, "owner")
  /\ ns' = [ns EXCEPT ![it[t].node].objrefs = @ - 1]
  /\ Becomes(t, "none") /\ it' = [it EXCEPT ![t] = Start]
  /\ UNCHANGED <<lockvars, frames, pending, kept, sleeps, roles>>

\* The call has returned.
Returned(t) ==
  /\ Out(t, "walked") /\ Becomes(t, "none") /\ it' = [it EXCEPT ![t] = Start]
  /\ UNCHANGED <<lockvars, ns, frames, pending, kept, sleeps, roles>>

----------------------------------------------------------------------------
\* A section of the lock in which nothing is done to the tree.
Section(t) ==
  /\ "section" \in roles[t] /\ Out(t, "none")
  /\ (CallLockRead(t) \/ CallLockWrite(t))
  /\ Becomes(t, "section")
  /\ UNCHANGED <<ns, it, frames, pending, kept, sleeps, roles>>
SectionEnds(t) ==
  /\ In(t, "section") /\ (CallUnlockRead(t) \/ UnlockWrite(t))
  /\ Becomes(t, "walked")
  /\ UNCHANGED <<ns, it, frames, pending, kept, sleeps, roles>>

\* The steps inside the functions of the lock, and the host's failures.
LockStep(t) ==
  /\ call[t] \in {"section", "walked"}
  /\ \/ LockReadEnter(t) \/ LockReadCount(t) \/ LockReadFirst(t) \/ LockReadExit(t)
     \/ UnlockReadEnter(t) \/ UnlockReadCount(t) \/ UnlockReadExit(t)
     \/ LockWriteEnter(t)
  /\ UNCHANGED nsvars
LockFails(t) ==
  /\ call[t] \in {"section", "walked"}
  /\ Fail(t) /\ Becomes(t, "walked")
  /\ UNCHANGED <<ns, it, frames, pending, kept, sleeps, roles>>

AmlStep(t) ==
  \/ \E persist \in BOOLEAN : EnterFrame(t, persist)
  \/ /\ Executes(t)
     /\ \/ \E n \in Nodes, p \in Present \cup {Root}, name \in Names :
             CreateName(t, n, p, name)
        \/ \E n \in Nodes : Keep(t, n)
  \/ InstallName(t)
  \/ Sleep(t) \/ Wake(t) \/ Leave(t)
HostStep(t) ==
  \/ WalkBegin(t) \/ WalkCalls(t) \/ WalkMoves(t) \/ WalkEnds(t)
  \/ \E d \in {"continue", "next_peer", "break"} : CallbackReturns(t, d)
  \/ uacpi_namespace_node_next_typed(t) \/ NextAgain(t)
  \/ /\ In(t, "find")
     /\ \E from \in {"root", "up", "here"}, a, b \in Names, above \in BOOLEAN :
          Find(t, Path(from, <<a>>), above) \/ Find(t, Path(from, <<a, b>>), above)
  \/ CallAcquire(t) \/ uacpi_namespace_node_release_object(t)
  \/ \E any \in BOOLEAN : uacpi_namespace_node_acquire_object_typed(t, any)
  \/ Returned(t) \/ SectionEnds(t)
WipeStep(t) == Wipe(t) \/ WipeEnd(t) \/ WipeDeinit(t)

\* While a reset is under way nobody else calls.
Resetting == \E t \in Threads : call[t] \in {"wipe", "wiped"}
Calls(t) == CallAml(t) \/ StartWalk(t) \/ StartNext(t) \/ StartFind(t) \/ Section(t)

NsNext ==
  \/ uacpi_initialize_namespace
  \/ \E n \in Nodes : Forget(n)
  \/ \E t \in Threads :
       \/ ~Resetting /\ (Calls(t) \/ StartReset(t))
       \/ AmlStep(t) \/ HostStep(t) \/ WipeStep(t)
       \/ LockStep(t) \/ LockFails(t)

NsSpec == NsInit /\ [][NsNext]_all

----------------------------------------------------------------------------
\* Safety: what a thread of the host has a bare pointer to, or AML creates a
\* name in, is part of the tree, whatever was removed while the lock was free;
\* the wipe reads no node that it has removed itself.
PointersLive ==
  /\ \A t \in Threads :
       call[t] # "none" => {it[t].node, it[t].from} \subseteq Present \cup {Root, NoNode}
  /\ \A t \in Threads :
       pending[t] # NoNode => ns[pending[t]].parent \in Present \cup {Root}

\* Safety: an iteration that comes to its end has called back exactly once on
\* the way down, and once on the way up, for every node that was there when it
\* began, but for those it was told to skip; and nodes inside nodes.
Index(s, x) == SelectInSeq(s, LAMBDA e : e = x)
IterationsComplete ==
  \A t \in Threads :
    LET w == it[t]
        at(way, n) == Index(w.visits, <<way, n>>)
    IN call[t] \in {"callback", "between", "walked"} =>
       /\ IsInjective(w.visits)
       /\ call[t] = "walked" => \A n \in w.there :
            Range(Above(ns, n)) \cap w.skipped = {} =>
              /\ \A way \in w.cbs : at(way, n) # 0
              /\ "up" \in w.cbs => \A m \in Range(Above(ns, n)) : at("up", m) # 0 =>
                   at("down", m) < at("down", n) /\ at("up", n) < at("up", m)

\* Safety: the lists contain every node of the tree once, below its parent, and
\* a node and its object live exactly as long as somebody refers to them.
TreeSound ==
  \A n \in Nodes :
    /\ ns[n].state = "in" =>
         Cardinality({i \in 0 .. Cardinality(Nodes) :
                        Chain(ns, ns[ns[n].parent].child)[i] = n}) = 1
    /\ ns[n].state # "in" =>
         \A p \in Present \cup {Root} : ns[p].child # n /\ ns[p].next # n
    /\ ns[n].refs = (IF ns[n].state \in {"in", "made"} THEN 1 ELSE 0)
                    + (IF n \in kept THEN 1 ELSE 0)
    /\ ns[n].objrefs = (IF ns[n].obj THEN 1 ELSE 0)
         + Cardinality({t \in Threads : call[t] = "owner" /\ it[t].node = n})

\* Safety: when a method ends, a temporary node of its own stays if and only if
\* somewhere below it is a node that is not: one that another invocation has
\* put there, or table-level code that it ran.
Foreign(s, temps, n) == \E m \in Nodes \ temps : s[m].state = "in" /\ n \in Range(Above(s, m))
FrameLeavesNothing ==
  [][\A t \in Threads : Len(frames'[t]) < Len(frames[t]) =>
       LET temps == Range(Top(t).temps)
       IN \A n \in temps : ns'[n].state = "in" <=> Foreign(ns', temps, n)]_all

\* The path that is printed of a node fills its buffer exactly, and
\* leads back to it, unless an older node has the same path; a name that any
\* scope above has is found in the nearest of them.
PathsResolve ==
  \A n \in Present :
    LET p == AbsolutePath(ns, n)
        back == Resolve(ns, Root, Path("root", p.segs), FALSE)
        scopes == << n >> \o Above(ns, n)
    IN /\ p.offset = 1
       /\ back # NoNode /\ AbsolutePath(ns, back) = p
       /\ \A name \in Names :
            LET has == {k \in DOMAIN scopes :
                          \E m \in Present : ns[m].parent = scopes[k] /\ ns[m].name = name}
                got == Resolve(ns, n, Path("here", <<name>>), TRUE)
            IN IF has = {} THEN got = NoNode
               ELSE got # NoNode /\ ns[got].parent = scopes[Min(has)]

\* Safety: at every moment the tree is one tree whose counts agree with its
\* users, and every name in it can be found where it is
\* (uacpi_namespace_node_install, _uninstall and _resolve).
LookupsSound == TreeSound /\ PathsResolve

\* Safety: a reset gets through the tree whatever its shape, in a few turns of
\* its loops for each node, and leaves none of it and no object, but that of a
\* predefined node which, still referred to since an earlier reset, was not
\* installed again: uacpi_initialize_namespace makes its object all the same.
WipeEnds ==
  \A t \in Threads :
    /\ call[t] = "wipe" => it[t].turns <= 4 * Cardinality(Nodes) + 2
    /\ call[t] = "wiped" =>
         \A n \in DOMAIN ns :
           /\ ns[n].state \in {"unused", "dangling", "freed"}
           /\ ns[n].obj => n \in DOMAIN Predefined /\ ns[n].state = "dangling"
============================================================================
