---------------------------- MODULE Interpreter ----------------------------
(***************************************************************************)
(* uacpi_execute_control_method: call frames, code blocks, pending ops,    *)
(* AML mutexes and temporary nodes, as the programs of Opcodes drive them. *)
(* A step is one parse op; all steps of a thread happen under the          *)
(* namespace write lock, which it drops to wait for a mutex or to sleep.   *)
(*                                                                         *)
(* AML is a sequence of one-byte tokens [op, x]: an opcode and what its    *)
(* byte encodes (the number of a local, a name), or an operand ("pkg" with *)
(* the end of the package, "imm").  Integers are the only data; a local, an *)
(* argument or a node is reached through a reference to where it lives.    *)
(***************************************************************************)
EXTENDS Opcodes, SequencesExt

CONSTANTS Threads, NoThread,
          Ones,                \* ones(): the largest integer
          max_call_stack_depth,
          loop_timeout         \* in readings of the clock

VARIABLES prog,    \* name -> method or mutex: the part of the namespace
                   \* that the tables made and nothing here changes
          ex,      \* thread -> its execution_context
          mtx,     \* mutex, serialized method -> [owner, depth]
          nodes,   \* the children that code running now has installed, in order
          nsLock,  \* the holder of the namespace write lock
          now      \* the clock

ivars == <<prog, ex, mtx, nodes, nsLock, now>>

Uninit == -2        \* the value of an object that has none
Size(m) == Len(prog[m].code)
Level(m) == prog[m].sync_level
NewFrame(m, args) ==
  [method |-> m, code_offset |-> 0, args |-> args,
   locals |-> [k \in 0..7 |-> Uninit], ops |-> <<>>,
   blocks |-> << [type |-> "SCOPE", begin |-> 0, end |-> Size(m), exp |-> 0] >>,
   slots |-> [k \in 1..8 |-> 0], temp |-> <<>>, prev_while_code_offset |-> 0,
   prev_while_expiration |-> 0, prev_sync_level |-> 0]
NewOp(op, x) ==
  [op |-> op, x |-> x, pc |-> 0, items |-> <<>>, tracked |-> 0, from |-> "none",
   preempted |-> FALSE]
Idle == [at |-> "idle", stack |-> <<>>, held |-> <<>>, sync |-> 0, ret |-> Uninit,
         status |-> "OK", idx |-> 0, wait |-> "none", got |-> FALSE, callee |-> "none"]
\* An item: a number, or what it refers to.
Val(kind, v) == [kind |-> kind, v |-> v, r |-> <<>>]
Num(v) == Val("obj", v)
Ref(kind, r) == [kind |-> kind, v |-> 0, r |-> r]

\* calls: which method each thread is about to evaluate, if any.
InterpreterInit(programs, calls) ==
  /\ prog \in programs
  /\ \E call \in calls :
       ex = [t \in Threads |-> [Idle EXCEPT !.callee = call[t],
                                !.at = IF call[t] = "none" THEN "done" ELSE @]]
  /\ mtx = [m \in DOMAIN prog |-> [owner |-> NoThread, depth |-> 0]]
  /\ nodes = <<>> /\ nsLock = NoThread /\ now = 0

----------------------------------------------------------------------------
\* The current frame, op and block of a thread that runs.
F(t) == Last(ex[t].stack)
C(t) == Last(F(t).ops)
Ins(t) == Decode[C(t).op][C(t).pc]
Arg(t, k) == C(t).items[k + 1]
Top(t) == Last(C(t).items)
PrevOp(t) ==
  IF Len(F(t).ops) < 2 THEN "none"
  ELSE LET p == F(t).ops[Len(F(t).ops) - 1] IN Decode[p.op][p.pc][1]
Missing(item) == item.kind \in {"null", "empty"}
Active(t) == F(t).ops # <<>> /\ ~C(t).preempted
Running(t) == ex[t].at = "run" /\ nsLock = t /\ ex[t].stack # <<>>
Typechecked(t) == C(t).pc = 0 /\ PrevOp(t) # "none" => C(t).op \in op_typecheck(PrevOp(t))
Doing(t, names) == Ins(t)[1] \in names
Handling(t, ops) == Doing(t, {"INVOKE_HANDLER"}) /\ C(t).op \in ops

SetThread(t, e) == ex' = [ex EXCEPT ![t] = e]
FrameIn(t, f) == [ex[t] EXCEPT !.stack = Append(Front(@), f)]
SetFrame(t, f) == SetThread(t, FrameIn(t, f))
OpIn(f, c) == [f EXCEPT !.ops = Append(Front(@), c)]
SetOp(t, c) == SetFrame(t, OpIn(F(t), c))
Resume(c) == [c EXCEPT !.pc = @ + Width(Decode[c.op][c.pc])]
Items(t, items) == SetOp(t, [Resume(C(t)) EXCEPT !.items = items])
Step(t, item) == Items(t, Append(C(t).items, item))
Proceed(t) == Items(t, C(t).items)
\* handle_method_abort.
Abort(t, status) == SetThread(t, [ex[t] EXCEPT !.at = "unwind", !.idx = 0, !.status = status])
Quiet == UNCHANGED <<prog, mtx, nodes, nsLock, now>>

----------------------------------------------------------------------------
\* peek_next_op, get_op and push_op.
Peek(f, off) ==
  IF off = Last(f.blocks).end THEN [op |-> "none", x |-> 0]
  ELSE prog[f.method].code[off + 1]
GetOp(t) ==
  /\ LET f == F(t)
         token == Peek(f, f.code_offset)
     IN /\ f.blocks # <<>> => f.code_offset # Last(f.blocks).end
        /\ f.code_offset < Size(f.method)
        /\ IF token.op \in Ops \ ReservedOps
           THEN SetFrame(t, [f EXCEPT !.code_offset = @ + 1,
                                      !.ops = Append(@, NewOp(token.op, token.x))])
           ELSE Abort(t, "AML_INVALID_OPCODE")
  /\ Quiet

TypecheckFails(t) ==
  /\ ~Typechecked(t)
  /\ Abort(t, "AML_INCOMPATIBLE_OBJECT_TYPE") /\ Quiet

\* frame_reset_post_end_block.
PopBlock(f) ==
  LET b == Last(f.blocks)
  IN [f EXCEPT !.blocks = Front(@),
               !.prev_while_code_offset = IF b.type = "WHILE" THEN b.begin + 1 ELSE @,
               !.prev_while_expiration = IF b.type = "WHILE" THEN b.exp ELSE @]

\* Mutant: a While falls out of its block at the end, as an If does.
WhileEndsOnce(t) ==
  /\ LET f == F(t)
     IN /\ f.blocks # <<>> /\ f.code_offset = Last(f.blocks).end
        /\ SetFrame(t, PopBlock(f))
  /\ Quiet
maybe_end_block(t) ==
  /\ LET f == F(t)
         b == Last(f.blocks)
     IN /\ f.blocks # <<>> /\ f.code_offset = b.end
        /\ SetFrame(t, PopBlock([f EXCEPT !.code_offset =
                                   IF b.type = "WHILE" THEN b.begin ELSE @]))
  /\ Quiet

\* held_mutexes_array_remove_and_release: the array, the mutexes, and whether
\* it was successful.
Release(held, m, force) ==
  LET last == SelectLastInSeq(held, LAMBDA h : h = m)
      same == [ok |-> TRUE, held |-> held, mtx |-> mtx]
  IN CASE held = <<>> -> [same EXCEPT !.ok = FALSE]
       [] held # <<>> /\ ~force /\ Level(Last(held)) # Level(m) -> same
       [] held # <<>> /\ ~force /\ Level(Last(held)) = Level(m) /\ mtx[m].depth > 1 ->
            [same EXCEPT !.mtx[m].depth = @ - 1]
       [] OTHER -> IF last = 0 THEN [same EXCEPT !.ok = FALSE]
                   ELSE [ok |-> TRUE, held |-> RemoveAt(held, last),
                         mtx |-> [mtx EXCEPT ![m] = [owner |-> NoThread, depth |-> 0]]]

\* ctx_reload_post_ret and call_frame_clear; e is the context to go on with.
\* Mutant: the temporary nodes of the frame stay in the namespace.
PostRetKeepsNodes(t, e) ==
  LET f == F(t)
      released == Release(e.held, f.method, TRUE)
      rest == [e EXCEPT !.stack = Front(@)]
  IN /\ IF prog[f.method].is_serialized
        THEN /\ mtx' = released.mtx
             /\ SetThread(t, [rest EXCEPT !.held = released.held,
                                          !.sync = f.prev_sync_level])
        ELSE mtx' = mtx /\ SetThread(t, rest)
     /\ nodes' = nodes
ctx_reload_post_ret(t, e) ==
  LET f == F(t)
      released == Release(e.held, f.method, TRUE)
      rest == [e EXCEPT !.stack = Front(@)]
  IN /\ IF prog[f.method].is_serialized
        THEN /\ mtx' = released.mtx
             /\ SetThread(t, [rest EXCEPT !.held = released.held,
                                          !.sync = f.prev_sync_level])
        ELSE mtx' = mtx /\ SetThread(t, rest)
     /\ nodes' = SelectSeq(nodes, LAMBDA n : n.key \notin Range(f.temp))

MethodEnds(t) ==
  /\ LET f == F(t)
     IN /\ f.blocks # <<>> => f.code_offset # Last(f.blocks).end
        /\ f.code_offset >= Size(f.method)
  /\ ctx_reload_post_ret(t, ex[t])
  /\ UNCHANGED <<prog, nsLock, now>>

\* stack_unwind, frame by frame: an aborted table ends there, a method that
\* table-level code has called takes nothing with it but its callees.
stack_unwind(t) ==
  /\ ex[t].at = "unwind" /\ nsLock = t
  /\ IF ex[t].stack = <<>>
     THEN SetThread(t, [ex[t] EXCEPT !.at = "run"]) /\ UNCHANGED <<mtx, nodes>>
     ELSE LET table == prog[F(t).method].named_objects_persist
              e == ex[t]
          IN IF table /\ e.idx # 0
             THEN /\ LET ret == IF Top(t).v = Uninit THEN Top(t) ELSE Num(0)
                         c == [C(t) EXCEPT !.items = Append(Front(@), ret)]
                     IN SetThread(t, [FrameIn(t, OpIn(F(t), c))
                                      EXCEPT !.at = "run", !.status = "OK"])
                  /\ UNCHANGED <<mtx, nodes>>
             ELSE ctx_reload_post_ret(t, [e EXCEPT !.idx = @ + 1,
                                            !.at = IF table THEN "run" ELSE @])
  /\ UNCHANGED <<prog, nsLock, now>>

\* The end of uacpi_execute_control_method: execution_context_release lets go
\* of every mutex, and the caller unlocks the namespace.
Finish(t) ==
  /\ ex[t].at = "run" /\ nsLock = t /\ ex[t].stack = <<>>
  /\ mtx' = [m \in DOMAIN mtx |->
               IF m \in Range(ex[t].held) THEN [owner |-> NoThread, depth |-> 0]
               ELSE mtx[m]]
  /\ SetThread(t, [ex[t] EXCEPT !.at = "done", !.held = <<>>])
  /\ nsLock' = NoThread
  /\ UNCHANGED <<prog, nodes, now>>

----------------------------------------------------------------------------
\* exec_op: the parse ops that only move items around.
EndOp(t) ==
  /\ Doing(t, {"END", "SKIP_WITH_WARN_IF_NULL"})
  /\ IF Ins(t)[1] = "SKIP_WITH_WARN_IF_NULL" /\ ~Missing(Arg(t, Ins(t)[2]))
     THEN Proceed(t)
     ELSE LET c == C(t)
              f == [F(t) EXCEPT !.ops = Front(@),
                                !.code_offset = IF c.tracked = 0 THEN @
                                                ELSE c.items[c.tracked].r[3]]
          IN SetFrame(t, IF f.ops = <<>> THEN f
                         ELSE OpIn(f, [Resume(Last(f.ops)) EXCEPT !.preempted = FALSE]))
  /\ Quiet

Preempt(t) ==
  /\ Doing(t, Arguments)
  /\ SetOp(t, [C(t) EXCEPT !.preempted = TRUE, !.items = Append(@, Val("empty", 0))])
  /\ Quiet

\* parse_package_length, over a token that holds the end of the package.
Pkg(t) ==
  /\ Doing(t, {"TRACKED_PKGLEN", "PKGLEN"})
  /\ LET f == F(t)
         c == Resume(C(t))
         token == prog[f.method].code[f.code_offset + 1]
     IN IF f.code_offset < Size(f.method) /\ token.op = "pkg"
        THEN SetFrame(t, [OpIn(f, [c EXCEPT
                            !.items = Append(@, Ref("pkg", <<"pkg", f.code_offset, token.x>>)),
                            !.tracked = IF Ins(t)[1] = "PKGLEN" THEN @
                                        ELSE Len(c.items) + 1])
                          EXCEPT !.code_offset = @ + 1])
        ELSE Abort(t, "AML_BAD_ENCODING")
  /\ Quiet

Literal(t) ==
  LET next == prog[F(t).method].code[F(t).code_offset + 1]
      read(kind) == SetFrame(t, [OpIn(F(t), [Resume(C(t)) EXCEPT
                                   !.items = Append(@, Val(kind, next.x))])
                                 EXCEPT !.code_offset = @ + 1])
  IN /\ \/ /\ Doing(t, {"LOAD_INLINE_IMM"}) /\ Step(t, Val("imm", Ins(t)[3]))
        \/ /\ Doing(t, {"LOAD_INLINE_IMM_AS_OBJECT"})
           /\ Step(t, Num(Ins(t)[2]))
        \/ /\ Doing(t, {"LOAD_TRUE_OBJECT"}) /\ Step(t, Num(Ones))
        \/ /\ Doing(t, {"LOAD_IMM"}) /\ read("imm")
        \/ /\ Doing(t, {"LOAD_IMM_AS_OBJECT"}) /\ read("obj")
     /\ Quiet

ObjectsOp(t) ==
  /\ \/ /\ Doing(t, {"OBJECT_ALLOC", "OBJECT_ALLOC_TYPED"}) /\ Step(t, Num(Uninit))
     \/ /\ Doing(t, {"EMPTY_OBJECT_ALLOC"}) /\ Step(t, Val("empty", 0))
     \/ /\ Doing(t, {"OBJECT_CONVERT_TO_SHALLOW_COPY", "OBJECT_CONVERT_TO_DEEP_COPY",
                  "EMIT_SKIP_WARN"})
        /\ Proceed(t)
     \/ /\ Doing(t, {"ITEM_POP"}) /\ Items(t, Front(C(t).items))
     \/ /\ Doing(t, {"IMM_DECREMENT"})
        /\ Items(t, [C(t).items EXCEPT ![Ins(t)[2] + 1].v = @ - 1])
     \/ /\ Doing(t, {"TRUNCATE_NUMBER"})
        /\ Items(t, [C(t).items EXCEPT ![Len(C(t).items)].v = @ % (Ones + 1)])
  /\ Quiet

Branch(t) ==
  LET skip(cond, n) == SetOp(t, [Resume(C(t)) EXCEPT !.pc = @ + (IF cond THEN n ELSE 0)])
  IN /\ \/ /\ Doing(t, {"IF_NOT_NULL"}) /\ skip(Arg(t, Ins(t)[2]).v = 0, Ins(t)[3])
        \/ /\ Doing(t, {"IF_LAST_NULL"}) /\ skip(~Missing(Top(t)), Ins(t)[2])
        \/ /\ Doing(t, {"IF_LAST_FALSE"}) /\ skip(Top(t).v # 0, Ins(t)[2])
        \/ /\ Doing(t, {"IF_LAST_TRUE"}) /\ skip(Top(t).v = 0, Ins(t)[2])
        \/ /\ Doing(t, {"IF_SWITCHED_FROM"}) /\ skip(C(t).from # Ins(t)[2], Ins(t)[3])
        \/ /\ Doing(t, {"JMP"}) /\ SetOp(t, [C(t) EXCEPT !.pc = Ins(t)[2]])
     /\ Quiet

\* SWITCH_TO_NEXT_IF_EQUALS: is there an Else behind the block of this If?
SwitchToNext(t) ==
  /\ Doing(t, {"SWITCH_TO_NEXT_IF_EQUALS"})
  /\ LET c == C(t)
         behind == c.items[c.tracked].r[3]
     IN IF Peek(F(t), behind).op = Ins(t)[2]
        THEN SetFrame(t, [OpIn(F(t), [c EXCEPT !.op = Ins(t)[2], !.pc = 0, !.from = c.op])
                          EXCEPT !.code_offset = behind + 1])
        ELSE Proceed(t)
  /\ Quiet

----------------------------------------------------------------------------
\* resolve_name_string, for a single name segment: the scope itself, then the
\* root.  The nodes of a method live below its own node.
Scope(f) == IF prog[f.method].named_objects_persist THEN "root" ELSE f.method
Found(f, name) ==
  LET at(scope) == SelectInSeq(nodes, LAMBDA n : n.key[1] = scope /\ n.key[2] = name)
  IN CASE at(Scope(f)) # 0 -> nodes[at(Scope(f))].key
       [] at(Scope(f)) = 0 /\ at("root") # 0 -> nodes[at("root")].key
       [] OTHER -> IF name \in DOMAIN prog THEN <<"static", name>> ELSE <<>>

\* The node that CREATE_NAMESTRING allocates is not installed yet.  When the
\* name is taken, a method goes on to set a flag of a node that is NULL.
CreateName(t) ==
  /\ Doing(t, {"CREATE_NAMESTRING_OR_NULL_IF_LOAD"})
  /\ LET f == F(t)
         name == prog[f.method].code[f.code_offset + 1].x
         taken == \/ \E k \in DOMAIN nodes : /\ nodes[k].key[1] = Scope(f)
                                             /\ nodes[k].key[2] = name
                  \/ Scope(f) = "root" /\ name \in DOMAIN prog
         key == <<Scope(f), name, t, Len(ex[t].stack)>>
         step(item) == SetFrame(t, [OpIn(f, [Resume(C(t)) EXCEPT
                                      !.items = Append(@, item)])
                                 EXCEPT !.code_offset = @ + 1])
     IN CASE ~taken -> step(Ref("node", key))
          [] taken /\ prog[f.method].named_objects_persist -> step(Ref("null", <<>>))
          [] OTHER -> SetThread(t, [ex[t] EXCEPT !.at = "fault"])
  /\ Quiet

\* abort_whileif: an If or a While of table-level code whose predicate names
\* nothing goes on without a predicate.
AbortsHeader(f) ==
  prog[f.method].named_objects_persist /\ f.ops[1].op \in {"WhileOp", "IfOp"}
HeaderAborted(f) ==
  [f EXCEPT !.ops = << [@[1] EXCEPT !.pc = @ + 1, !.preempted = FALSE] >>,
            !.code_offset = @ + 1]

\* UnresolvedNameString: the name is read again, and becomes a call, or the
\* object it names.
ConvertName(t) ==
  /\ \/ /\ Doing(t, {"AML_PC_DECREMENT"})
        /\ SetFrame(t, [OpIn(F(t), Resume(C(t))) EXCEPT !.code_offset = @ - 1])
     \/ /\ Doing(t, {"EXISTING_NAMESTRING_OR_NULL"})
        /\ LET key == Found(F(t), C(t).x)
           IN IF key # <<>> \/ op_allows_unresolved(PrevOp(t))
              THEN SetFrame(t, [OpIn(F(t), [Resume(C(t)) EXCEPT
                                              !.items = <<Ref(IF key = <<>> THEN "null" ELSE "node", key)>>])
                                EXCEPT !.code_offset = @ + 1])
              ELSE IF AbortsHeader(F(t)) THEN SetFrame(t, HeaderAborted(F(t)))
              ELSE Abort(t, "AML_UNDEFINED_REFERENCE")
     \/ /\ Doing(t, {"CONVERT_NAMESTRING"})
        /\ LET key == Top(t).r
               invoked == /\ key[1] = "static" /\ prog[key[2]].type = "METHOD"
                          /\ ~op_wants_supername(PrevOp(t))
           IN SetOp(t, [C(t) EXCEPT !.pc = 0,
                          !.op = IF invoked THEN MethodCallOp[prog[key[2]].args + 1]
                                 ELSE "InternalOpNamedObject"])
  /\ Quiet

\* What a reference leads to.
Deref(t, item) ==
  IF item.kind # "ref" THEN item.v
  ELSE CASE item.r[1] = "local" -> F(t).locals[item.r[2]]
         [] item.r[1] = "arg" -> F(t).args[item.r[2] + 1]
         [] OTHER -> LET k == SelectInSeq(nodes, LAMBDA n : n.key = item.r[2])
                     IN IF k = 0 THEN Uninit ELSE nodes[k].v

\* OBJECT_TRANSFER_TO_PREV, OBJECT_COPY_TO_PREV, typecheck_operand.
ToPrevOp(t) ==
  /\ Doing(t, {"OBJECT_TRANSFER_TO_PREV", "OBJECT_COPY_TO_PREV"})
  /\ LET f == F(t)
         n == Len(f.ops)
         unwraps == PrevOp(t) \in {"TERM_ARG_UNWRAP_INTERNAL", "OPERAND"}
         src == IF unwraps THEN Num(Deref(t, Top(t))) ELSE Top(t)
     IN CASE n = 1 -> Proceed(t)
          [] n > 1 /\ PrevOp(t) = "OPERAND" /\ src.v = Uninit ->
               Abort(t, "AML_INCOMPATIBLE_OBJECT_TYPE")
          [] OTHER -> SetFrame(t, [OpIn(f, Resume(C(t))) EXCEPT
                                     !.ops[n - 1].items[Len(f.ops[n - 1].items)] = src])
  /\ Quiet

\* store_to_target.
StoreTo(t, f, target, v) ==
  CASE target.r[1] = "local" -> SetFrame(t, [f EXCEPT !.locals[target.r[2]] = v])
                                /\ UNCHANGED nodes
    [] target.r[1] = "arg" -> SetFrame(t, [f EXCEPT !.args[target.r[2] + 1] = v])
                              /\ UNCHANGED nodes
    [] OTHER -> /\ nodes' = [k \in DOMAIN nodes |->
                               IF nodes[k].key = target.r[2]
                               THEN [nodes[k] EXCEPT !.v = v] ELSE nodes[k]]
                /\ SetFrame(t, f)
StoreOp_(t) ==
  /\ \/ /\ Doing(t, {"STORE_TO_TARGET"})
        /\ StoreTo(t, OpIn(F(t), Resume(C(t))), Arg(t, Ins(t)[2]), Top(t).v)
     \/ /\ Handling(t, {"StoreOp"})
        /\ StoreTo(t, OpIn(F(t), Resume(C(t))), Arg(t, 1), Deref(t, Arg(t, 0)))
  /\ UNCHANGED <<prog, mtx, nsLock, now>>

----------------------------------------------------------------------------
\* The handlers.
ReferenceOps(t) ==
  /\ Handling(t, {"LocalOp", "ArgOp", "InternalOpNamedObject", "IncrementOp",
                  "DecrementOp"})
  /\ LET c == C(t)
         fill(item) == Items(t, Append(Front(c.items), item))
     IN CASE c.op = "LocalOp" -> fill(Ref("ref", <<"local", c.x>>))
          [] c.op = "ArgOp" -> fill(Ref("ref", <<"arg", c.x>>))
          [] c.op = "InternalOpNamedObject" -> fill(Ref("ref", <<"node", Arg(t, 0).r>>))
          [] OTHER ->
               IF Deref(t, Arg(t, 0)) = Uninit
               THEN Abort(t, "AML_INCOMPATIBLE_OBJECT_TYPE")
               ELSE fill(Num(Deref(t, Arg(t, 0))
                             + (IF c.op = "IncrementOp" THEN 1 ELSE -1)))
  /\ Quiet

\* handle_code_block and begin_block_execution.  The slot that a block gets
\* still holds what the last block there has left.
begin_block_execution(t) ==
  /\ Handling(t, {"IfOp", "ElseOp", "WhileOp"})
  /\ LET f == F(t)
         c == [Resume(C(t)) EXCEPT !.tracked = 0]
         n == Len(f.blocks) + 1
         pkg == Arg(t, 0).r
         again == pkg[2] = f.prev_while_code_offset
         exp == CASE c.op # "WhileOp" -> f.slots[n]
                  [] c.op = "WhileOp" /\ again -> f.prev_while_expiration
                  [] OTHER -> now + loop_timeout
         block == [type |-> CASE c.op = "IfOp" -> "IF" [] c.op = "ElseOp" -> "ELSE"
                              [] OTHER -> "WHILE",
                   begin |-> pkg[2] - 1, end |-> pkg[3], exp |-> exp]
     IN /\ IF c.op = "WhileOp" /\ again /\ now > f.slots[n]
           THEN Abort(t, "AML_LOOP_TIMEOUT")
           ELSE SetFrame(t, [OpIn(f, c) EXCEPT !.blocks = Append(@, block),
                                               !.slots[n] = exp])
        /\ now' = IF c.op = "WhileOp" THEN now + 1 ELSE now
  /\ UNCHANGED <<prog, mtx, nodes, nsLock>>

handle_control_flow(t) ==
  /\ Handling(t, {"BreakOp", "ContinueOp"})
  /\ LET f == F(t)
         w == SelectLastInSeq(f.blocks, LAMBDA b : b.type = "WHILE")
         upto == [f EXCEPT !.blocks = SubSeq(@, 1, w)]
     IN IF w = 0 THEN Abort(t, "AML_BAD_ENCODING")
        ELSE SetFrame(t, OpIn([PopBlock(upto) EXCEPT !.code_offset =
                                 IF C(t).op = "BreakOp" THEN f.blocks[w].end
                                 ELSE f.blocks[w].begin], Resume(C(t))))
  /\ Quiet

\* handle_return, method_get_ret_target: to the caller's op if it has one.
handle_return(t) ==
  /\ Handling(t, {"ReturnOp"})
  /\ LET e == ex[t]
         v == Arg(t, 0).v
         n == Len(e.stack)
         ended == [OpIn(F(t), Resume(C(t))) EXCEPT !.code_offset = Size(F(t).method)]
         after == FrameIn(t, ended)
         caller == e.stack[n - 1]
         ops == Len(caller.ops)
     IN SetThread(t, CASE n = 1 -> [after EXCEPT !.ret = v]
                       [] n > 1 /\ caller.ops = <<>> -> after
                       [] OTHER -> [after EXCEPT
                            !.stack[n - 1].ops[ops].items[Len(caller.ops[ops].items)] =
                               Num(v)])
  /\ Quiet

\* handle_name and INSTALL_NAMESPACE_NODE.
InstallNode(t) ==
  /\ \/ Handling(t, {"NameOp"}) /\ Proceed(t) /\ UNCHANGED nodes
     \/ /\ Doing(t, {"INSTALL_NAMESPACE_NODE"})
        /\ LET key == Arg(t, Ins(t)[2]).r
               f == OpIn(F(t), Resume(C(t)))
           IN /\ nodes' = Append(nodes, [key |-> key, v |-> Top(t).v])
              /\ SetFrame(t, IF prog[f.method].named_objects_persist THEN f
                             ELSE [f EXCEPT !.temp = Append(@, key)])
  /\ UNCHANGED <<prog, mtx, nsLock, now>>

----------------------------------------------------------------------------
\* handle_mutex_ctl, enter_method, handle_sleep: where the lock is dropped.
Owns(t, m) == mtx[m].owner = t
Blocked(t, wait, callee) ==
  /\ SetThread(t, [ex[t] EXCEPT !.at = "wait", !.wait = wait, !.callee = callee,
                                !.got = FALSE])
  /\ nsLock' = NoThread
Acquired(t) == Items(t, Append(Front(C(t).items), Num(0)))

AcquireOp_(t) ==
  /\ Handling(t, {"AcquireOp"})
  /\ LET m == Arg(t, 0).r[2][2]
     IN CASE ex[t].sync > Level(m) -> Proceed(t) /\ UNCHANGED <<mtx, nsLock>>
          [] ex[t].sync <= Level(m) /\ Owns(t, m) ->
               /\ mtx' = [mtx EXCEPT ![m].depth = @ + 1]
               /\ Acquired(t) /\ UNCHANGED nsLock
          [] OTHER -> Blocked(t, m, "none") /\ UNCHANGED mtx
  /\ UNCHANGED <<prog, nodes, now>>

ReleaseOp_(t) ==
  /\ Handling(t, {"ReleaseOp"})
  /\ LET m == Arg(t, 0).r[2][2]
         r == Release(ex[t].held, m, FALSE)
         e == FrameIn(t, OpIn(F(t), Resume(C(t))))
     IN IF ~Owns(t, m) THEN Proceed(t) /\ UNCHANGED mtx
        ELSE /\ mtx' = r.mtx
             /\ SetThread(t, [e EXCEPT !.held = r.held,
                                !.sync = CASE ~r.ok -> @
                                           [] r.ok /\ r.held = <<>> -> 0
                                           [] OTHER -> Level(Last(r.held))])
  /\ UNCHANGED <<prog, nodes, nsLock, now>>

SleepOp_(t) ==
  /\ Handling(t, {"SleepOp"})
  /\ Blocked(t, "none", "none")
  /\ UNCHANGED <<prog, mtx, nodes, now>>

\* prepare_method_call behind enter_method, in a context that has the mutex.
\* A native caller passes no arguments here, whatever the method takes.
Entered(e, m, args) ==
  LET new == [NewFrame(m, args) EXCEPT !.prev_sync_level = e.sync]
      entered == [e EXCEPT !.at = "run", !.wait = "none", !.callee = "none",
                           !.sync = IF prog[m].is_serialized THEN Level(m) ELSE @]
  IN IF Len(args) = prog[m].args THEN [entered EXCEPT !.stack = Append(@, new)]
     ELSE [entered EXCEPT !.status = "INVALID_ARGUMENT"]
\* The arguments lie behind the node and the count, before the return value.
CallArgs(e) ==
  IF e.stack = <<>> THEN <<>>
  ELSE LET items == Last(Last(e.stack).ops).items
       IN [k \in 1..(Len(items) - 3) |-> items[k + 2].v]

\* prepare_method_call for e, which has already stepped over the dispatch.
\* Mutant: a serialized method takes its mutex from whoever has it.
EnterUnserialized(t, e, m) ==
  CASE Len(e.stack) >= max_call_stack_depth ->
         /\ SetThread(t, [e EXCEPT !.at = "unwind", !.idx = 0,
                                   !.status = "AML_CALL_STACK_DEPTH_LIMIT"])
         /\ UNCHANGED nsLock
    [] prog[m].is_serialized /\ e.sync > Level(m) ->
         /\ SetThread(t, [e EXCEPT !.at = "unwind", !.idx = 0,
                                   !.status = "AML_SYNC_LEVEL_TOO_HIGH"])
         /\ UNCHANGED nsLock
    [] OTHER -> SetThread(t, Entered(e, m, CallArgs(e))) /\ UNCHANGED nsLock
prepare_method_call(t, e, m) ==
  CASE Len(e.stack) >= max_call_stack_depth ->
         /\ SetThread(t, [e EXCEPT !.at = "unwind", !.idx = 0,
                                   !.status = "AML_CALL_STACK_DEPTH_LIMIT"])
         /\ UNCHANGED nsLock
    [] Len(e.stack) < max_call_stack_depth /\ prog[m].is_serialized /\ e.sync > Level(m) ->
         /\ SetThread(t, [e EXCEPT !.at = "unwind", !.idx = 0,
                                   !.status = "AML_SYNC_LEVEL_TOO_HIGH"])
         /\ UNCHANGED nsLock
    [] OTHER ->
         IF prog[m].is_serialized /\ ~Owns(t, m)
         THEN /\ SetThread(t, [e EXCEPT !.at = "wait", !.wait = m, !.callee = m,
                                        !.got = FALSE])
              /\ nsLock' = NoThread
         ELSE SetThread(t, Entered(e, m, CallArgs(e))) /\ UNCHANGED nsLock

Dispatch_(t) ==
  /\ Doing(t, {"DISPATCH_METHOD_CALL"})
  /\ prepare_method_call(t, FrameIn(t, OpIn(F(t), Resume(C(t)))), Arg(t, 0).r[2])
  /\ UNCHANGED <<prog, mtx, nodes, now>>

\* uacpi_eval: the namespace write lock, and the method itself.
uacpi_execute_control_method(t) ==
  /\ ex[t].at = "idle" /\ nsLock = NoThread
  /\ LET m == ex[t].callee
     IN IF prog[m].is_serialized
        THEN /\ SetThread(t, [ex[t] EXCEPT !.at = "wait", !.wait = m])
             /\ UNCHANGED nsLock
        ELSE /\ SetThread(t, Entered(ex[t], m, <<>>)) /\ nsLock' = t
  /\ UNCHANGED <<prog, mtx, nodes, now>>

\* uacpi_kernel_acquire_mutex hands the mutex over, the owner is recorded;
\* an Acquire may also time out.
MutexGranted(t) ==
  /\ ex[t].at = "wait" /\ ~ex[t].got
  /\ \/ /\ ex[t].wait # "none" /\ mtx[ex[t].wait].owner = NoThread
        /\ mtx' = [mtx EXCEPT ![ex[t].wait] = [owner |-> t, depth |-> 1]]
        /\ SetThread(t, [ex[t] EXCEPT !.got = TRUE, !.at = "relock"])
     \/ /\ ex[t].callee = "none" /\ (ex[t].wait # "none" => Arg(t, 1).v # 65535)
        /\ SetThread(t, [ex[t] EXCEPT !.at = "relock"])
        /\ UNCHANGED mtx
  /\ UNCHANGED <<prog, nodes, nsLock, now>>

\* Behind uacpi_namespace_write_lock.
\* Mutant: an Acquire that has timed out is executed again.
RetriesTimedOut(t) ==
  /\ ex[t].at = "relock" /\ nsLock = NoThread
  /\ LET e == ex[t]
         m == e.wait
         mine == [e EXCEPT !.at = "run", !.held = Append(@, m)]
     IN SetThread(t,
          CASE e.callee # "none" -> Entered(mine, m, CallArgs(e))
            [] e.callee = "none" /\ e.got ->
                 LET c == [Resume(C(t)) EXCEPT !.items = Append(Front(@), Num(0))]
                 IN [mine EXCEPT !.stack = Append(Front(@), OpIn(F(t), c)),
                                 !.sync = Level(m)]
            [] OTHER -> [ex[t] EXCEPT !.at = "run"])
  /\ nsLock' = t
  /\ UNCHANGED <<prog, mtx, nodes, now>>
Relock(t) ==
  /\ ex[t].at = "relock" /\ nsLock = NoThread
  /\ LET e == ex[t]
         m == e.wait
         mine == [e EXCEPT !.at = "run", !.held = Append(@, m)]
     IN SetThread(t,
          CASE e.callee # "none" -> Entered(mine, m, CallArgs(e))
            [] e.callee = "none" /\ e.got ->
                 LET c == [Resume(C(t)) EXCEPT !.items = Append(Front(@), Num(0))]
                 IN [mine EXCEPT !.stack = Append(Front(@), OpIn(F(t), c)),
                                 !.sync = Level(m)]
            [] OTHER -> [FrameIn(t, OpIn(F(t), Resume(C(t)))) EXCEPT !.at = "run"])
  /\ nsLock' = t
  /\ UNCHANGED <<prog, mtx, nodes, now>>

----------------------------------------------------------------------------
exec_op(t) ==
  \/ EndOp(t) \/ Preempt(t) \/ Pkg(t) \/ Literal(t) \/ ObjectsOp(t) \/ Branch(t)
  \/ SwitchToNext(t) \/ CreateName(t) \/ ConvertName(t) \/ ToPrevOp(t)
  \/ StoreOp_(t) \/ ReferenceOps(t) \/ begin_block_execution(t)
  \/ handle_control_flow(t) \/ handle_return(t) \/ InstallNode(t)
  \/ AcquireOp_(t) \/ ReleaseOp_(t) \/ SleepOp_(t) \/ Dispatch_(t)

InterpreterStep(t) ==
  \/ uacpi_execute_control_method(t) \/ MutexGranted(t) \/ Relock(t)
  \/ stack_unwind(t) \/ Finish(t)
  \/ /\ Running(t)
     /\ \/ ~Active(t) /\ (maybe_end_block(t) \/ MethodEnds(t) \/ GetOp(t))
        \/ Active(t) /\ TypecheckFails(t)
        \/ Active(t) /\ Typechecked(t) /\ exec_op(t)

----------------------------------------------------------------------------
\* The mutexes that a thread owns are those on its list of held mutexes, each
\* once (or the one it has just been handed and will put there), through
\* nested calls, releases out of order and aborts; and an evaluation that is
\* over, however it ended, leaves no mutex owned and no node behind but those
\* that table-level code has installed.
NothingLeftBehind ==
  \A t \in Threads :
    LET e == ex[t]
        handed == e.at = "relock" /\ e.got
    IN /\ \A m \in DOMAIN mtx :
            mtx[m].owner = t <=> m \in Range(e.held) \/ (handed /\ m = e.wait)
       /\ IsInjective(e.held)
       /\ e.at = "done" =>
            /\ nsLock # t
            /\ \A k \in DOMAIN nodes : nodes[k].key[3] = t => nodes[k].key[1] = "root"

Inside(t, m) == \E k \in DOMAIN ex[t].stack : ex[t].stack[k].method = m
Recursive(m) ==
  \E k \in DOMAIN prog[m].code :
    prog[m].code[k].op = "UnresolvedNameString" /\ prog[m].code[k].x = m
\* Two threads are never inside the same serialized method, although each of
\* them lets go of the namespace while it waits or sleeps there.  A method that
\* calls itself is left out: its mutex is released when the inner call returns.
SerializedExclusive ==
  \A m \in DOMAIN prog : prog[m].type = "METHOD" =>
    (prog[m].is_serialized /\ ~Recursive(m) =>
       \A t, u \in Threads : Inside(t, m) /\ Inside(u, m) => t = u)

\* A name that is taken makes the method that creates it fail.
CreateErrorsOut == \A t \in Threads : ex[t].at # "fault"

\* Every evaluation comes to an end: loops run into their time-out, a thread
\* that holds a mutex of some level does not wait for one of a lower level, and
\* whoever holds a mutex or the namespace lets go of it.
EvaluationsEnd ==
  <>(CreateErrorsOut => \A t \in Threads : ex[t].at = "done")
============================================================================
