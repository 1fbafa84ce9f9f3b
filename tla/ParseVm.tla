------------------------------ MODULE ParseVm ------------------------------
(***************************************************************************)
(* exec_op running the program of one AML instruction, whatever the        *)
(* operands and the byte stream turn out to be.  An item is its kind with  *)
(* what decides the VM's course: whether a handle is NULL, the value of an *)
(* immediate, the type of an object.  Handlers appear as the items they    *)
(* read (Reads), transcribed from handle_*, and the items they change.     *)
(***************************************************************************)
EXTENDS Opcodes

CONSTANT MaxItems     \* bound on the items of a Package or Field

VARIABLE vm
(* op, pc, items, tracked, from: the op_context (from is switched_from);
   prev: the parse op of the preempted op that waits for this one, or "none";
   load: whether this is table-level code; out: the objects handed to prev;
   status: "run", "end", or "error". *)

vmvars == <<vm>>

Item(kind, val) == [kind |-> kind, val |-> val]
Obj(type) == Item("obj", type)
Null(kind) == Item(kind, "null")
IsNull(item) == IF item.kind = "imm" THEN item.val = 0 ELSE item.val = "null"
At(k) == vm.items[k + 1]
LastItem == vm.items[Len(vm.items)]
Has(k) == k < Len(vm.items)

\* What a preempted parse op finds in its item once it is resumed: the types
\* typecheck_* lets through, nothing where a name may stay unresolved, and
\* nothing when abort_whileif gives up on the predicate of an If or a While.
Resumed(p) ==
  CASE p = "OPERAND" ->
         {Obj("INTEGER")} \cup
         (IF vm.load /\ vm.op \in {"IfOp", "WhileOp"} THEN {Null("empty")} ELSE {})
    [] p = "STRING" -> {Obj("STRING")}
    [] p = "COMPUTATIONAL_DATA" -> {Obj("INTEGER"), Obj("BUFFER"), Obj("STRING")}
    [] p \in {"SIMPLE_NAME", "SUPERNAME", "TARGET"} -> {Obj("REFERENCE")}
    [] op_allows_unresolved(p) -> {Obj("REFERENCE"), Null("empty")}
    [] vm.op \in Range(MethodCallOp) -> {Obj("INTEGER")}    \* never looked at
    [] OTHER -> {Obj("INTEGER"), Obj("BUFFER"), Obj("PACKAGE")}

VmInit ==
  \E op \in Ops \ ReservedOps, p \in Arguments \cup {"none"}, load \in BOOLEAN :
    /\ p # "none" => op \in op_typecheck(p)
    /\ vm = [op |-> op, pc |-> 0, items |-> <<>>, tracked |-> 0, from |-> "none",
             prev |-> p, load |-> load, out |-> 0, status |-> "run"]

----------------------------------------------------------------------------
Sound == vm.pc \in DOMAIN Decode[vm.op]
Instr == Decode[vm.op][vm.pc]
At_(names) == vm.status = "run" /\ Sound /\ Instr[1] \in names
NextPc == vm.pc + Width(Instr)

Go(pc, items) == vm' = [vm EXCEPT !.pc = pc, !.items = items]
Push(item) == Go(NextPc, Append(vm.items, item))
SkipIf(cond, bytes) == Go(NextPc + (IF cond THEN bytes ELSE 0), vm.items)
Error == vm' = [vm EXCEPT !.status = "error"]

End ==
  /\ At_({"END"})
  /\ vm' = [vm EXCEPT !.status = "end"]

SkipWithWarnIfNull ==
  /\ At_({"SKIP_WITH_WARN_IF_NULL"}) /\ Has(Instr[2])
  /\ IF IsNull(At(Instr[2])) THEN vm' = [vm EXCEPT !.status = "end"]
     ELSE Go(NextPc, vm.items)

\* The op is preempted, another one runs, and this one goes on behind it.
Argument ==
  /\ At_(Arguments)
  /\ \E item \in Resumed(Instr[1]) : Push(item)

Pkglen ==
  /\ At_({"PKGLEN", "TRACKED_PKGLEN"})
  /\ vm' = [vm EXCEPT !.pc = NextPc,
                      !.items = Append(@, Item("pkg", "range")),
                      !.tracked = IF Instr[1] = "TRACKED_PKGLEN"
                                  THEN Len(vm.items) + 1 ELSE @]

\* A byte of the stream matters where IF_LAST_EQUALS looks at it next.
ByteValues == IF Decode[vm.op][NextPc][1] = "IF_LAST_EQUALS" THEN 0..4 ELSE {9}
LoadImm ==
  \/ /\ At_({"LOAD_INLINE_IMM"}) /\ Push(Item("imm", Instr[3]))
  \/ /\ At_({"LOAD_ZERO_IMM"}) /\ Push(Item("imm", 0))
  \/ /\ At_({"LOAD_IMM"}) /\ \E v \in ByteValues : Push(Item("imm", v))
  \/ /\ At_({"RECORD_AML_PC"}) /\ Push(Item("imm", 9))

LoadObject ==
  /\ At_({"LOAD_INLINE_IMM_AS_OBJECT", "LOAD_IMM_AS_OBJECT", "LOAD_FALSE_OBJECT",
          "LOAD_TRUE_OBJECT"})
  /\ Push(Obj("INTEGER"))

ObjectAlloc ==
  \/ /\ At_({"OBJECT_ALLOC"}) /\ Push(Obj("UNINITIALIZED"))
  \/ /\ At_({"OBJECT_ALLOC_TYPED"}) /\ Push(Obj(Instr[2]))
  \/ /\ At_({"EMPTY_OBJECT_ALLOC"}) /\ Push(Null("empty"))

\* The copy that was allocated last takes the place of the original.
ConvertToCopy ==
  /\ At_({"OBJECT_CONVERT_TO_SHALLOW_COPY", "OBJECT_CONVERT_TO_DEEP_COPY"})
  /\ Go(NextPc, vm.items)

Plain ==
  /\ At_({"EMIT_SKIP_WARN", "TRUNCATE_NUMBER", "AML_PC_DECREMENT",
          "INSTALL_NAMESPACE_NODE", "STORE_TO_TARGET", "STORE_TO_TARGET_INDIRECT"})
  /\ Go(NextPc, vm.items)

Typecheck ==
  /\ At_({"TYPECHECK"})
  /\ IF LastItem.val = Instr[2] THEN Go(NextPc, vm.items) ELSE Error

BadOpcode == At_({"BAD_OPCODE", "UNREACHABLE"}) /\ Error

ImmDecrement ==
  /\ At_({"IMM_DECREMENT"}) /\ Has(Instr[2])
  /\ Go(NextPc, [vm.items EXCEPT ![Instr[2] + 1].val = @ - 1])

ItemPop ==
  /\ At_({"ITEM_POP"})
  /\ Go(NextPc, IF vm.items = <<>> THEN <<>>
                ELSE SubSeq(vm.items, 1, Len(vm.items) - 1))

IfHasData ==
  /\ At_({"IF_HAS_DATA"})
  /\ \E empty \in BOOLEAN :
       /\ Len(vm.items) >= MaxItems => empty
       /\ SkipIf(empty, Instr[2])

IfNull ==
  /\ At_({"IF_NULL", "IF_NOT_NULL"}) /\ Has(Instr[2])
  /\ SkipIf(IsNull(At(Instr[2])) = (Instr[1] = "IF_NOT_NULL"), Instr[3])
IfLastNull ==
  /\ At_({"IF_LAST_NULL"}) /\ vm.items # <<>>
  /\ SkipIf(~IsNull(LastItem), Instr[2])
IfLastEquals ==
  /\ At_({"IF_LAST_EQUALS"}) /\ vm.items # <<>>
  /\ SkipIf(LastItem.val # Instr[2], Instr[3])
IfLastFalse ==
  /\ At_({"IF_LAST_FALSE", "IF_LAST_TRUE"})
  /\ \E skip \in BOOLEAN : SkipIf(skip, Instr[2])
IfSwitchedFrom ==
  /\ At_({"IF_SWITCHED_FROM"})
  /\ SkipIf(vm.from # Instr[2], Instr[3])

Jmp == At_({"JMP"}) /\ Go(Instr[2], vm.items)

\* resolve_name_string finds the node, leaves NULL where that is tolerated, or
\* ends the method.
NameString_ ==
  /\ At_({"CREATE_NAMESTRING", "CREATE_NAMESTRING_OR_NULL_IF_LOAD",
          "EXISTING_NAMESTRING", "EXISTING_NAMESTRING_OR_NULL",
          "EXISTING_NAMESTRING_OR_NULL_IF_LOAD"})
  /\ LET p == Instr[1]
         tolerated ==
           \/ IF vm.prev # "none"
              THEN op_allows_unresolved(vm.prev) /\ op_allows_unresolved(p)
              ELSE vm.op = "ExternalOp"
           \/ vm.load /\ op_allows_unresolved_if_load(p)
     IN \/ Push(Item("node", "node"))
        \/ tolerated /\ Push(Null("node"))
        \/ ~tolerated /\ Error

SwitchToNextIfEquals ==
  /\ At_({"SWITCH_TO_NEXT_IF_EQUALS"})
  /\ \/ Go(NextPc, vm.items)
     \/ vm' = [vm EXCEPT !.op = Instr[2], !.pc = 0, !.from = vm.op]

\* What a resolved name turns into depends on its object and on who asks.
ConvertNamestring ==
  /\ At_({"CONVERT_NAMESTRING"})
  /\ IF IsNull(LastItem)
     THEN IF op_allows_unresolved(vm.prev) THEN Go(NextPc, vm.items) ELSE Error
     ELSE \E op \in
            {"InternalOpNamedObject"}
            \cup (IF op_wants_supername(vm.prev)
                     \/ vm.prev \in {"TERM_ARG_OR_NAMED_OBJECT",
                                     "TERM_ARG_OR_NAMED_OBJECT_OR_UNRESOLVED"}
                  THEN {} ELSE Range(MethodCallOp))
            \cup (IF op_wants_term_arg_or_operand(vm.prev)
                  THEN {"InternalOpReadFieldAsBuffer", "InternalOpReadFieldAsInteger"}
                  ELSE {}) :
            vm' = [vm EXCEPT !.op = op, !.pc = 0]

\* OBJECT_TRANSFER_TO_PREV, OBJECT_COPY_TO_PREV: the last item goes to the
\* preempted op, if there is one.
ToPrev ==
  /\ At_({"OBJECT_TRANSFER_TO_PREV", "OBJECT_COPY_TO_PREV"})
  /\ vm' = [vm EXCEPT !.pc = NextPc,
                      !.out = IF vm.prev = "none" THEN @ ELSE @ + 1]

Dispatch ==
  /\ At_({"DISPATCH_METHOD_CALL", "DISPATCH_TABLE_LOAD"})
  /\ Go(NextPc, vm.items) \/ Error

----------------------------------------------------------------------------
\* What the handlers read, item by item: "node" and "obj" without NULL, an
\* object of a type, an immediate, a package length, an empty object.
Seven(n) == << "node", "imm" >> \o [k \in 1..n |-> "obj"] \o << "obj" >>
Reads(op) ==
  CASE op \in {"LocalOp", "ArgOp"} -> { << "empty" >> }
    [] op = "InternalOpNamedObject" -> { << "node", "empty" >> }
    [] op = "InternalOpReadFieldAsBuffer" -> { << "node", "BUFFER" >> }
    [] op = "InternalOpReadFieldAsInteger" -> { << "node", "INTEGER" >> }
    [] op = "StringPrefix" -> { << "STRING" >> }
    [] op \in DOMAIN BinaryMathOps -> { << "INTEGER", "INTEGER", "obj", "INTEGER" >> }
    [] op = "DivideOp" ->
         { << "INTEGER", "INTEGER", "obj", "obj", "INTEGER", "INTEGER" >> }
    [] op \in DOMAIN UnaryMathOps \cup {"FromBCDOp", "ToBCDOp"} ->
         { << "INTEGER", "obj", "INTEGER" >> }
    [] op \in {"ContinueOp", "BreakOp", "BreakPointOp"} -> { <<>> }
    [] op \in {"IfOp", "WhileOp"} -> { << "pkg", "INTEGER" >> }
    [] op = "ElseOp" -> { << "pkg" >> }
    [] op = "ScopeOp" -> { << "pkg", "node" >> }
    [] op = "DeviceOp" -> { << "pkg", "node", "DEVICE" >> }
    [] op = "ThermalZoneOp" -> { << "pkg", "node", "THERMAL_ZONE" >> }
    [] op = "ProcessorOp" -> { << "pkg", "node", "imm", "imm", "imm", "PROCESSOR" >> }
    [] op = "PowerResOp" -> { << "pkg", "node", "imm", "imm", "POWER_RESOURCE" >> }
    [] op = "ReturnOp" -> { << "obj" >> }
    [] op = "MethodOp" -> { << "pkg", "node", "imm", "imm", "METHOD" >> }
    [] op \in {"StoreOp", "CopyObjectOp"} -> { << "obj", "obj" >> }
    [] op \in DOMAIN IncDecOps -> { << "obj", "INTEGER" >> }
    [] op \in {"RefOfOp", "DerefOfOp"} -> { << "obj", "obj" >> }
    [] op = "CondRefOfOp" -> { << "obj", "obj", "obj" >> }
    [] op = "LnotOp" -> { << "INTEGER", "obj" >> }
    [] op \in DOMAIN LogicOps -> { << "obj", "obj", "INTEGER" >> }
    [] op = "BufferOp" -> { << "pkg", "INTEGER", "imm", "BUFFER" >> }
    [] op = "NameOp" -> { << "node", "obj" >> }
    [] op \in DOMAIN BufferFieldOps -> { << "BUFFER", "INTEGER", "node", "BUFFER_FIELD" >> }
    [] op = "CreateFieldOp" ->
         { << "BUFFER", "INTEGER", "INTEGER", "node", "BUFFER_FIELD" >> }
    [] op = "AliasOp" -> { << "node", "node" >> }
    [] op \in {"ToBufferOp", "ToDecimalStringOp", "ToHexStringOp", "ToIntegerOp"} ->
         { << "obj", "obj", "obj" >> }
    [] op = "ToStringOp" -> { << "BUFFER", "INTEGER", "obj", "STRING" >> }
    [] op = "ConcatOp" -> { << "obj", "obj", "obj", "BUFFER" >> }
    [] op = "ConcatResOp" -> { << "BUFFER", "BUFFER", "obj", "BUFFER" >> }
    [] op \in {"SizeOfOp", "ObjectTypeOp"} -> { << "obj", "INTEGER" >> }
    [] op = "IndexOp" -> { << "obj", "INTEGER", "obj", "empty" >> }
    [] op = "MidOp" -> { << "obj", "INTEGER", "INTEGER", "obj", "BUFFER" >> }
    [] op = "MatchOp" ->
         { << "PACKAGE", "imm", "INTEGER", "imm", "INTEGER", "INTEGER", "INTEGER" >> }
    [] op = "TimerOp" -> { << "INTEGER" >> }
    [] op = "OpRegionOp" ->
         { << "node", "imm", "INTEGER", "INTEGER", "OPERATION_REGION" >> }
    [] op = "DataRegionOp" ->
         { << "node", "STRING", "STRING", "STRING", "OPERATION_REGION" >> }
    [] op = "MutexOp" -> { << "node", "imm", "MUTEX" >> }
    [] op = "EventOp" -> { << "node", "EVENT" >> }
    [] op \in {"StallOp", "SleepOp"} -> { << "INTEGER" >> }
    [] op \in {"SignalOp", "ResetOp", "ReleaseOp", "UnloadOp"} -> { << "obj" >> }
    [] op = "AcquireOp" -> { << "obj", "imm", "INTEGER" >> }
    [] op = "WaitOp" -> { << "obj", "INTEGER", "INTEGER" >> }
    [] op = "FatalOp" -> { << "imm", "imm", "INTEGER" >> }
    [] op = "NotifyOp" -> { << "node", "INTEGER" >> }
    [] op = "LoadOp" ->
         { << "any", "METHOD", "imm", "obj", "obj" >>,
           << "any", "METHOD", "imm", "obj", "obj", "INTEGER" >> }
    [] op = "LoadTableOp" ->
         LET first == << "any", "METHOD", "imm", "any", "imm" >>
                      \o [k \in 1..5 |-> "STRING"] \o << "obj" >>
         IN { first, Append(first, "INTEGER") }
    [] OTHER -> {}        \* OP_HANDLER_UNINSTALLED

Fits(item, want) ==
  CASE want = "any" -> TRUE
    [] want \in {"imm", "pkg"} -> item.kind = want
    [] want = "empty" -> item.kind = "empty"
    [] want \in {"node", "obj"} -> item.kind = want /\ ~IsNull(item)
    [] OTHER -> item.kind = "obj" /\ item.val = want

\* handle_package: pairs of an AML offset and an element behind the count.
PackageItems(n) ==
  /\ Len(vm.items) >= 3 /\ Len(vm.items) % 2 = 1
  /\ Fits(At(0), "pkg")
  /\ Fits(At(1), IF vm.op = "VarPackageOp" THEN "INTEGER" ELSE "imm")
  /\ \A k \in 1..((n - 3) \div 2) :
       At(2 * k).kind = "imm" /\ At(2 * k + 1).kind \in {"obj", "empty"}
  /\ Fits(At(n - 1), "PACKAGE")

\* handle_create_field walks the elements behind the field's header and must
\* find each of them whole; fieldEnd(i) is the index behind the last one.
Element(i) ==
  CASE At(i).kind = "node" -> << "node", "pkg", "FIELD_UNIT" >>
    [] At(i).val = 0 -> << "imm", "pkg" >>
    [] At(i).val = 1 -> << "imm", "imm", "imm" >>
    [] At(i).val = 2 -> << "imm", "BUFFER" >>
    [] OTHER -> << "imm", "imm", "imm", "imm" >>
FieldHeader ==
  CASE vm.op = "FieldOp" -> << "pkg", "node", "imm" >>
    [] vm.op = "BankFieldOp" -> << "pkg", "node", "node", "INTEGER", "imm" >>
    [] OTHER -> << "pkg", "node", "node", "imm" >>
Matches(i, wants) ==
  /\ i + Len(wants) <= Len(vm.items)
  /\ \A k \in DOMAIN wants : Fits(At(i + k - 1), wants[k])
FieldItems(n) ==
  LET whole[i \in 0..n] ==
        i < n => Matches(i, Element(i)) /\ whole[i + Len(Element(i))]
  IN Matches(0, FieldHeader) /\ whole[Len(FieldHeader)]

HandlerReady ==
  CASE vm.op \in {"PackageOp", "VarPackageOp"} -> PackageItems(Len(vm.items))
    [] vm.op \in {"FieldOp", "BankFieldOp", "IndexFieldOp"} -> FieldItems(Len(vm.items))
    [] OTHER -> \E layout \in Reads(vm.op) :
                  Len(layout) = Len(vm.items) /\ Matches(0, layout)

\* The handlers that change items: an empty object is filled in, the first
\* call of Load and LoadTable prepares the table and leaves item 0 NULL when it
\* may not be loaded, the second call of LoadTable drops the target.
InvokeHandler ==
  /\ At_({"INVOKE_HANDLER"}) /\ HandlerReady
  /\ LET n == Len(vm.items)
         with(k, item) == [vm.items EXCEPT ![k + 1] = item]
     IN \/ Error
        \/ /\ vm.op \in {"LocalOp", "ArgOp", "InternalOpNamedObject", "IndexOp"}
           /\ Go(NextPc, with(n - 1, Obj("REFERENCE")))
        \/ /\ vm.op = "LoadOp" /\ n = 5
           /\ \/ Go(NextPc, vm.items)
              \/ Go(NextPc, with(0, Item("node", "node")))
        \/ /\ vm.op = "LoadTableOp" /\ n = 11
           /\ \E target \in {Item("imm", 0), Obj("REFERENCE")} :
                Go(NextPc, [with(0, Item("node", "node")) EXCEPT ![4] = target])
        \/ /\ vm.op = "LoadTableOp" /\ n = 12
           /\ \/ Go(NextPc, vm.items)
              \/ Go(NextPc, with(3, Null("obj")))
        \/ /\ \/ vm.op \notin {"LocalOp", "ArgOp", "InternalOpNamedObject",
                               "IndexOp", "LoadOp", "LoadTableOp"}
              \/ vm.op = "LoadOp" /\ n = 6
           /\ Go(NextPc, vm.items)

VmDone == vm.status \in {"end", "error"} /\ UNCHANGED vm

VmNext ==
  \/ End \/ SkipWithWarnIfNull \/ Argument \/ Pkglen \/ LoadImm \/ LoadObject
  \/ ObjectAlloc \/ ConvertToCopy \/ Plain \/ Typecheck \/ BadOpcode
  \/ ImmDecrement \/ ItemPop \/ IfHasData \/ IfNull \/ IfLastNull
  \/ IfLastEquals \/ IfLastFalse \/ IfSwitchedFrom \/ Jmp \/ NameString_
  \/ SwitchToNextIfEquals \/ ConvertNamestring \/ ToPrev \/ Dispatch
  \/ InvokeHandler \/ VmDone

VmSpec == VmInit /\ [][VmNext]_vmvars

----------------------------------------------------------------------------
\* What the current instruction reads is there.
Readable ==
  CASE Instr[1] = "INSTALL_NAMESPACE_NODE" -> Has(Instr[2]) /\ Fits(At(Instr[2]), "node")
    [] Instr[1] \in {"SKIP_WITH_WARN_IF_NULL", "IF_NULL", "IF_NOT_NULL"} -> Has(Instr[2])
    [] Instr[1] = "IMM_DECREMENT" ->
         Has(Instr[2]) /\ At(Instr[2]).kind = "imm" /\ At(Instr[2]).val > 0
    [] Instr[1] = "STORE_TO_TARGET" ->
         Has(Instr[2]) /\ Fits(At(Instr[2]), "obj") /\ Fits(LastItem, "obj")
    [] Instr[1] = "STORE_TO_TARGET_INDIRECT" ->
         Fits(At(Instr[2]), "obj") /\ Fits(At(Instr[3]), "obj")
    [] Instr[1] \in {"OBJECT_TRANSFER_TO_PREV", "OBJECT_COPY_TO_PREV", "TYPECHECK",
                     "TRUNCATE_NUMBER", "OBJECT_CONVERT_TO_SHALLOW_COPY",
                     "OBJECT_CONVERT_TO_DEEP_COPY"} ->
         vm.items # <<>> /\ Fits(LastItem, "obj")
    [] Instr[1] \in {"IF_LAST_FALSE", "IF_LAST_TRUE"} ->
         vm.items # <<>> /\ Fits(LastItem, "INTEGER")
    [] Instr[1] = "IF_LAST_EQUALS" -> vm.items # <<>> /\ LastItem.kind = "imm"
    [] Instr[1] \in {"IF_LAST_NULL", "ITEM_POP"} -> vm.items # <<>>
    [] Instr[1] = "IF_HAS_DATA" -> vm.tracked > 0 /\ At(vm.tracked - 1).kind = "pkg"
    [] Instr[1] = "CONVERT_NAMESTRING" -> vm.items # <<>> /\ LastItem.kind = "node"
    [] Instr[1] = "DISPATCH_METHOD_CALL" -> \E n \in 0..7 : Matches(0, Seven(n))
    [] Instr[1] = "DISPATCH_TABLE_LOAD" -> ~IsNull(At(0)) /\ Fits(At(1), "METHOD")
    [] Instr[1] = "INVOKE_HANDLER" -> HandlerReady
    [] OTHER -> TRUE

\* An opcode that stands in an argument's place leaves its one object in the
\* item of the op that waits for it, unless that op puts up with an unresolved
\* name.
DeliversOnce ==
  vm.status = "end" /\ vm.prev # "none" =>
    \/ vm.out = 1
    \/ vm.out = 0 /\ op_allows_unresolved(vm.prev)

\* Every program of opcodes.h, on every operand: pc stays on instructions of
\* an array that is large enough, every index it holds names an item of the
\* kind that is read there, NULL only where it is allowed, and every handler
\* meets exactly the items it was written for; and what exec_op hands to the
\* op that waits is one object.
ProgramsSound ==
  /\ vm.pc = 0 /\ vm.op \in DOMAIN InlineOps => Bytes(InlineOps[vm.op]) <= 16
  /\ vm.status = "run" => Sound /\ Readable
  /\ DeliversOnce
============================================================================
