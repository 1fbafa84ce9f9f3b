------------------------------ MODULE Opcodes ------------------------------
(***************************************************************************)
(* The programs of the parser VM (opcodes.h, opcodes.c): how exec_op takes *)
(* each AML instruction apart.  An instruction of a program is a tuple of  *)
(* the parse op's name and its operand bytes; Decode lays the programs out *)
(* byte by byte, as op_context.pc counts.  The opcodes that stand for a    *)
(* letter of a name, Local0..7 and Arg0..6 share one program each.         *)
(***************************************************************************)
EXTENDS Integers, Sequences, FiniteSetsExt, Functions, TLC

I(name) == <<name>>
ALLOC(type) == <<"OBJECT_ALLOC_TYPED", type>>
TYPECHECK(type) == <<"TYPECHECK", type>>
LOAD_IMM(bytes) == <<"LOAD_IMM", bytes>>
STORE_TO_TARGET(k) == <<"STORE_TO_TARGET", k>>
SKIP_IF_NULL(k) == <<"SKIP_WITH_WARN_IF_NULL", k>>
INSTALL(k) == <<"INSTALL_NAMESPACE_NODE", k>>
JMP(pc) == <<"JMP", pc>>

TERM_ARG == I("TERM_ARG")
UNWRAP == I("TERM_ARG_UNWRAP_INTERNAL")
OPERAND == I("OPERAND")
DATA == I("COMPUTATIONAL_DATA")
TARGET == I("TARGET")
SUPERNAME == I("SUPERNAME")
INVOKE_HANDLER == I("INVOKE_HANDLER")
TRANSFER == I("OBJECT_TRANSFER_TO_PREV")
COPY == I("OBJECT_COPY_TO_PREV")
CREATE == I("CREATE_NAMESTRING_OR_NULL_IF_LOAD")
EXISTING == I("EXISTING_NAMESTRING_OR_NULL_IF_LOAD")
TRACKED_PKGLEN == I("TRACKED_PKGLEN")
RECORD_AML_PC == I("RECORD_AML_PC")
ZERO_IMM == I("LOAD_ZERO_IMM")
FALSE_OBJECT == I("LOAD_FALSE_OBJECT")
TRUE_OBJECT == I("LOAD_TRUE_OBJECT")
ITEM_POP == I("ITEM_POP")
END == I("END")

\* The bytes an instruction takes: an inline object is 8 bytes, an inline
\* immediate as many as its first operand says.
Width(instr) ==
  CASE instr[1] = "LOAD_INLINE_IMM_AS_OBJECT" -> 9
    [] instr[1] = "LOAD_INLINE_IMM" -> 2 + instr[2]
    [] instr[1] = "SWITCH_TO_NEXT_IF_EQUALS" -> 3
    [] instr[1] = "IF_SWITCHED_FROM" -> 4
    [] OTHER -> Len(instr)

Starts(prog) ==
  LET start[k \in 1..(Len(prog) + 1)] ==
        IF k = 1 THEN 0 ELSE start[k - 1] + Width(prog[k - 1])
  IN start
Bytes(prog) == Starts(prog)[Len(prog) + 1]

\* The array as the VM reads it, pc by pc.  The inline form, decode_ops[16],
\* is filled up with zeros, which read as END.
Layout(prog) ==
  LET start == Starts(prog)
  IN FoldSet(LAMBDA k, acc : acc @@ (start[k] :> prog[k]),
             start[Len(prog) + 1] :> END, DOMAIN prog)

----------------------------------------------------------------------------
\* The macros of opcodes.h that build several opcodes each.
MethodCall(nargs) ==
  << <<"LOAD_INLINE_IMM", 1, nargs>>,
     <<"IF_NOT_NULL", 1, 6>>,
       UNWRAP, I("OBJECT_CONVERT_TO_SHALLOW_COPY"), <<"IMM_DECREMENT", 1>>,
       JMP(3),
     I("OBJECT_ALLOC"), I("DISPATCH_METHOD_CALL"), TRANSFER >>
NameString ==
  << I("AML_PC_DECREMENT"), I("EXISTING_NAMESTRING_OR_NULL"),
     I("CONVERT_NAMESTRING") >>
LocalOrArg == << I("EMPTY_OBJECT_ALLOC"), INVOKE_HANDLER, TRANSFER >>
PackageOp(count, loop) ==
  << TRACKED_PKGLEN, count,
     <<"IF_HAS_DATA", 4>>,
       RECORD_AML_PC, I("TERM_ARG_OR_NAMED_OBJECT_OR_UNRESOLVED"), JMP(loop),
     ALLOC("PACKAGE"), INVOKE_HANDLER, TRANSFER >>
BinaryMath ==
  << OPERAND, OPERAND, TARGET, ALLOC("INTEGER"), INVOKE_HANDLER,
     I("TRUNCATE_NUMBER"), STORE_TO_TARGET(2), COPY >>
UnaryMath ==
  << OPERAND, TARGET, ALLOC("INTEGER"), INVOKE_HANDLER, STORE_TO_TARGET(1),
     TRANSFER >>
BufferField(operands, node) ==
  << UNWRAP, TYPECHECK("BUFFER") >> \o operands \o
  << CREATE, SKIP_IF_NULL(node), ALLOC("BUFFER_FIELD"), INVOKE_HANDLER,
     INSTALL(node) >>
InlineInteger(v) == << <<"LOAD_INLINE_IMM_AS_OBJECT", v>>, TRANSFER >>
IntegerLiteral(bytes) == << <<"LOAD_IMM_AS_OBJECT", bytes>>, TRANSFER >>
BinaryLogic == << DATA, DATA, ALLOC("INTEGER"), INVOKE_HANDLER, TRANSFER >>
ToOp(type) ==
  << DATA, TARGET, ALLOC(type), INVOKE_HANDLER, STORE_TO_TARGET(1), TRANSFER >>
IncDec ==
  << SUPERNAME, ALLOC("INTEGER"), INVOKE_HANDLER, I("TRUNCATE_NUMBER"),
     STORE_TO_TARGET(0), TRANSFER >>
NamedScope(type, operands) ==
  << TRACKED_PKGLEN, CREATE >> \o operands \o
  << SKIP_IF_NULL(1), ALLOC(type), INVOKE_HANDLER, INSTALL(1) >>

\* PARSE_FIELD_ELEMENTS of opcodes.c.
FieldElements(loop) ==
  << <<"IF_HAS_DATA", 44>>,
       LOAD_IMM(1),
       <<"IF_LAST_EQUALS", 0, 3>>, I("PKGLEN"), JMP(loop),
       <<"IF_LAST_EQUALS", 1, 6>>, LOAD_IMM(1), LOAD_IMM(1), JMP(loop),
       <<"IF_LAST_EQUALS", 2, 5>>, UNWRAP, TYPECHECK("BUFFER"), JMP(loop),
       <<"IF_LAST_EQUALS", 3, 8>>, LOAD_IMM(1), LOAD_IMM(1), LOAD_IMM(1),
                                   JMP(loop),
       ITEM_POP, I("AML_PC_DECREMENT"), I("CREATE_NAMESTRING"), I("PKGLEN"),
       ALLOC("FIELD_UNIT"), JMP(loop),
     INVOKE_HANDLER, END >>

----------------------------------------------------------------------------
\* UACPI_ENUMERATE_OPCODES: data, names and creation of objects.
DataOps ==
  [ ZeroOp |-> InlineInteger(0),
    OneOp |-> InlineInteger(1),
    AliasOp |-> << EXISTING, CREATE, SKIP_IF_NULL(0), SKIP_IF_NULL(1),
                   INVOKE_HANDLER, INSTALL(1) >>,
    NameOp |-> << CREATE, UNWRAP, SKIP_IF_NULL(0),
                  I("OBJECT_CONVERT_TO_DEEP_COPY"), INVOKE_HANDLER, INSTALL(0) >>,
    BytePrefix |-> IntegerLiteral(1),
    WordPrefix |-> IntegerLiteral(2),
    DWordPrefix |-> IntegerLiteral(4),
    StringPrefix |-> << ALLOC("STRING"), INVOKE_HANDLER, TRANSFER >>,
    QWordPrefix |-> IntegerLiteral(8),
    ScopeOp |-> << TRACKED_PKGLEN, EXISTING, SKIP_IF_NULL(1), INVOKE_HANDLER >>,
    BufferOp |-> << TRACKED_PKGLEN, OPERAND, RECORD_AML_PC, ALLOC("BUFFER"),
                    INVOKE_HANDLER, TRANSFER >>,
    PackageOp |-> PackageOp(LOAD_IMM(1), 3),
    VarPackageOp |-> PackageOp(OPERAND, 2),
    MethodOp |-> << TRACKED_PKGLEN, CREATE, LOAD_IMM(1), SKIP_IF_NULL(1),
                    RECORD_AML_PC, ALLOC("METHOD"), INVOKE_HANDLER, INSTALL(1) >>,
    ExternalOp |-> << I("EXISTING_NAMESTRING_OR_NULL"), LOAD_IMM(1), LOAD_IMM(1) >> ]

\* The same, names: a lead character, a prefix, a local or an argument.
NameOps ==
  [ UnresolvedNameString |-> NameString, LocalOp |-> LocalOrArg,
    ArgOp |-> LocalOrArg ]

DivideProgram ==
  << OPERAND, OPERAND, TARGET, TARGET, ALLOC("INTEGER"), ALLOC("INTEGER"),
     INVOKE_HANDLER, STORE_TO_TARGET(3), COPY,
     <<"STORE_TO_TARGET_INDIRECT", 2, 4>> >>
\* The same, 0x70 to 0x86: stores and arithmetic.
MathOps ==
  [ StoreOp |-> << TERM_ARG, SUPERNAME, INVOKE_HANDLER, ITEM_POP, COPY >>,
    RefOfOp |-> << SUPERNAME, I("OBJECT_ALLOC"), INVOKE_HANDLER, TRANSFER >>,
    ConcatOp |-> << DATA, DATA, TARGET, ALLOC("BUFFER"), INVOKE_HANDLER,
                    STORE_TO_TARGET(2), COPY >>,
    DivideOp |-> DivideProgram,
    DerefOfOp |-> << UNWRAP, I("OBJECT_ALLOC"), INVOKE_HANDLER, TRANSFER >>,
    ConcatResOp |-> << UNWRAP, TYPECHECK("BUFFER"), UNWRAP, TYPECHECK("BUFFER"),
                       TARGET, ALLOC("BUFFER"), INVOKE_HANDLER,
                       STORE_TO_TARGET(2), TRANSFER >>,
    NotifyOp |-> << EXISTING, OPERAND, SKIP_IF_NULL(0), INVOKE_HANDLER >> ]
BinaryMathOps ==
  [op \in {"AddOp", "SubtractOp", "MultiplyOp", "ShiftLeftOp", "ShiftRightOp",
           "AndOp", "NandOp", "OrOp", "NorOp", "XorOp", "ModOp"} |-> BinaryMath]
UnaryMathOps ==
  [op \in {"NotOp", "FindSetLeftBitOp", "FindSetRightBitOp"} |-> UnaryMath]
IncDecOps == [op \in {"IncrementOp", "DecrementOp"} |-> IncDec]

\* The same, 0x87 to 0x9E.
BufferFieldOps ==
  [op \in {"CreateDWordFieldOp", "CreateWordFieldOp", "CreateByteFieldOp",
           "CreateBitFieldOp", "CreateQWordFieldOp"} |->
     BufferField(<<OPERAND>>, 2)]
LogicOps ==
  [op \in {"LandOp", "LorOp", "LEqualOp", "LGreaterOp", "LLessOp"} |-> BinaryLogic]
QueryOps ==
  [ SizeOfOp |-> << SUPERNAME, ALLOC("INTEGER"), INVOKE_HANDLER, TRANSFER >>,
    IndexOp |-> << UNWRAP, OPERAND, TARGET, I("EMPTY_OBJECT_ALLOC"),
                   INVOKE_HANDLER, STORE_TO_TARGET(2), TRANSFER >>,
    MatchOp |-> << UNWRAP, TYPECHECK("PACKAGE"), LOAD_IMM(1), OPERAND,
                   LOAD_IMM(1), OPERAND, OPERAND, ALLOC("INTEGER"),
                   INVOKE_HANDLER, TRANSFER >>,
    ObjectTypeOp |-> << I("TERM_ARG_OR_NAMED_OBJECT"), ALLOC("INTEGER"),
                        INVOKE_HANDLER, TRANSFER >>,
    LnotOp |-> << OPERAND, I("OBJECT_ALLOC"), INVOKE_HANDLER, TRANSFER >>,
    ToBufferOp |-> ToOp("BUFFER"),
    ToDecimalStringOp |-> ToOp("STRING"),
    ToHexStringOp |-> ToOp("STRING"),
    ToIntegerOp |-> ToOp("INTEGER"),
    ToStringOp |-> << UNWRAP, TYPECHECK("BUFFER"), OPERAND, TARGET,
                      ALLOC("STRING"), INVOKE_HANDLER, STORE_TO_TARGET(2),
                      TRANSFER >>,
    CopyObjectOp |-> << TERM_ARG, COPY, I("SIMPLE_NAME"), INVOKE_HANDLER >>,
    MidOp |-> << UNWRAP, OPERAND, OPERAND, TARGET, ALLOC("BUFFER"),
                 INVOKE_HANDLER, STORE_TO_TARGET(3), TRANSFER >> ]

IfProgram ==
  << TRACKED_PKGLEN, OPERAND,
     <<"IF_LAST_NULL", 3>>, I("EMIT_SKIP_WARN"), JMP(9),
     <<"IF_LAST_FALSE", 4>>,
       <<"SWITCH_TO_NEXT_IF_EQUALS", "ElseOp">>, END,
     INVOKE_HANDLER >>
\* Mutant: the items of the If stay on the list.
ElseKeepsItems ==
  << <<"IF_SWITCHED_FROM", "IfOp", 9>>,
       <<"IF_LAST_NULL", 3>>, TRACKED_PKGLEN, I("EMIT_SKIP_WARN"), END,
       ITEM_POP, I("PKGLEN"), INVOKE_HANDLER, END,
     TRACKED_PKGLEN >>
ElseProgram ==
  << <<"IF_SWITCHED_FROM", "IfOp", 10>>,
       <<"IF_LAST_NULL", 3>>, TRACKED_PKGLEN, I("EMIT_SKIP_WARN"), END,
       ITEM_POP, ITEM_POP, I("PKGLEN"), INVOKE_HANDLER, END,
     TRACKED_PKGLEN >>
ControlOps ==
  [ ContinueOp |-> << INVOKE_HANDLER >>,
    IfOp |-> IfProgram,
    ElseOp |-> ElseProgram,
    WhileOp |-> << TRACKED_PKGLEN, OPERAND, SKIP_IF_NULL(1),
                   <<"IF_LAST_TRUE", 1>>, INVOKE_HANDLER >>,
    NoopOp |-> << END >>,
    ReturnOp |-> << UNWRAP, INVOKE_HANDLER >>,
    BreakOp |-> << INVOKE_HANDLER >>,
    BreakPointOp |-> << INVOKE_HANDLER >> ]

\* The same, 0xF4 to 0xFF: what a name turns into, and Ones.
MethodCallOp ==
  << "InternalOpMethodCall0Args", "InternalOpMethodCall1Args",
     "InternalOpMethodCall2Args", "InternalOpMethodCall3Args",
     "InternalOpMethodCall4Args", "InternalOpMethodCall5Args",
     "InternalOpMethodCall6Args", "InternalOpMethodCall7Args" >>
MethodCallOps ==
  [op \in Range(MethodCallOp) |->
     MethodCall((CHOOSE k \in 1..8 : MethodCallOp[k] = op) - 1)]
InternalOps ==
  [ InternalOpReadFieldAsBuffer |-> << ALLOC("BUFFER"), INVOKE_HANDLER, TRANSFER >>,
    InternalOpReadFieldAsInteger |-> << ALLOC("INTEGER"), INVOKE_HANDLER, TRANSFER >>,
    InternalOpNamedObject |-> LocalOrArg,
    OnesOp |-> << <<"LOAD_INLINE_IMM_AS_OBJECT", -1>>, I("TRUNCATE_NUMBER"),
                  TRANSFER >>,
    Reserved |-> << I("BAD_OPCODE") >>,
    Internal |-> << I("UNREACHABLE") >> ]

----------------------------------------------------------------------------
\* UACPI_ENUMERATE_EXT_OPCODES.
SyncOps ==
  [ ReservedExtOp |-> << I("BAD_OPCODE") >>,
    MutexOp |-> << CREATE, LOAD_IMM(1), SKIP_IF_NULL(0), ALLOC("MUTEX"),
                   INVOKE_HANDLER, INSTALL(0) >>,
    EventOp |-> << CREATE, SKIP_IF_NULL(0), ALLOC("EVENT"), INVOKE_HANDLER,
                   INSTALL(0) >>,
    CondRefOfOp |-> << I("SUPERNAME_OR_UNRESOLVED"), TARGET,
                       <<"IF_NULL", 0, 3>>, FALSE_OBJECT, TRANSFER, END,
                       I("OBJECT_ALLOC"), INVOKE_HANDLER, STORE_TO_TARGET(1),
                       TRUE_OBJECT, TRANSFER >>,
    CreateFieldOp |-> BufferField(<<OPERAND, OPERAND>>, 3),
    StallOp |-> << OPERAND, INVOKE_HANDLER >>,
    SleepOp |-> << OPERAND, INVOKE_HANDLER >>,
    AcquireOp |-> << SUPERNAME, LOAD_IMM(2), TRUE_OBJECT, INVOKE_HANDLER,
                     TRANSFER >>,
    SignalOp |-> << SUPERNAME, INVOKE_HANDLER >>,
    WaitOp |-> << SUPERNAME, OPERAND, TRUE_OBJECT, INVOKE_HANDLER, TRANSFER >>,
    ResetOp |-> << SUPERNAME, INVOKE_HANDLER >>,
    ReleaseOp |-> << SUPERNAME, INVOKE_HANDLER >>,
    FromBCDOp |-> UnaryMath,
    ToBCDOp |-> UnaryMath,
    UnloadOp |-> << SUPERNAME, INVOKE_HANDLER >> ]
DeviceOps ==
  [ RevisionOp |-> InlineInteger(1),
    DebugOp |-> << ALLOC("DEBUG"), TRANSFER >>,
    FatalOp |-> << LOAD_IMM(1), LOAD_IMM(4), OPERAND, INVOKE_HANDLER >>,
    TimerOp |-> << ALLOC("INTEGER"), INVOKE_HANDLER, TRANSFER >>,
    OpRegionOp |-> << CREATE, LOAD_IMM(1), OPERAND, OPERAND, SKIP_IF_NULL(0),
                      ALLOC("OPERATION_REGION"), INVOKE_HANDLER, INSTALL(0) >>,
    DeviceOp |-> NamedScope("DEVICE", <<>>),
    ProcessorOp |-> NamedScope("PROCESSOR",
                               << LOAD_IMM(1), LOAD_IMM(4), LOAD_IMM(1) >>),
    PowerResOp |-> NamedScope("POWER_RESOURCE", << LOAD_IMM(1), LOAD_IMM(2) >>),
    ThermalZoneOp |-> NamedScope("THERMAL_ZONE", <<>>),
    DataRegionOp |-> << CREATE, I("STRING"), I("STRING"), I("STRING"),
                        SKIP_IF_NULL(0), ALLOC("OPERATION_REGION"),
                        INVOKE_HANDLER, INSTALL(0) >> ]

\* The programs of opcodes.c, kept out of line.
LoadProgram ==
  << ZERO_IMM, ALLOC("METHOD"), ZERO_IMM, UNWRAP, TARGET, INVOKE_HANDLER,
     <<"IF_NULL", 0, 3>>, FALSE_OBJECT, JMP(16),
     TRUE_OBJECT, I("DISPATCH_TABLE_LOAD"), INVOKE_HANDLER,
     STORE_TO_TARGET(4), TRANSFER, END >>
LoadTableProgram ==
  << ZERO_IMM, ALLOC("METHOD"), ZERO_IMM, ZERO_IMM,
     <<"LOAD_INLINE_IMM", 1, 5>>,
     <<"IF_NOT_NULL", 4, 5>>, I("STRING"), <<"IMM_DECREMENT", 4>>, JMP(8),
     UNWRAP, INVOKE_HANDLER, TRUE_OBJECT, I("DISPATCH_TABLE_LOAD"),
     INVOKE_HANDLER,
     <<"IF_NOT_NULL", 3, 3>>, <<"STORE_TO_TARGET_INDIRECT", 3, 10>>,
     TRANSFER, END >>
OutOfLineOps ==
  [ FieldOp |-> << TRACKED_PKGLEN, I("EXISTING_NAMESTRING"), LOAD_IMM(1) >>
                \o FieldElements(4),
    BankFieldOp |-> << TRACKED_PKGLEN, I("EXISTING_NAMESTRING"),
                       I("EXISTING_NAMESTRING"), OPERAND, LOAD_IMM(1) >>
                    \o FieldElements(6),
    IndexFieldOp |-> << TRACKED_PKGLEN, I("EXISTING_NAMESTRING"),
                        I("EXISTING_NAMESTRING"), LOAD_IMM(1) >>
                     \o FieldElements(5),
    LoadOp |-> LoadProgram,
    LoadTableOp |-> LoadTableProgram ]

----------------------------------------------------------------------------
InlineOps ==
  DataOps @@ NameOps @@ MathOps @@ BinaryMathOps @@ UnaryMathOps @@ IncDecOps
  @@ BufferFieldOps @@ LogicOps @@ QueryOps @@ ControlOps @@ MethodCallOps
  @@ InternalOps @@ SyncOps @@ DeviceOps
Ops == DOMAIN InlineOps \cup DOMAIN OutOfLineOps

\* uacpi_get_op_spec(op)->decode_ops.
Decode ==
  FoldSet(LAMBDA op, acc : acc @@ (op :> Layout((InlineOps @@ OutOfLineOps)[op])),
          <<>>, Ops)

\* enum uacpi_op_property: what an opcode may stand for, and the opcodes that
\* the byte stream must not hold.
SimpleNames ==
  {"UnresolvedNameString", "LocalOp", "ArgOp", "IndexOp", "InternalOpNamedObject"}
SuperNames == SimpleNames \cup {"DebugOp"}
Targets == {"ZeroOp", "DebugOp"}
ReservedOps ==
  Range(MethodCallOp) \cup {"InternalOpReadFieldAsBuffer",
                            "InternalOpReadFieldAsInteger", "InternalOpNamedObject"}
Statements ==
  {"AliasOp", "NameOp", "ScopeOp", "MethodOp", "ExternalOp", "NotifyOp",
   "CreateFieldOp", "ReservedExtOp", "MutexOp", "EventOp", "StallOp", "SleepOp",
   "SignalOp", "ResetOp", "ReleaseOp", "UnloadOp", "FatalOp", "Reserved",
   "Internal"}
  \cup DOMAIN ControlOps \cup DOMAIN BufferFieldOps
  \cup {"OpRegionOp", "DeviceOp", "ProcessorOp", "PowerResOp", "ThermalZoneOp",
        "DataRegionOp", "FieldOp", "BankFieldOp", "IndexFieldOp"}
TermArgs == Ops \ Statements

----------------------------------------------------------------------------
\* The parse ops that wait for another op's object, and what they take.
Arguments ==
  {"SIMPLE_NAME", "SUPERNAME", "SUPERNAME_OR_UNRESOLVED", "TERM_ARG",
   "TERM_ARG_UNWRAP_INTERNAL", "TERM_ARG_OR_NAMED_OBJECT",
   "TERM_ARG_OR_NAMED_OBJECT_OR_UNRESOLVED", "OPERAND", "STRING",
   "COMPUTATIONAL_DATA", "TARGET"}
op_wants_supername(p) ==
  p \in {"SIMPLE_NAME", "SUPERNAME", "SUPERNAME_OR_UNRESOLVED", "TARGET"}
op_wants_term_arg_or_operand(p) ==
  p \in {"TERM_ARG", "TERM_ARG_UNWRAP_INTERNAL", "OPERAND", "STRING",
         "COMPUTATIONAL_DATA"}
op_allows_unresolved(p) ==
  p \in {"SUPERNAME_OR_UNRESOLVED", "TERM_ARG_OR_NAMED_OBJECT_OR_UNRESOLVED",
         "EXISTING_NAMESTRING_OR_NULL"}
op_allows_unresolved_if_load(p) ==
  p \in {"CREATE_NAMESTRING_OR_NULL_IF_LOAD", "EXISTING_NAMESTRING_OR_NULL_IF_LOAD"}

\* op_typecheck: the opcodes a preempted parse op accepts.
op_typecheck(p) ==
  CASE p = "SIMPLE_NAME" -> SimpleNames
    [] p = "TARGET" -> Targets \cup SuperNames
    [] p \in {"SUPERNAME", "SUPERNAME_OR_UNRESOLVED"} -> SuperNames
    [] OTHER -> TermArgs
============================================================================
