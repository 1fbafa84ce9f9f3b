------------------------------ MODULE IsrEntry ------------------------------
(***************************************************************************)
(* The way of an interrupt or exception through the kernel: the CPU's      *)
(* frame, the stub of stub.asm that completes it, common_stub, the C       *)
(* handler of idt.c and the way back.  Maskable interrupts stay off, but   *)
(* an exception or an NMI may hit at any point, the stubs included.        *)
(***************************************************************************)
EXTENDS Integers, Sequences, SequencesExt

CONSTANTS
  Vectors,     \* the vectors the model raises, among 0..47
  ErrorCodes,  \* the error codes the CPU may push
  MaxDepth     \* bound on nesting

\* The exceptions for which the CPU pushes an error code, and the stubs
\* declared with ISR_EC.
CpuPushesError == {8, 10, 11, 12, 13, 14, 17, 21, 29, 30}
IsrEc == {8, 10, 11, 12, 13, 14, 17, 21, 29, 30}

PushOrder == <<"rax", "rbx", "rcx", "rdx", "rbp", "rdi", "rsi", "r8", "r9",
               "r10", "r11", "r12", "r13", "r14", "r15">>
PopOrderSwapped == <<"r15", "r14", "r13", "r12", "r11", "r10", "r9", "r8",
                     "rdi", "rsi", "rbp", "rdx", "rcx", "rbx", "rax">>  \* mutant
PopOrder == <<"r15", "r14", "r13", "r12", "r11", "r10", "r9", "r8", "rsi",
              "rdi", "rbp", "rdx", "rcx", "rbx", "rax">>
Registers == Range(PushOrder)
CalleeSaved == {"rbx", "rbp", "r12", "r13", "r14", "r15"}

\* The members of registers_t, lowest address first.
registers_t ==
  <<"rdx", "rcx", "rbx", "rax", "rsi", "rdi", "rbp", "rsp", "r15", "r14",
    "r13", "r12", "r11", "r10", "r9", "r8", "int_no", "err_code", "rip", "cs",
    "rflags", "user_rsp", "ss">>

VARIABLES
  pc,       \* what the CPU executes
  regs,     \* the general registers
  stack,    \* the stack, top first
  raised,   \* the vectors being handled with the contexts they interrupted,
            \* innermost first
  handled   \* the branches of interrupt_handler taken, innermost first

vars == <<pc, regs, stack, raised, handled>>

Depth == Len(raised)
Fresh(who) == [r \in Registers |-> <<who, r>>]

Init ==
  /\ pc = "running"
  /\ regs = Fresh("kernel")
  /\ stack = <<>>
  /\ raised = <<>>
  /\ handled = <<>>

\* The CPU aligns the stack to 16 bytes (two words) and pushes ss, rsp, rflags,
\* cs and rip, then an error code for some vectors.
Raise(v, code) ==
  /\ pc # "halted"
  /\ Depth < MaxDepth
  /\ LET pad   == IF Len(stack) % 2 = 1 THEN << <<"pad", 0>> >> ELSE <<>>
         frame == << <<"rip", pc>>, <<"cs", 0>>, <<"rflags", 0>>,
                     <<"rsp", Len(stack)>>, <<"ss", 0>> >>
         error == IF v \in CpuPushesError THEN << <<"code", code>> >> ELSE <<>>
     IN stack' = error \o frame \o pad \o stack
  /\ raised' = <<[vector |-> v, pc |-> pc, regs |-> regs, stack |-> stack]>>
               \o raised
  /\ handled' = <<"none">> \o handled
  /\ pc' = "isr"
  /\ UNCHANGED regs

\* isr<v>: "push 0" unless the CPU left an error code, then "push v".
Isr ==
  /\ pc = "isr"
  /\ LET v == Head(raised).vector
     IN stack' = << <<"vector", v>> >>
                 \o (IF v \in IsrEc THEN <<>> ELSE << <<"code", 0>> >>) \o stack
  /\ pc' = "common_stub"
  /\ UNCHANGED <<regs, raised, handled>>

CommonStub ==
  /\ pc = "common_stub"
  /\ stack' = Reverse([k \in DOMAIN PushOrder |-> regs[PushOrder[k]]]) \o stack
  /\ regs' = [regs EXCEPT !["rdi"] = <<"rsp", Len(stack')>>]
  /\ pc' = "interrupt_handler"
  /\ UNCHANGED <<raised, handled>>

\* What the handler reads through its registers_t pointer, rsp at the call.
FieldOf(name) == stack[CHOOSE k \in DOMAIN registers_t : registers_t[k] = name]
Holds(name, n) == FieldOf(name) \in {<<"vector", n>>, <<"code", n>>}

\* interrupt_handler: page_fault_handler ends in exception_handler, which
\* never returns; hpet_interrupt_handler finds its local hpet_base NULL.  The
\* compiled code keeps only the callee-saved registers.
InterruptHandler ==
  /\ pc = "interrupt_handler"
  /\ LET branch == IF Holds("int_no", 14) THEN "page_fault_handler"
                   ELSE IF Holds("int_no", 2) THEN "hpet_interrupt_handler"
                   ELSE "ignored"
     IN /\ handled' = <<branch>> \o Tail(handled)
        /\ pc' = IF branch = "page_fault_handler" THEN "halted" ELSE "restore"
        /\ regs' = [r \in Registers |-> IF r \in CalleeSaved THEN regs[r]
                                        ELSE <<"handler", r>>]
  /\ UNCHANGED <<stack, raised>>

\* The pops, and "add rsp, 16" over the vector and the error code.
Restore ==
  /\ pc = "restore"
  /\ LET n == Len(PopOrder)
     IN /\ regs' = [r \in Registers |->
                      stack[CHOOSE k \in 1..n : PopOrder[k] = r]]
        /\ stack' = SubSeq(stack, n + 3, Len(stack))
  /\ pc' = "iretq"
  /\ UNCHANGED <<raised, handled>>

\* iretq pops rip, cs, rflags and the rsp to go back to.
Iretq ==
  /\ pc = "iretq"
  /\ pc' = stack[1][2]
  /\ LET rsp == stack[4][2]
     IN stack' = SubSeq(stack, Len(stack) - rsp + 1, Len(stack))
  /\ raised' = Tail(raised)
  /\ handled' = Tail(handled)
  /\ UNCHANGED regs

Halted == pc = "halted" /\ UNCHANGED vars

Next ==
  \/ \E v \in Vectors, code \in ErrorCodes : Raise(v, code)
  \/ Isr \/ CommonStub \/ InterruptHandler \/ Restore \/ Iretq \/ Halted

Spec == Init /\ [][Next]_vars

----------------------------------------------------------------------------
\* Wherever an exception hits, the stubs included, and however deep they nest,
\* iretq resumes the interrupted code at its instruction, with its registers
\* and its stack.
ContextRestored ==
  [][Len(raised') < Len(raised) =>
       /\ pc' = Head(raised).pc
       /\ regs' = Head(raised).regs
       /\ stack' = Head(raised).stack]_vars

\* idt.c:39, "Interrupt number and error code": the handler finds the vector
\* in regs->int_no.
HandlerSeesVector ==
  pc = "interrupt_handler" => Holds("int_no", Head(raised).vector)
============================================================================
