------------------------------- MODULE MCAml -------------------------------
(***************************************************************************)
(* Small AML programs for Interpreter: structured code, which is assembled *)
(* here and also evaluated by its structure, and pairs of methods that     *)
(* take mutexes, sleep, call each other and create names.                  *)
(***************************************************************************)
EXTENDS Interpreter, ParseVm

CONSTANTS t1, t2, none

Tok(op, x) == [op |-> op, x |-> x]
NameTok(n) == Tok("UnresolvedNameString", n)
Local(k) == Tok("LocalOp", k)
Imm(v) == Tok("imm", v)

\* The tokens of a block of statements that starts at an offset.
RECURSIVE Assemble(_, _)
Assemble(block, off) ==
  IF block = <<>> THEN <<>>
  ELSE LET s == Head(block)
           nested(k, at) == Assemble(s[k], at)
           code ==
             CASE s[1] = "inc" -> << Tok("IncrementOp", 0), Local(1) >>
               [] s[1] = "dec" -> << Tok("DecrementOp", 0), Local(0) >>
               [] s[1] = "break" -> << Tok("BreakOp", 0) >>
               [] s[1] = "continue" -> << Tok("ContinueOp", 0) >>
               [] s[1] = "return" -> << Tok("ReturnOp", 0), Local(1) >>
               [] s[1] = "noop" -> << Tok("NoopOp", 0) >>
               [] s[1] = "set" ->
                    << Tok("StoreOp", 0), Tok("BytePrefix", 0), Imm(s[3]), Local(s[2]) >>
               [] s[1] = "addone" ->
                    << Tok("StoreOp", 0), NameTok("ADD1"), Local(1), Local(1) >>
               [] s[1] = "while" ->
                    LET body == nested(2, off + 3)
                    IN << Tok("WhileOp", 0), Tok("pkg", off + 3 + Len(body)), Local(0) >>
                       \o body
               [] s[1] = "if" ->
                    LET body == nested(2, off + 3)
                    IN << Tok("IfOp", 0), Tok("pkg", off + 3 + Len(body)), Local(0) >>
                       \o body
               [] s[1] = "ifelse" ->
                    LET body == nested(2, off + 3)
                        mid == off + 3 + Len(body)
                        other == nested(3, mid + 2)
                    IN << Tok("IfOp", 0), Tok("pkg", mid), Local(0) >> \o body
                       \o << Tok("ElseOp", 0), Tok("pkg", mid + 2 + Len(other)) >>
                       \o other
               [] s[1] = "acquire" ->
                    << Tok("AcquireOp", 0), NameTok(s[2]), Imm(s[3]) >>
               [] s[1] = "release" -> << Tok("ReleaseOp", 0), NameTok(s[2]) >>
               [] s[1] = "sleep" -> << Tok("SleepOp", 0), Tok("OneOp", 0) >>
               [] s[1] = "call" -> << NameTok(s[2]) >>
               [] s[1] = "name" -> << Tok("NameOp", 0), NameTok(s[2]), Tok("OnesOp", 0) >>
               [] s[1] = "ifname" ->
                    LET body == nested(3, off + 3)
                    IN << Tok("IfOp", 0), Tok("pkg", off + 3 + Len(body)), NameTok(s[2]) >>
                       \o body
               [] s[1] = "namecall" -> << Tok("NameOp", 0), NameTok(s[2]), NameTok(s[3]) >>
       IN code \o Assemble(Tail(block), off + Len(code))

Method(ast) ==
  [type |-> "METHOD", code |-> Assemble(ast, 0), ast |-> ast, args |-> 0,
   is_serialized |-> FALSE, sync_level |-> 0, named_objects_persist |-> FALSE]
Add1 == [Method(<<>>) EXCEPT !.args = 1,
           !.code = << Tok("IncrementOp", 0), Tok("ArgOp", 0),
                       Tok("ReturnOp", 0), Tok("ArgOp", 0) >>]

----------------------------------------------------------------------------
\* What structured code means.
RECURSIVE Run(_, _), Loop(_, _, _)
Run(block, s) ==
  IF block = <<>> \/ s.sig # "next" THEN s
  ELSE LET st == Head(block)
           after ==
             CASE st[1] = "inc" -> [s EXCEPT !.l1 = (@ + 1) % (Ones + 1)]
               [] st[1] = "dec" -> [s EXCEPT !.l0 = (@ - 1) % (Ones + 1)]
               [] st[1] = "addone" -> [s EXCEPT !.l1 = (@ + 1) % (Ones + 1)]
               [] st[1] = "set" -> IF st[2] = 0 THEN [s EXCEPT !.l0 = st[3]]
                                   ELSE [s EXCEPT !.l1 = st[3]]
               [] st[1] = "noop" -> s
               [] st[1] \in {"break", "continue", "return"} -> [s EXCEPT !.sig = st[1]]
               [] st[1] = "if" -> IF s.l0 # 0 THEN Run(st[2], s) ELSE s
               [] st[1] = "ifelse" -> Run(IF s.l0 # 0 THEN st[2] ELSE st[3], s)
               [] st[1] = "while" -> Loop(st[2], s, s.clock + loop_timeout)
       IN Run(Tail(block), after)
Loop(body, s, until) ==
  CASE s.l0 = 0 -> s
    [] s.l0 # 0 /\ s.clock > until -> [s EXCEPT !.sig = "abort"]
    [] OTHER ->
         LET r == Run(body, [s EXCEPT !.clock = @ + 1])
         IN CASE r.sig \in {"next", "continue"} -> Loop(body, [r EXCEPT !.sig = "next"], until)
              [] r.sig = "break" -> [r EXCEPT !.sig = "next"]
              [] OTHER -> r
Meaning(ast) == Run(ast, [l0 |-> 0, l1 |-> 0, clock |-> 0, sig |-> "next"])

\* A method whose code is structured does what its structure says: the same
\* value comes back, or it is aborted for a Break or a Continue outside of any
\* loop, or for a loop that is still running past the time it was given.
ControlFlow ==
  ex[t1].at = "done" /\ "MAIN" \in DOMAIN prog /\ prog["MAIN"].ast # <<>> =>
    LET m == Meaning(prog["MAIN"].ast)
    IN CASE m.sig = "return" -> ex[t1].status = "OK" /\ ex[t1].ret = m.l1
         [] m.sig = "next" -> ex[t1].status = "OK" /\ ex[t1].ret = Uninit
         [] OTHER -> ex[t1].status # "OK"

----------------------------------------------------------------------------
Simple == {<<"inc">>, <<"dec">>, <<"break">>, <<"continue">>, <<"return">>}
Upto(S, n) == UNION {[1..k -> S] : k \in 0..n}
Flat == Simple \cup {<<"if", b>> : b \in Upto(Simple, 1)}
        \cup {<<"ifelse", <<s>>, <<u>> >> : s, u \in Simple}
        \cup {<<"while", b>> : b \in Upto(Simple, 2)}
Nested == {<<"while", <<s, u>> >> : s \in Flat, u \in Simple}
          \cup {<<"if", <<s>> >> : s \in Flat} \cup Flat
Structured ==
  { << <<"set", 0, c[1]>>, <<"set", 1, 0>>, c[2], <<"addone">>, <<"return">>, <<"noop">> >> :
      c \in ({0} \X Flat) \cup ({2} \X Nested) }
StructuredPrograms ==
  { [MAIN |-> Method(ast), ADD1 |-> Add1] : ast \in Structured }


Mutex(level) == [type |-> "MUTEX", sync_level |-> level, is_serialized |-> FALSE]
Racy ==
  { <<"acquire", "MTXA", 65535>>, <<"acquire", "MTXC", 1>>, <<"release", "MTXA">>,
    <<"release", "MTXC">>, <<"call", "SER">>, <<"sleep">>, <<"name", "X">>, <<"break">> }
RacyPrograms(serialized) ==
  { [MAIN |-> [Method(<<s, u>>) EXCEPT !.ast = <<>>],
     OTHR |-> Method(<< <<"acquire", "MTXA", 65535>>, <<"call", "SER">> >>),
     TABL |-> [Method(<< <<"name", "X">>, <<"ifname", "GONE", << <<"name", "Y">> >> >>,
                        <<"call", "SER">>, <<"name", "X">> >>)
               EXCEPT !.named_objects_persist = TRUE],
     SER |-> [Method(serialized) EXCEPT !.is_serialized = TRUE, !.sync_level = 2],
     ADD1 |-> Add1, MTXA |-> Mutex(1), MTXC |-> Mutex(3)] : s, u \in Racy }
\* What the serialized method does, and what the second thread calls.
Races ==
  { << << <<"sleep">> >>, "OTHR">>, << << <<"sleep">> >>, "SER">>,
    << << <<"acquire", "MTXA", 65535>>, <<"sleep">> >>, "OTHR">>,
    << << <<"acquire", "MTXC", 1>>, <<"break">> >>, "TABL">>,
    << << <<"call", "SER">> >>, "TABL">>, << << <<"acquire", "MTXC", 1>> >>, "ADD1">> }
Calls(m) == {[t \in {t1, t2} |-> IF t = t1 THEN "MAIN" ELSE m]}

\* Either one op on all the operands it may meet, or whole programs.
NothingRuns == InterpreterInit({<<>>}, {[t \in {t1, t2} |-> "none"]})
VmIdle ==
  vm = [op |-> "NoopOp", pc |-> 0, items |-> <<>>, tracked |-> 0, from |-> "none",
        prev |-> "none", load |-> FALSE, out |-> 0, status |-> "end"]
MCInit ==
  \/ VmInit /\ NothingRuns
  \/ VmIdle /\ InterpreterInit(StructuredPrograms, Calls("none"))
  \/ VmIdle /\ \E race \in Races : InterpreterInit(RacyPrograms(race[1]), Calls(race[2]))
Done ==
  /\ CreateErrorsOut => \A t \in Threads : ex[t].at = "done"
  /\ vm.status # "run" /\ UNCHANGED <<ivars, vm>>
MCNext ==
  \/ (\E t \in Threads : InterpreterStep(t)) /\ UNCHANGED vm
  \/ VmNext /\ UNCHANGED ivars
  \/ Done
MCSpec == MCInit /\ [][MCNext]_<<ivars, vm>> /\ WF_<<ivars, vm>>(MCNext)
============================================================================
