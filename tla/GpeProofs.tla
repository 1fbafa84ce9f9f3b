------------------------------- MODULE GpeProofs -------------------------------
(***************************************************************************)
(* Theorems about the general purpose events, for every set of events, of  *)
(* slots for deferred work, of methods and handlers, and every bound on    *)
(* calls, interrupts and failures: the masks agree with the users, a       *)
(* masked event stays off, nobody is in an event whose handler changes,    *)
(* and no event in use is silenced.                                        *)
(*                                                                         *)
(* The proof treats the runners and the API alike.  StepKeeps and          *)
(* ReturnKeeps say what it takes for a step of a runner, and for the last  *)
(* step of a call, to keep the inductive invariant; each action is then    *)
(* shown to be such a step.                                                *)
(***************************************************************************)
EXTENDS Gpe, WellFoundedInduction, FiniteSetTheorems, TLAPS

(***************************************************************************)
(* The lowest event of a set, and the turn of detect_gpes to it.           *)
(***************************************************************************)
\* A set of numbers that is not empty has a least one.
LEMMA LeastExists ==
    ASSUME NEW T \in SUBSET Nat, T # {}
    PROVE  \E x \in T : \A y \in T : x <= y
<1>1. PICK x \in T : \A y \in T : <<y, x>> \notin OpToRel(<, Nat)
  BY NatLessThanWellFounded, WFMin
<1>2. \A y \in T : ~(y < x)
  BY <1>1 DEF OpToRel
<1> QED
  BY <1>2

\* detect_gpes goes on with an event of those left, and rests when there is none.
LEMMA TurnFits ==
    ASSUME NEW todo \in SUBSET Gpes, NEW x, x = Turn(todo)
    PROVE  /\ DOMAIN x = {"pc", "e", "todo", "unblock"} /\ ~x.unblock
           /\ x.todo \subseteq todo
           /\ \/ x.pc = "idle" /\ x.e = None /\ x.todo = {}
              \/ x.pc = "disable" /\ x.e \in todo
<1>1. CASE todo = {}
  BY <1>1 DEF Turn, Resting
<1>2. CASE todo # {}
  <2>1. Min(todo) \in todo
    BY <1>2, LeastExists, NamesAssumption DEF Min
  <2> QED
    BY <1>2, <2>1 DEF Turn, Resting
<1> QED
  BY <1>1, <1>2

(***************************************************************************)
(* A step of a runner.                                                     *)
(***************************************************************************)
\* What a step of runner r leaves alone, but for what it is on itself.
RunnerFrame(r) ==
    /\ DOMAIN run' = Runners /\ \A q \in Runners \ {r} : run'[q] = run[q]
    /\ run[r].pc # "idle" \/ r # "api"
    /\ api' = api /\ flush' = flush /\ awake' = awake
    /\ kept' \subseteq Gpes
    /\ faults' \in Nat /\ (faults' = 0 => faults = 0)
BlockFrame ==
    /\ block'.masked = block.masked /\ block'.runtime = block.runtime
    /\ block'.current = block.current
    /\ \A f \in Gpes : block'.event[f].type = block.event[f].type

\* It writes a bit only past the test of the masks, passes the test only for
\* an event that is not masked, and turns to an event only if it is enabled.
StepSafe(r) ==
    /\ run'[r].pc = "write" => At(r, "write") \/ run'[r].e \notin block.masked
    /\ run'[r].pc = "write" /\ At(r, "write") => run'[r].e = run[r].e
    /\ block'.enable \subseteq block.enable \cup IF At(r, "write") THEN {run[r].e} ELSE {}
    /\ r # "api" => \A f \in Gpes : Busy(r, f)' => Busy(r, f) \/ f \in block.enable

\* It blocks the interrupts of what it holds, disables what it goes on to
\* enable, and lets go of neither unless the event is kept.
StepFair(r) ==
    faults' = 0 => \A f \in Gpes :
      /\ block'.event[f].block_interrupts =>
           \/ f \in kept' \/ Holds(r, f)'
           \/ block.event[f].block_interrupts /\ f \notin kept /\ ~Holds(r, f)
      /\ f \in kept /\ f \notin block.current => f \in kept'
      /\ f \in kept' \/ f \in block'.enable \/ Owes(r, f)'
         \/ (f \notin kept /\ ~Owes(r, f) /\ f \notin block.enable)
         \/ f \in block.masked \/ f \notin block.runtime \/ ~awake

\* Such a step keeps the invariant.
LEMMA StepKeeps ==
    ASSUME IInv, NEW r \in Runners, RunnerFrame(r), BlockFrame, BlockTyped(block)',
           RunnerTyped(r)', StepSafe(r), StepFair(r)
    PROVE  IInv'
<1> USE DEF IInv
<1>0. /\ Typed /\ ApiTyped /\ \A q \in Runners : RunnerTyped(q)
      /\ "api" \in Runners /\ Slots \subseteq Runners \ {"sci", "api"}
  BY NamesAssumption DEF Typed, Runners
<1>t. api.pc # "idle" => r # "api"
  BY <1>0 DEF RunnerFrame, ApiTyped, At
<1>n. api.flushed => api.pc # "idle" /\ Target \subseteq Gpes
  BY <1>0 DEF ApiTyped, NoCall, Target, TargetOf
<1>1. Typed'
  <2>1. \A q \in Runners \ {r} : RunnerTyped(q)'
    BY <1>0 DEF RunnerFrame, RunnerTyped
  <2>2. ApiTyped'
    BY <1>0, <1>t DEF RunnerFrame, BlockFrame, ApiTyped, At, NoCall
  <2> QED
    BY <1>0, <2>1, <2>2 DEF Typed, RunnerFrame, Runners
<1>2. TargetMasked'
  BY DEF TargetMasked, RunnerFrame, BlockFrame, Target, TargetOf
<1>3. WriteWaited'
  <2> SUFFICES ASSUME NEW q \in Runners, run'[q].pc = "write", run'[q].e \in block.masked
               PROVE  /\ api.pc \in {"wait_irq", "wait_work"} /\ ~api.flushed
                      /\ run'[q].e \in Target
                      /\ api.pc = "wait_work" => q \in flush
    BY DEF WriteWaited, RunnerFrame, BlockFrame, At, Target, TargetOf
  <2>1. run[q].pc = "write" /\ run'[q].e = run[q].e
    BY DEF StepSafe, RunnerFrame, At
  <2> QED
    BY <2>1 DEF WriteWaited, At
<1>4. MaskedOff'
  <2> SUFFICES ASSUME awake, faults = 0, NEW e \in block.masked \cap block'.enable
               PROVE  /\ api.pc \in {"wait_irq", "wait_work", "off"} /\ e \in Target
                      /\ ~api.flushed \/ api.pc = "off"
    BY DEF MaskedOff, RunnerFrame, BlockFrame, Target, TargetOf
  <2>1. e \in block.enable \/ (At(r, "write") /\ run[r].e = e)
    BY DEF StepSafe
  <2> QED
    BY <2>1 DEF MaskedOff, WriteWaited
<1>5. TargetOff'
  <2> SUFFICES ASSUME faults = 0, api.flushed, api.pc # "off", NEW e \in Target
               PROVE  e \notin block'.enable
    BY DEF TargetOff, RunnerFrame, Target, TargetOf
  <2>1. e \notin block.enable
    BY DEF TargetOff
  <2>2. e \in block.masked
    BY DEF TargetMasked
  <2>3. ~(At(r, "write") /\ run[r].e = e)
    BY <2>2 DEF WriteWaited
  <2> QED
    BY <2>1, <2>3 DEF StepSafe
<1>6. TargetLeft'
  <2> SUFFICES ASSUME faults = 0, api.flushed, NEW e \in Target,
                      NEW q \in Runners \ {"api"}, Busy(q, e)'
               PROVE  /\ api.pc = "wait_work" => q \in flush
                      /\ api.pc # "swap"
    BY DEF TargetLeft, RunnerFrame, Target, TargetOf
  <2>1. CASE Busy(q, e)
    BY <2>1 DEF TargetLeft
  <2>2. CASE ~Busy(q, e)
    <3>1. e \in block.enable
      BY <2>2, <1>n DEF StepSafe, RunnerFrame, Busy, At
    <3> QED
      BY <3>1 DEF TargetOff
  <2> QED
    BY <2>1, <2>2
<1>7. BlockedBy'
  <2> SUFFICES ASSUME faults' = 0, faults = 0, NEW f \in Gpes,
                      block'.event[f].block_interrupts, f \notin kept', ~Holds(r, f)'
               PROVE  \E q \in Runners : Holds(q, f)'
    BY DEF BlockedBy, RunnerFrame
  <2>1. block.event[f].block_interrupts /\ f \notin kept /\ ~Holds(r, f)
    BY DEF StepFair
  <2>2. PICK q \in Runners : Holds(q, f)
    BY <2>1 DEF BlockedBy
  <2>3. Holds(q, f)'
    BY <2>1, <2>2 DEF Holds, RunnerFrame
  <2> QED
    BY <2>3
<1>8. CurrentUsed'
  <2> SUFFICES ASSUME awake, faults' = 0, faults = 0,
                      NEW f \in block.runtime \ block.current
               PROVE  f \in kept'
    BY DEF CurrentUsed, RunnerFrame, BlockFrame
  <2>1. f \in Gpes /\ f \in kept
    BY <1>0 DEF CurrentUsed, Typed, BlockTyped
  <2> QED
    BY <2>1 DEF StepFair
<1>9. EnabledOrOwed'
  <2> SUFFICES ASSUME awake, faults' = 0, faults = 0,
                      NEW f \in block.runtime \ (block.masked \cup kept'),
                      f \notin block'.enable, ~Owes(r, f)'
               PROVE  \E q \in Runners : Owes(q, f)'
    BY DEF EnabledOrOwed, RunnerFrame, BlockFrame
  <2>1. f \in Gpes
    BY <1>0 DEF Typed, BlockTyped
  <2>2. f \notin kept /\ ~Owes(r, f) /\ f \notin block.enable
    BY <2>1 DEF StepFair
  <2>3. PICK q \in Runners : Owes(q, f)
    BY <2>2 DEF EnabledOrOwed
  <2>4. Owes(q, f)'
    BY <2>2, <2>3 DEF Owes, RunnerFrame
  <2> QED
    BY <2>4
<1> QED
  BY <1>1, <1>2, <1>3, <1>4, <1>5, <1>6, <1>7, <1>8, <1>9

(***************************************************************************)
(* A call that is one step, or the last step of a longer one.              *)
(***************************************************************************)
\* The API leaves a runner of its own behind, at the head of a restore, a
\* poll or a detection.
ReturnFrame ==
    /\ api.pc \in {"idle", "swap"} /\ At("api", "idle") /\ api' = NoCall
    /\ DOMAIN run' = Runners /\ \A q \in Runners \ {"api"} : run'[q] = run[q]
    /\ run'["api"].pc # "write"
    /\ flush' = flush /\ kept' \subseteq Gpes
    /\ faults' \in Nat /\ (faults' = 0 => faults = 0)

\* It masks nothing, enables nothing that is masked, and keeps what it blocks
\* or takes out of current_mask or of use.
ReturnSafe ==
    /\ block'.masked \subseteq block.masked
    /\ awake' /\ faults' = 0 => block'.masked \cap block'.enable = {}
ReturnFair ==
    faults' = 0 =>
      /\ \A f \in Gpes : block'.event[f].block_interrupts =>
           f \in kept' \/ Holds("api", f)' \/ \E q \in Runners : Holds(q, f)
      /\ awake' => block'.runtime \ block'.current \subseteq kept'
      /\ awake' => \A f \in block'.runtime \ (block'.masked \cup kept') :
           f \in block'.enable \/ Owes("api", f)' \/ \E q \in Runners : Owes(q, f)

\* Such a call keeps the invariant.
LEMMA ReturnKeeps ==
    ASSUME IInv, ReturnFrame, BlockTyped(block)', RunnerTyped("api")', ReturnSafe, ReturnFair
    PROVE  IInv'
<1> USE DEF IInv
<1>0. /\ Typed /\ ApiTyped /\ \A q \in Runners : RunnerTyped(q)
      /\ "api" \in Runners /\ Slots \subseteq Runners \ {"sci", "api"}
  BY NamesAssumption DEF Typed, Runners
<1>n. api'.pc = "idle" /\ ~api'.flushed /\ api'.op = "none"
  BY DEF ReturnFrame, NoCall
<1>1. Typed'
  <2>1. \A q \in Runners \ {"api"} : RunnerTyped(q)'
    BY <1>0 DEF ReturnFrame, RunnerTyped
  <2>2. ApiTyped'
    BY <1>0 DEF ReturnFrame, ApiTyped, NoCall
  <2> QED
    BY <1>0, <2>1, <2>2 DEF Typed, ReturnFrame, Runners
<1>2. TargetMasked'
  BY <1>n DEF TargetMasked
<1>3. WriteWaited'
  <2> SUFFICES ASSUME NEW q \in Runners, run'[q].pc = "write", run'[q].e \in block'.masked
               PROVE  FALSE
    BY DEF WriteWaited, At
  <2>1. run[q].pc = "write" /\ run[q].e \in block.masked
    BY DEF ReturnFrame, ReturnSafe
  <2> QED
    BY <2>1 DEF WriteWaited, At, ReturnFrame
<1>4. MaskedOff'
  BY DEF MaskedOff, ReturnSafe
<1>5. TargetOff'
  BY <1>n DEF TargetOff
<1>6. TargetLeft'
  BY <1>n DEF TargetLeft
<1>7. BlockedBy'
  <2> SUFFICES ASSUME faults' = 0, NEW f \in Gpes,
                      block'.event[f].block_interrupts, f \notin kept', ~Holds("api", f)'
               PROVE  \E q \in Runners : Holds(q, f)'
    BY <1>0 DEF BlockedBy
  <2>1. PICK q \in Runners : Holds(q, f)
    BY DEF ReturnFair
  <2>2. Holds(q, f)'
    BY <2>1 DEF Holds, ReturnFrame, At
  <2> QED
    BY <2>2
<1>8. CurrentUsed'
  BY DEF CurrentUsed, ReturnFair
<1>9. EnabledOrOwed'
  <2> SUFFICES ASSUME awake', faults' = 0,
                      NEW f \in block'.runtime \ (block'.masked \cup kept'),
                      f \notin block'.enable, ~Owes("api", f)'
               PROVE  \E q \in Runners : Owes(q, f)'
    BY <1>0 DEF EnabledOrOwed
  <2>1. PICK q \in Runners : Owes(q, f)
    BY DEF ReturnFair
  <2>2. Owes(q, f)'
    BY <2>1 DEF Owes, ReturnFrame, At
  <2> QED
    BY <2>2
<1> QED
  BY <1>1, <1>2, <1>3, <1>4, <1>5, <1>6, <1>7, <1>8, <1>9

(***************************************************************************)
(* The steps of dispatch_gpe and restore_gpe.                              *)
(***************************************************************************)
\* detect_gpes reads the status bits, or stops when nothing is in use.
LEMMA ReadStatusKeeps == ASSUME IInv, NEW r \in Runners, ReadStatus(r) PROVE IInv'
<1>0. /\ RunnerTyped(r) /\ BlockTyped(block) /\ DOMAIN run = Runners
      /\ kept \subseteq Gpes /\ faults \in Nat
  BY DEF IInv, Typed
<1>1. RunnerFrame(r)
  BY <1>0, NamesAssumption DEF ReadStatus, At, Goto, Finish, rest, Resting, RunnerFrame, RunnerTyped
<1>2. BlockFrame
  BY <1>0 DEF ReadStatus, At, Goto, Finish, rest, Resting, BlockFrame, BlockTyped, RunnerTyped, EventTyped
<1>3. BlockTyped(block)'
  BY <1>0, NamesAssumption DEF ReadStatus, At, Goto, Finish, rest, Resting, BlockTyped, RunnerTyped, EventTyped, Users
<1>4. RunnerTyped(r)'
  BY <1>0, NamesAssumption DEF ReadStatus, At, Goto, Finish, rest, Resting, RunnerTyped, BlockTyped
<1>5. StepSafe(r)
  BY <1>0, NamesAssumption DEF ReadStatus, At, Goto, Finish, rest, Resting, StepSafe, RunnerTyped, BlockTyped, Busy
<1>6. StepFair(r)
  BY <1>0 DEF ReadStatus, At, Goto, Finish, rest, Resting, StepFair, Holds, Owes, RunnerTyped, BlockTyped, EventTyped, IInv, CurrentUsed
<1> QED
  BY <1>1, <1>2, <1>3, <1>4, <1>5, <1>6, StepKeeps

\* It reads the enable bits and turns to the events that are raised and enabled.
LEMMA ReadEnableKeeps == ASSUME IInv, NEW r \in Runners, ReadEnable(r) PROVE IInv'
<1>0. /\ RunnerTyped(r) /\ BlockTyped(block) /\ DOMAIN run = Runners
      /\ kept \subseteq Gpes /\ faults \in Nat
  BY DEF IInv, Typed
<1> DEFINE x == Turn(run[r].todo \cap block.enable)
<1>x. /\ DOMAIN x = {"pc", "e", "todo", "unblock"} /\ ~x.unblock
      /\ x.todo \subseteq run[r].todo \cap block.enable
      /\ \/ x.pc = "idle" /\ x.e = None /\ x.todo = {}
         \/ x.pc = "disable" /\ x.e \in run[r].todo \cap block.enable
  BY SMTT(30), <1>0, TurnFits DEF RunnerTyped
<1> HIDE DEF x
<1>1. RunnerFrame(r)
  BY <1>0, NamesAssumption DEF ReadEnable, At, Goto, Finish, rest, RunnerFrame, RunnerTyped
<1>2. BlockFrame
  BY <1>0, <1>x DEF ReadEnable, At, Goto, Finish, rest, BlockFrame, BlockTyped, RunnerTyped, EventTyped
<1>3. BlockTyped(block)'
  BY <1>0, <1>x, NamesAssumption DEF ReadEnable, At, Goto, Finish, rest, BlockTyped, RunnerTyped, EventTyped, Users
<1>4. RunnerTyped(r)'
  BY <1>0, <1>x, NamesAssumption DEF ReadEnable, At, Goto, Finish, rest, RunnerTyped, BlockTyped, x
<1>5. StepSafe(r)
  BY <1>0, <1>x, NamesAssumption DEF ReadEnable, At, Goto, Finish, rest, StepSafe, RunnerTyped, BlockTyped, Busy, x
<1>6. StepFair(r)
  BY <1>0, <1>x DEF ReadEnable, At, Goto, Finish, rest, StepFair, Holds, Owes, RunnerTyped, BlockTyped, EventTyped, IInv, CurrentUsed, x
<1> QED
  BY <1>1, <1>2, <1>3, <1>4, <1>5, <1>6, StepKeeps

\* A read that fails ends the detection.
LEMMA ReadFailsKeeps == ASSUME IInv, NEW r \in Runners, ReadFails(r) PROVE IInv'
<1>0. /\ RunnerTyped(r) /\ BlockTyped(block) /\ DOMAIN run = Runners
      /\ kept \subseteq Gpes /\ faults \in Nat
  BY DEF IInv, Typed
<1>1. RunnerFrame(r)
  BY <1>0, NamesAssumption DEF ReadFails, At, Goto, Finish, rest, Access, Resting, RunnerFrame, RunnerTyped
<1>2. BlockFrame
  BY <1>0 DEF ReadFails, At, Goto, Finish, rest, Access, Resting, BlockFrame, BlockTyped, RunnerTyped, EventTyped
<1>3. BlockTyped(block)'
  BY <1>0, NamesAssumption DEF ReadFails, At, Goto, Finish, rest, Access, Resting, BlockTyped, RunnerTyped, EventTyped, Users
<1>4. RunnerTyped(r)'
  BY <1>0, NamesAssumption DEF ReadFails, At, Goto, Finish, rest, Access, Resting, RunnerTyped, BlockTyped
<1>5. StepSafe(r)
  BY <1>0, NamesAssumption DEF ReadFails, At, Goto, Finish, rest, Access, Resting, StepSafe, RunnerTyped, BlockTyped, Busy
<1>6. StepFair(r)
  BY <1>0 DEF ReadFails, At, Goto, Finish, rest, Access, Resting, StepFair, Holds, Owes, RunnerTyped, BlockTyped, EventTyped, IInv, CurrentUsed
<1> QED
  BY <1>1, <1>2, <1>3, <1>4, <1>5, <1>6, StepKeeps

\* maybe_dispatch_gpe looks at the status of one event.
LEMMA PollKeeps == ASSUME IInv, NEW r \in Runners, Poll(r) PROVE IInv'
<1>0. /\ RunnerTyped(r) /\ BlockTyped(block) /\ DOMAIN run = Runners
      /\ kept \subseteq Gpes /\ faults \in Nat
  BY DEF IInv, Typed
<1> DEFINE x == Turn(run[r].todo)
<1>x. /\ DOMAIN x = {"pc", "e", "todo", "unblock"} /\ ~x.unblock
      /\ x.todo \subseteq run[r].todo
      /\ \/ x.pc = "idle" /\ x.e = None /\ x.todo = {}
         \/ x.pc = "disable" /\ x.e \in run[r].todo
  BY <1>0, TurnFits DEF RunnerTyped
<1> HIDE DEF x
<1>1. RunnerFrame(r)
  BY <1>0, NamesAssumption DEF Poll, At, Goto, Finish, rest, RunnerFrame, RunnerTyped
<1>2. BlockFrame
  BY <1>0, <1>x DEF Poll, At, Goto, Finish, rest, BlockFrame, BlockTyped, RunnerTyped, EventTyped
<1>3. BlockTyped(block)'
  BY <1>0, <1>x, NamesAssumption DEF Poll, At, Goto, Finish, rest, BlockTyped, RunnerTyped, EventTyped, Users
<1>4. RunnerTyped(r)'
  BY <1>0, <1>x, NamesAssumption DEF Poll, At, Goto, Finish, rest, RunnerTyped, BlockTyped, x
<1>5. StepSafe(r)
  BY <1>0, <1>x, NamesAssumption DEF Poll, At, Goto, Finish, rest, StepSafe, RunnerTyped, BlockTyped, Busy, x
<1>6. StepFair(r)
  BY <1>0, <1>x DEF Poll, At, Goto, Finish, rest, StepFair, Holds, Owes, RunnerTyped, BlockTyped, EventTyped, IInv, CurrentUsed, x
<1> QED
  BY <1>1, <1>2, <1>3, <1>4, <1>5, <1>6, StepKeeps

\* A raw handler has cleared its event.
LEMMA CallRawKeeps == ASSUME IInv, NEW r \in Runners, CallRaw(r) PROVE IInv'
<1>0. /\ RunnerTyped(r) /\ BlockTyped(block) /\ DOMAIN run = Runners
      /\ kept \subseteq Gpes /\ faults \in Nat
  BY DEF IInv, Typed
<1> DEFINE x == Turn(run[r].todo)
<1>x. /\ DOMAIN x = {"pc", "e", "todo", "unblock"} /\ ~x.unblock
      /\ x.todo \subseteq run[r].todo
      /\ \/ x.pc = "idle" /\ x.e = None /\ x.todo = {}
         \/ x.pc = "disable" /\ x.e \in run[r].todo
  BY <1>0, TurnFits DEF RunnerTyped
<1> HIDE DEF x
<1>1. RunnerFrame(r)
  BY <1>0, NamesAssumption DEF CallRaw, At, Goto, Finish, rest, clear_gpe, Ev, RunnerFrame, RunnerTyped
<1>2. BlockFrame
  BY <1>0, <1>x DEF CallRaw, At, Goto, Finish, rest, clear_gpe, Ev, BlockFrame, BlockTyped, RunnerTyped, EventTyped
<1>3. BlockTyped(block)'
  BY <1>0, <1>x, NamesAssumption DEF CallRaw, At, Goto, Finish, rest, clear_gpe, Ev, BlockTyped, RunnerTyped, EventTyped, Users
<1>4. RunnerTyped(r)'
  BY <1>0, <1>x, NamesAssumption DEF CallRaw, At, Goto, Finish, rest, clear_gpe, Ev, RunnerTyped, BlockTyped, x
<1>5. StepSafe(r)
  BY <1>0, <1>x, NamesAssumption DEF CallRaw, At, Goto, Finish, rest, clear_gpe, Ev, StepSafe, RunnerTyped, BlockTyped, Busy, x
<1>6. StepFair(r)
  BY <1>0, <1>x DEF CallRaw, At, Goto, Finish, rest, clear_gpe, Ev, StepFair, Holds, Owes, RunnerTyped, BlockTyped, EventTyped, IInv, CurrentUsed, x
<1> QED
  BY <1>1, <1>2, <1>3, <1>4, <1>5, <1>6, StepKeeps

\* dispatch_gpe disables the event it is on its way to enable again.
LEMMA DisableKeeps == ASSUME IInv, NEW r \in Runners, NEW ok \in BOOLEAN, Disable(r, ok) PROVE IInv'
<1>0. /\ RunnerTyped(r) /\ BlockTyped(block) /\ DOMAIN run = Runners
      /\ kept \subseteq Gpes /\ faults \in Nat
  BY DEF IInv, Typed
<1> DEFINE x == Turn(run[r].todo)
<1>x. /\ DOMAIN x = {"pc", "e", "todo", "unblock"} /\ ~x.unblock
      /\ x.todo \subseteq run[r].todo
      /\ \/ x.pc = "idle" /\ x.e = None /\ x.todo = {}
         \/ x.pc = "disable" /\ x.e \in run[r].todo
  BY <1>0, TurnFits DEF RunnerTyped
<1> HIDE DEF x
<1>1. RunnerFrame(r)
  BY <1>0, NamesAssumption DEF Disable, At, Goto, Finish, rest, WriteEnable, Access, Ev, RunnerFrame, RunnerTyped
<1>2. BlockFrame
  BY <1>0, <1>x DEF Disable, At, Goto, Finish, rest, WriteEnable, Access, Ev, BlockFrame, BlockTyped, RunnerTyped, EventTyped
<1>3. BlockTyped(block)'
  BY <1>0, <1>x, NamesAssumption DEF Disable, At, Goto, Finish, rest, WriteEnable, Access, Ev, BlockTyped, RunnerTyped, EventTyped, Users
<1>4. RunnerTyped(r)'
  BY <1>0, <1>x, NamesAssumption DEF Disable, At, Goto, Finish, rest, WriteEnable, Access, Ev, RunnerTyped, BlockTyped, x
<1>5. StepSafe(r)
  BY <1>0, <1>x, NamesAssumption DEF Disable, At, Goto, Finish, rest, WriteEnable, Access, Ev, StepSafe, RunnerTyped, BlockTyped, Busy, x
<1>6. StepFair(r)
  BY <1>0, <1>x DEF Disable, At, Goto, Finish, rest, WriteEnable, Access, Ev, StepFair, Holds, Owes, RunnerTyped, BlockTyped, EventTyped, IInv, CurrentUsed, x
<1> QED
  BY <1>1, <1>2, <1>3, <1>4, <1>5, <1>6, StepKeeps

\* It marks the event as blocked.
LEMMA BlockKeeps == ASSUME IInv, NEW r \in Runners, Block(r) PROVE IInv'
<1>0. /\ RunnerTyped(r) /\ BlockTyped(block) /\ DOMAIN run = Runners
      /\ kept \subseteq Gpes /\ faults \in Nat
  BY DEF IInv, Typed
<1>1. RunnerFrame(r)
  BY <1>0, NamesAssumption DEF Block, At, Goto, Finish, rest, Ev, RunnerFrame, RunnerTyped
<1>2. BlockFrame
  BY <1>0 DEF Block, At, Goto, Finish, rest, Ev, BlockFrame, BlockTyped, RunnerTyped, EventTyped
<1>3. BlockTyped(block)'
  BY <1>0, NamesAssumption DEF Block, At, Goto, Finish, rest, Ev, BlockTyped, RunnerTyped, EventTyped, Users
<1>4. RunnerTyped(r)'
  BY <1>0, NamesAssumption DEF Block, At, Goto, Finish, rest, Ev, RunnerTyped, BlockTyped
<1>5. StepSafe(r)
  BY <1>0, NamesAssumption DEF Block, At, Goto, Finish, rest, Ev, StepSafe, RunnerTyped, BlockTyped, Busy
<1>6. StepFair(r)
  BY <1>0 DEF Block, At, Goto, Finish, rest, Ev, StepFair, Holds, Owes, RunnerTyped, BlockTyped, EventTyped, IInv, CurrentUsed
<1> QED
  BY <1>1, <1>2, <1>3, <1>4, <1>5, <1>6, StepKeeps

\* It clears an edge event.
LEMMA ClearEdgeKeeps == ASSUME IInv, NEW r \in Runners, NEW ok \in BOOLEAN, ClearEdge(r, ok) PROVE IInv'
<1>0. /\ RunnerTyped(r) /\ BlockTyped(block) /\ DOMAIN run = Runners
      /\ kept \subseteq Gpes /\ faults \in Nat
  BY DEF IInv, Typed
<1>1. RunnerFrame(r)
  BY <1>0, NamesAssumption DEF ClearEdge, At, Goto, Finish, rest, clear_gpe, Access, RunnerFrame, RunnerTyped
<1>2. BlockFrame
  BY <1>0 DEF ClearEdge, At, Goto, Finish, rest, clear_gpe, Access, BlockFrame, BlockTyped, RunnerTyped, EventTyped
<1>3. BlockTyped(block)'
  BY <1>0, NamesAssumption DEF ClearEdge, At, Goto, Finish, rest, clear_gpe, Access, BlockTyped, RunnerTyped, EventTyped, Users
<1>4. RunnerTyped(r)'
  BY <1>0, NamesAssumption DEF ClearEdge, At, Goto, Finish, rest, clear_gpe, Access, RunnerTyped, BlockTyped
<1>5. StepSafe(r)
  BY <1>0, NamesAssumption DEF ClearEdge, At, Goto, Finish, rest, clear_gpe, Access, StepSafe, RunnerTyped, BlockTyped, Busy
<1>6. StepFair(r)
  BY <1>0 DEF ClearEdge, At, Goto, Finish, rest, clear_gpe, Access, StepFair, Holds, Owes, RunnerTyped, BlockTyped, EventTyped, IInv, CurrentUsed
<1> QED
  BY <1>1, <1>2, <1>3, <1>4, <1>5, <1>6, StepKeeps

\* A native handler asks for its event to be enabled, or keeps it disabled.
LEMMA CallNativeKeeps == ASSUME IInv, NEW r \in Runners, CallNative(r) PROVE IInv'
<1>0. /\ RunnerTyped(r) /\ BlockTyped(block) /\ DOMAIN run = Runners
      /\ kept \subseteq Gpes /\ faults \in Nat
  BY DEF IInv, Typed
<1> DEFINE x == Turn(run[r].todo)
<1>x. /\ DOMAIN x = {"pc", "e", "todo", "unblock"} /\ ~x.unblock
      /\ x.todo \subseteq run[r].todo
      /\ \/ x.pc = "idle" /\ x.e = None /\ x.todo = {}
         \/ x.pc = "disable" /\ x.e \in run[r].todo
  BY <1>0, TurnFits DEF RunnerTyped
<1> HIDE DEF x
<1>1. RunnerFrame(r)
  BY <1>0, NamesAssumption DEF CallNative, At, Goto, Finish, rest, Freed, Restoring, Ev, RunnerFrame, RunnerTyped
<1>2. BlockFrame
  BY <1>0, <1>x DEF CallNative, At, Goto, Finish, rest, Freed, Restoring, Ev, BlockFrame, BlockTyped, RunnerTyped, EventTyped
<1>3. BlockTyped(block)'
  BY <1>0, <1>x, NamesAssumption DEF CallNative, At, Goto, Finish, rest, Freed, Restoring, Ev, BlockTyped, RunnerTyped, EventTyped, Users
<1>4. RunnerTyped(r)'
  BY <1>0, <1>x, NamesAssumption DEF CallNative, At, Goto, Finish, rest, Freed, Restoring, Ev, RunnerTyped, BlockTyped, x
<1>5. StepSafe(r)
  BY <1>0, <1>x, NamesAssumption DEF CallNative, At, Goto, Finish, rest, Freed, Restoring, Ev, StepSafe, RunnerTyped, BlockTyped, Busy, x
<1>6. StepFair(r)
  BY <1>0, <1>x DEF CallNative, At, Goto, Finish, rest, Freed, Restoring, Ev, StepFair, Holds, Owes, RunnerTyped, BlockTyped, EventTyped, IInv, CurrentUsed, x
<1> QED
  BY <1>1, <1>2, <1>3, <1>4, <1>5, <1>6, StepKeeps

\* Work that cannot be scheduled leaves the event disabled, a failure.
LEMMA ScheduleFailsKeeps == ASSUME IInv, NEW r \in Runners, ScheduleFails(r) PROVE IInv'
<1>0. /\ RunnerTyped(r) /\ BlockTyped(block) /\ DOMAIN run = Runners
      /\ kept \subseteq Gpes /\ faults \in Nat
  BY DEF IInv, Typed
<1> DEFINE x == Turn(run[r].todo)
<1>x. /\ DOMAIN x = {"pc", "e", "todo", "unblock"} /\ ~x.unblock
      /\ x.todo \subseteq run[r].todo
      /\ \/ x.pc = "idle" /\ x.e = None /\ x.todo = {}
         \/ x.pc = "disable" /\ x.e \in run[r].todo
  BY <1>0, TurnFits DEF RunnerTyped
<1> HIDE DEF x
<1>1. RunnerFrame(r)
  BY <1>0, NamesAssumption DEF ScheduleFails, At, Goto, Finish, rest, Access, Ev, RunnerFrame, RunnerTyped
<1>2. BlockFrame
  BY <1>0, <1>x DEF ScheduleFails, At, Goto, Finish, rest, Access, Ev, BlockFrame, BlockTyped, RunnerTyped, EventTyped
<1>3. BlockTyped(block)'
  BY <1>0, <1>x, NamesAssumption DEF ScheduleFails, At, Goto, Finish, rest, Access, Ev, BlockTyped, RunnerTyped, EventTyped, Users
<1>4. RunnerTyped(r)'
  BY <1>0, <1>x, NamesAssumption DEF ScheduleFails, At, Goto, Finish, rest, Access, Ev, RunnerTyped, BlockTyped, x
<1>5. StepSafe(r)
  BY <1>0, <1>x, NamesAssumption DEF ScheduleFails, At, Goto, Finish, rest, Access, Ev, StepSafe, RunnerTyped, BlockTyped, Busy, x
<1>6. StepFair(r)
  BY <1>0, <1>x DEF ScheduleFails, At, Goto, Finish, rest, Access, Ev, StepFair, Holds, Owes, RunnerTyped, BlockTyped, EventTyped, IInv, CurrentUsed, x
<1> QED
  BY <1>1, <1>2, <1>3, <1>4, <1>5, <1>6, StepKeeps

\* An event without a handler stays disabled.
LEMMA NoHandlerKeeps == ASSUME IInv, NEW r \in Runners, NoHandler(r) PROVE IInv'
<1>0. /\ RunnerTyped(r) /\ BlockTyped(block) /\ DOMAIN run = Runners
      /\ kept \subseteq Gpes /\ faults \in Nat
  BY DEF IInv, Typed
<1> DEFINE x == Turn(run[r].todo)
<1>x. /\ DOMAIN x = {"pc", "e", "todo", "unblock"} /\ ~x.unblock
      /\ x.todo \subseteq run[r].todo
      /\ \/ x.pc = "idle" /\ x.e = None /\ x.todo = {}
         \/ x.pc = "disable" /\ x.e \in run[r].todo
  BY <1>0, TurnFits DEF RunnerTyped
<1> HIDE DEF x
<1>1. RunnerFrame(r)
  BY <1>0, NamesAssumption DEF NoHandler, At, Goto, Finish, rest, Ev, RunnerFrame, RunnerTyped
<1>2. BlockFrame
  BY <1>0, <1>x DEF NoHandler, At, Goto, Finish, rest, Ev, BlockFrame, BlockTyped, RunnerTyped, EventTyped
<1>3. BlockTyped(block)'
  BY <1>0, <1>x, NamesAssumption DEF NoHandler, At, Goto, Finish, rest, Ev, BlockTyped, RunnerTyped, EventTyped, Users
<1>4. RunnerTyped(r)'
  BY <1>0, <1>x, NamesAssumption DEF NoHandler, At, Goto, Finish, rest, Ev, RunnerTyped, BlockTyped, x
<1>5. StepSafe(r)
  BY <1>0, <1>x, NamesAssumption DEF NoHandler, At, Goto, Finish, rest, Ev, StepSafe, RunnerTyped, BlockTyped, Busy, x
<1>6. StepFair(r)
  BY <1>0, <1>x DEF NoHandler, At, Goto, Finish, rest, Ev, StepFair, Holds, Owes, RunnerTyped, BlockTyped, EventTyped, IInv, CurrentUsed, x
<1> QED
  BY <1>1, <1>2, <1>3, <1>4, <1>5, <1>6, StepKeeps

\* A work item goes on to the restore of its event.
LEMMA RunHandlerKeeps == ASSUME IInv, NEW r \in Runners, RunHandler(r) PROVE IInv'
<1>0. /\ RunnerTyped(r) /\ BlockTyped(block) /\ DOMAIN run = Runners
      /\ kept \subseteq Gpes /\ faults \in Nat
  BY DEF IInv, Typed
<1>1. RunnerFrame(r)
  BY <1>0, NamesAssumption DEF RunHandler, At, Goto, Finish, rest, Restoring, RunnerFrame, RunnerTyped
<1>2. BlockFrame
  BY <1>0 DEF RunHandler, At, Goto, Finish, rest, Restoring, BlockFrame, BlockTyped, RunnerTyped, EventTyped
<1>3. BlockTyped(block)'
  BY <1>0, NamesAssumption DEF RunHandler, At, Goto, Finish, rest, Restoring, BlockTyped, RunnerTyped, EventTyped, Users
<1>4. RunnerTyped(r)'
  BY <1>0, NamesAssumption DEF RunHandler, At, Goto, Finish, rest, Restoring, RunnerTyped, BlockTyped
<1>5. StepSafe(r)
  BY <1>0, NamesAssumption DEF RunHandler, At, Goto, Finish, rest, Restoring, StepSafe, RunnerTyped, BlockTyped, Busy
<1>6. StepFair(r)
  BY <1>0 DEF RunHandler, At, Goto, Finish, rest, Restoring, StepFair, Holds, Owes, RunnerTyped, BlockTyped, EventTyped, IInv, CurrentUsed
<1> QED
  BY <1>1, <1>2, <1>3, <1>4, <1>5, <1>6, StepKeeps

\* restore_gpe clears a level event.
LEMMA RestoreKeeps == ASSUME IInv, NEW r \in Runners, NEW ok \in BOOLEAN, Restore(r, ok) PROVE IInv'
<1>0. /\ RunnerTyped(r) /\ BlockTyped(block) /\ DOMAIN run = Runners
      /\ kept \subseteq Gpes /\ faults \in Nat
  BY DEF IInv, Typed
<1> DEFINE x == Turn(run[r].todo)
<1>x. /\ DOMAIN x = {"pc", "e", "todo", "unblock"} /\ ~x.unblock
      /\ x.todo \subseteq run[r].todo
      /\ \/ x.pc = "idle" /\ x.e = None /\ x.todo = {}
         \/ x.pc = "disable" /\ x.e \in run[r].todo
  BY <1>0, TurnFits DEF RunnerTyped
<1> HIDE DEF x
<1>1. RunnerFrame(r)
  BY <1>0, NamesAssumption DEF Restore, At, Goto, Finish, rest, clear_gpe, Access, RunnerFrame, RunnerTyped
<1>2. BlockFrame
  BY <1>0, <1>x DEF Restore, At, Goto, Finish, rest, clear_gpe, Access, BlockFrame, BlockTyped, RunnerTyped, EventTyped
<1>3. BlockTyped(block)'
  BY <1>0, <1>x, NamesAssumption DEF Restore, At, Goto, Finish, rest, clear_gpe, Access, BlockTyped, RunnerTyped, EventTyped, Users
<1>4. RunnerTyped(r)'
  BY <1>0, <1>x, NamesAssumption DEF Restore, At, Goto, Finish, rest, clear_gpe, Access, RunnerTyped, BlockTyped, x
<1>5. StepSafe(r)
  BY <1>0, <1>x, NamesAssumption DEF Restore, At, Goto, Finish, rest, clear_gpe, Access, StepSafe, RunnerTyped, BlockTyped, Busy, x
<1>6. StepFair(r)
  BY <1>0, <1>x DEF Restore, At, Goto, Finish, rest, clear_gpe, Access, StepFair, Holds, Owes, RunnerTyped, BlockTyped, EventTyped, IInv, CurrentUsed, x
<1> QED
  BY <1>1, <1>2, <1>3, <1>4, <1>5, <1>6, StepKeeps

\* It tests the masks of the event.
LEMMA CheckKeeps == ASSUME IInv, NEW r \in Runners, Check(r) PROVE IInv'
<1>0. /\ RunnerTyped(r) /\ BlockTyped(block) /\ DOMAIN run = Runners
      /\ kept \subseteq Gpes /\ faults \in Nat
  BY DEF IInv, Typed
<1> DEFINE x == Turn(run[r].todo)
<1>x. /\ DOMAIN x = {"pc", "e", "todo", "unblock"} /\ ~x.unblock
      /\ x.todo \subseteq run[r].todo
      /\ \/ x.pc = "idle" /\ x.e = None /\ x.todo = {}
         \/ x.pc = "disable" /\ x.e \in run[r].todo
  BY <1>0, TurnFits DEF RunnerTyped
<1> HIDE DEF x
<1>1. RunnerFrame(r)
  BY <1>0, NamesAssumption DEF Check, At, Goto, Finish, rest, MayReenable, MayEnable, RunnerFrame, RunnerTyped
<1>2. BlockFrame
  BY <1>0, <1>x DEF Check, At, Goto, Finish, rest, MayReenable, MayEnable, BlockFrame, BlockTyped, RunnerTyped, EventTyped
<1>3. BlockTyped(block)'
  BY <1>0, <1>x, NamesAssumption DEF Check, At, Goto, Finish, rest, MayReenable, MayEnable, BlockTyped, RunnerTyped, EventTyped, Users
<1>4. RunnerTyped(r)'
  BY <1>0, <1>x, NamesAssumption DEF Check, At, Goto, Finish, rest, MayReenable, MayEnable, RunnerTyped, BlockTyped, x
<1>5. StepSafe(r)
  BY <1>0, <1>x, NamesAssumption DEF Check, At, Goto, Finish, rest, MayReenable, MayEnable, StepSafe, RunnerTyped, BlockTyped, Busy, x
<1>6. StepFair(r)
  BY <1>0, <1>x DEF Check, At, Goto, Finish, rest, MayReenable, MayEnable, StepFair, Holds, Owes, RunnerTyped, BlockTyped, EventTyped, IInv, CurrentUsed, x
<1> QED
  BY <1>1, <1>2, <1>3, <1>4, <1>5, <1>6, StepKeeps

\* It writes the bit.
LEMMA WriteKeeps == ASSUME IInv, NEW r \in Runners, NEW ok \in BOOLEAN, Write(r, ok) PROVE IInv'
<1>0. /\ RunnerTyped(r) /\ BlockTyped(block) /\ DOMAIN run = Runners
      /\ kept \subseteq Gpes /\ faults \in Nat
  BY DEF IInv, Typed
<1> DEFINE x == Turn(run[r].todo)
<1>x. /\ DOMAIN x = {"pc", "e", "todo", "unblock"} /\ ~x.unblock
      /\ x.todo \subseteq run[r].todo
      /\ \/ x.pc = "idle" /\ x.e = None /\ x.todo = {}
         \/ x.pc = "disable" /\ x.e \in run[r].todo
  BY <1>0, TurnFits DEF RunnerTyped
<1> HIDE DEF x
<1>1. RunnerFrame(r)
  BY <1>0, NamesAssumption DEF Write, At, Goto, Finish, rest, WriteEnable, Access, RunnerFrame, RunnerTyped
<1>2. BlockFrame
  BY <1>0, <1>x DEF Write, At, Goto, Finish, rest, WriteEnable, Access, BlockFrame, BlockTyped, RunnerTyped, EventTyped
<1>3. BlockTyped(block)'
  BY <1>0, <1>x, NamesAssumption DEF Write, At, Goto, Finish, rest, WriteEnable, Access, BlockTyped, RunnerTyped, EventTyped, Users
<1>4. RunnerTyped(r)'
  BY <1>0, <1>x, NamesAssumption DEF Write, At, Goto, Finish, rest, WriteEnable, Access, RunnerTyped, BlockTyped, x
<1>5. StepSafe(r)
  BY <1>0, <1>x, NamesAssumption DEF Write, At, Goto, Finish, rest, WriteEnable, Access, StepSafe, RunnerTyped, BlockTyped, Busy, x
<1>6. StepFair(r)
  BY <1>0, <1>x DEF Write, At, Goto, Finish, rest, WriteEnable, Access, StepFair, Holds, Owes, RunnerTyped, BlockTyped, EventTyped, IInv, CurrentUsed, x
<1> QED
  BY <1>1, <1>2, <1>3, <1>4, <1>5, <1>6, StepKeeps

\* It takes back the mark.
LEMMA UnblockKeeps == ASSUME IInv, NEW r \in Runners, Unblock(r) PROVE IInv'
<1>0. /\ RunnerTyped(r) /\ BlockTyped(block) /\ DOMAIN run = Runners
      /\ kept \subseteq Gpes /\ faults \in Nat
  BY DEF IInv, Typed
<1> DEFINE x == Turn(run[r].todo)
<1>x. /\ DOMAIN x = {"pc", "e", "todo", "unblock"} /\ ~x.unblock
      /\ x.todo \subseteq run[r].todo
      /\ \/ x.pc = "idle" /\ x.e = None /\ x.todo = {}
         \/ x.pc = "disable" /\ x.e \in run[r].todo
  BY <1>0, TurnFits DEF RunnerTyped
<1> HIDE DEF x
<1>1. RunnerFrame(r)
  BY <1>0, NamesAssumption DEF Unblock, At, Goto, Finish, rest, RunnerFrame, RunnerTyped
<1>2. BlockFrame
  BY <1>0, <1>x DEF Unblock, At, Goto, Finish, rest, BlockFrame, BlockTyped, RunnerTyped, EventTyped
<1>3. BlockTyped(block)'
  BY <1>0, <1>x, NamesAssumption DEF Unblock, At, Goto, Finish, rest, BlockTyped, RunnerTyped, EventTyped, Users
<1>4. RunnerTyped(r)'
  BY <1>0, <1>x, NamesAssumption DEF Unblock, At, Goto, Finish, rest, RunnerTyped, BlockTyped, x
<1>5. StepSafe(r)
  BY <1>0, <1>x, NamesAssumption DEF Unblock, At, Goto, Finish, rest, StepSafe, RunnerTyped, BlockTyped, Busy, x
<1>6. StepFair(r)
  BY <1>0, <1>x DEF Unblock, At, Goto, Finish, rest, StepFair, Holds, Owes, RunnerTyped, BlockTyped, EventTyped, IInv, CurrentUsed, x
<1> QED
  BY <1>1, <1>2, <1>3, <1>4, <1>5, <1>6, StepKeeps

\* Work is scheduled: the event goes from its dispatcher to a work item.
LEMMA ScheduleKeeps == ASSUME IInv, NEW r \in Runners, Schedule(r) PROVE IInv'
<1> USE DEF IInv
<1>0. /\ Typed /\ ApiTyped /\ \A q \in Runners : RunnerTyped(q)
      /\ Slots \subseteq Runners \ {"sci", "api"} /\ faults \in Nat /\ flush \subseteq Slots
  BY NamesAssumption DEF Typed, Runners
<1> DEFINE x == Turn(run[r].todo)
<1>x. /\ DOMAIN x = {"pc", "e", "todo", "unblock"} /\ ~x.unblock
      /\ x.todo \subseteq run[r].todo
      /\ \/ x.pc = "idle" /\ x.e = None /\ x.todo = {}
         \/ x.pc = "disable" /\ x.e \in run[r].todo
  BY <1>0, TurnFits DEF RunnerTyped
<1> HIDE DEF x
<1>r. /\ run[r].pc = "handle" /\ r \notin Slots /\ run[r].e \in Gpes
      /\ block' = block /\ api' = api /\ flush' = flush /\ awake' = awake /\ kept' = kept
      /\ faults' = faults
  BY <1>0 DEF Schedule, At, rest, RunnerTyped
<1> PICK w \in Slots :
      /\ At(w, "idle")
      /\ run' = [run EXCEPT ![r] = x,
                            ![w] = [Resting EXCEPT !.pc = "run", !.e = run[r].e]]
  BY DEF Schedule, x
<1>w. /\ DOMAIN run' = Runners /\ run'[r] = x
      /\ DOMAIN run'[w] = {"pc", "e", "todo", "unblock"}
      /\ run'[w].pc = "run" /\ run'[w].e = run[r].e /\ run'[w].todo = {}
      /\ w # r /\ w \in Runners /\ run[w].pc = "idle"
      /\ \A q \in Runners \ {r, w} : run'[q] = run[q]
  BY <1>0, <1>r DEF At, Resting, Typed
<1>a. api.pc # "idle" => r = "sci"
  BY <1>0, <1>r DEF ApiTyped, At, Runners
<1>b. Target' = Target
  BY <1>r DEF Target, TargetOf
<1>1. Typed'
  <2>1. RunnerTyped(r)'
    BY <1>0, <1>x, <1>r, <1>w DEF RunnerTyped
  <2>2. RunnerTyped(w)'
    BY <1>0, <1>r, <1>w, NamesAssumption DEF RunnerTyped
  <2>3. \A q \in Runners \ {r, w} : RunnerTyped(q)'
    BY <1>0, <1>r, <1>w DEF RunnerTyped
  <2>4. ApiTyped'
    BY <1>0, <1>r, <1>w, <1>a, NamesAssumption DEF ApiTyped, At, NoCall, Runners
  <2>5. BlockTyped(block)'
    BY <1>0, <1>r DEF Typed
  <2> QED
    BY <1>0, <1>r, <1>w, <2>1, <2>2, <2>3, <2>4, <2>5 DEF Typed
<1>2. TargetMasked'
  BY <1>r, <1>b DEF TargetMasked
<1>3. WriteWaited'
  BY <1>r, <1>b, <1>w, <1>x DEF WriteWaited, At
<1>4. MaskedOff'
  BY <1>r, <1>b DEF MaskedOff
<1>5. TargetOff'
  BY <1>r, <1>b DEF TargetOff
<1>6. TargetLeft'
  <2> SUFFICES ASSUME faults = 0, api.flushed, NEW e \in Target,
                      NEW q \in Runners \ {"api"}, Busy(q, e)'
               PROVE  /\ api.pc = "wait_work" => q \in flush
                      /\ api.pc # "swap"
    BY <1>r, <1>b DEF TargetLeft
  <2>1. api.pc # "idle" /\ r = "sci" /\ e \in Gpes /\ "sci" \notin Slots
    BY <1>0, <1>a, NamesAssumption DEF ApiTyped, NoCall, Target, TargetOf
  <2>2. CASE q \in {r, w}
    <3>1. Busy(r, e)
      BY <2>1, <2>2, <1>r, <1>w, <1>x, NamesAssumption DEF Busy, At
    <3> QED
      BY <2>1, <3>1, <1>0, <1>r DEF TargetLeft
  <2>3. CASE q \notin {r, w}
    <3>1. Busy(q, e)
      BY <2>3, <1>w DEF Busy, At
    <3> QED
      BY <3>1 DEF TargetLeft
  <2> QED
    BY <2>2, <2>3
<1>7. BlockedBy'
  <2> SUFFICES ASSUME faults = 0, NEW f \in Gpes,
                      block.event[f].block_interrupts, f \notin kept
               PROVE  \E q \in Runners : Holds(q, f)'
    BY <1>r DEF BlockedBy
  <2>1. PICK q \in Runners : Holds(q, f)
    BY DEF BlockedBy
  <2>2. CASE q \in {r, w}
    <3>1. Holds(w, f)'
      BY <2>1, <2>2, <1>w DEF Holds
    <3> QED
      BY <3>1, <1>w
  <2>3. CASE q \notin {r, w}
    <3>1. Holds(q, f)'
      BY <2>1, <2>3, <1>w DEF Holds
    <3> QED
      BY <3>1
  <2> QED
    BY <2>2, <2>3
<1>8. CurrentUsed'
  BY <1>r DEF CurrentUsed
<1>9. EnabledOrOwed'
  <2> SUFFICES ASSUME awake, faults = 0, NEW f \in block.runtime \ (block.masked \cup kept),
                      f \notin block.enable
               PROVE  \E q \in Runners : Owes(q, f)'
    BY <1>r DEF EnabledOrOwed
  <2>1. PICK q \in Runners : Owes(q, f)
    BY DEF EnabledOrOwed
  <2>2. CASE q \in {r, w}
    <3>1. Owes(w, f)'
      BY <2>1, <2>2, <1>w DEF Owes
    <3> QED
      BY <3>1, <1>w
  <2>3. CASE q \notin {r, w}
    <3>1. Owes(q, f)'
      BY <2>1, <2>3, <1>w DEF Owes
    <3> QED
      BY <3>1
  <2> QED
    BY <2>2, <2>3
<1> QED
  BY <1>1, <1>2, <1>3, <1>4, <1>5, <1>6, <1>7, <1>8, <1>9

\* The hardware raises an event.
LEMMA FireKeeps == ASSUME IInv, NEW e \in Gpes, Fire(e) PROVE IInv'
<1>0. /\ RunnerTyped("sci") /\ BlockTyped(block) /\ DOMAIN run = Runners
      /\ kept \subseteq Gpes /\ faults \in Nat /\ "sci" \in Runners
  BY DEF IInv, Typed, Runners
<1>1. RunnerFrame("sci")
  BY <1>0 DEF Fire, RunnerFrame
<1>2. BlockFrame
  BY <1>0 DEF Fire, BlockFrame, BlockTyped
<1>3. BlockTyped(block)'
  BY <1>0 DEF Fire, BlockTyped, EventTyped, Users
<1>4. RunnerTyped("sci")'
  BY <1>0 DEF Fire, RunnerTyped
<1>5. StepSafe("sci")
  BY <1>0 DEF Fire, StepSafe, BlockTyped, Busy, At
<1>6. StepFair("sci")
  BY <1>0 DEF Fire, StepFair, Holds, Owes, BlockTyped
<1> QED
  BY <1>0, <1>1, <1>2, <1>3, <1>4, <1>5, <1>6, StepKeeps

\* The interrupt handler starts.
LEMMA HandleKeeps == ASSUME IInv, handle_gpes PROVE IInv'
<1>0. /\ RunnerTyped("sci") /\ BlockTyped(block) /\ DOMAIN run = Runners
      /\ kept \subseteq Gpes /\ faults \in Nat /\ "sci" \in Runners
  BY DEF IInv, Typed, Runners
<1> USE <1>0, NamesAssumption DEF handle_gpes, At, Goto, rest
<1>1. RunnerFrame("sci")
  BY DEF RunnerFrame
<1>2. BlockFrame
  BY DEF BlockFrame
<1>3. BlockTyped(block)'
  BY DEF BlockTyped
<1>4. RunnerTyped("sci")'
  BY DEF RunnerTyped
<1>5. StepSafe("sci")
  BY DEF StepSafe, Busy, RunnerTyped
<1>6. StepFair("sci")
  BY DEF StepFair, Holds, Owes
<1> QED
  BY <1>1, <1>2, <1>3, <1>4, <1>5, <1>6, StepKeeps

(***************************************************************************)
(* The steps of a call that masks.                                         *)
(***************************************************************************)
\* It begins: from now on its target is masked, if it waits at all.
LEMMA BeginMaskKeeps ==
    ASSUME IInv, NEW op, NEW e, NEW arg, BeginMask(op, e, arg),
           op = "remove" \/ e \in Gpes,
           op = "install" => block.event[e].type \notin Native /\ arg \in HandlerKinds,
           op = "uninstall" => block.event[e].type \in Native
    PROVE  IInv'
<1> USE DEF IInv
<1>0. /\ Typed /\ BlockTyped(block) /\ \A q \in Runners : RunnerTyped(q)
  BY DEF Typed
<1> DEFINE waits == MaskSafe(op, e) /\ ~Refused(op, e)
<1>f. /\ api = NoCall /\ At("api", "idle")
      /\ DOMAIN api' = {"pc", "op", "e", "arg", "masked", "flushed"}
      /\ api'.pc = (IF waits THEN "wait_irq" ELSE "swap")
      /\ api'.op = op /\ api'.e = e /\ api'.arg = arg /\ ~api'.flushed
      /\ run' = run /\ flush' = flush /\ awake' = awake /\ kept' = kept /\ faults' = faults
  BY DEF BeginMask, Begin, NoCall
<1>b. /\ DOMAIN block' = DOMAIN block /\ block'.event = block.event /\ block'.enable = block.enable
      /\ block'.runtime = block.runtime /\ block'.current = block.current
      /\ block'.status = block.status /\ block'.wake = block.wake
      /\ block'.masked = block.masked \cup IF waits THEN TargetOf(op, e) ELSE {}
  BY <1>0 DEF BeginMask, BlockTyped
<1>i. api.pc = "idle" /\ ~api.flushed
  BY <1>f DEF NoCall
<1> HIDE DEF waits
<1>t. Target' = TargetOf(op, e) /\ TargetOf(op, e) \subseteq Gpes
  BY <1>f DEF Target, TargetOf
<1>1. Typed'
  <2>1. BlockTyped(block)'
    BY <1>0, <1>b, <1>t DEF BlockTyped, Users
  <2>2. ApiTyped'
    BY <1>f, <1>b DEF ApiTyped, At
  <2>3. \A q \in Runners : RunnerTyped(q)'
    BY <1>0, <1>f DEF RunnerTyped
  <2> QED
    BY <1>0, <1>f, <2>1, <2>2, <2>3 DEF Typed
<1>2. TargetMasked'
  BY <1>f, <1>b, <1>t DEF TargetMasked
<1>3. WriteWaited'
  BY <1>f, <1>b, <1>t, <1>i DEF WriteWaited, At
<1>4. MaskedOff'
  BY <1>f, <1>b, <1>t, <1>i DEF MaskedOff
<1>5. TargetOff'
  BY <1>f DEF TargetOff
<1>6. TargetLeft'
  BY <1>f DEF TargetLeft
<1>7. BlockedBy'
  BY <1>f, <1>b DEF BlockedBy, Holds
<1>8. CurrentUsed'
  BY <1>f, <1>b DEF CurrentUsed
<1>9. EnabledOrOwed'
  BY <1>f, <1>b DEF EnabledOrOwed, Owes
<1> QED
  BY <1>1, <1>2, <1>3, <1>4, <1>5, <1>6, <1>7, <1>8, <1>9

\* It waits for the interrupts in flight: from now on the work left is what it
\* waits for.
LEMMA WaitIrqKeeps == ASSUME IInv, WaitIrq PROVE IInv'
<1> USE DEF IInv
<1>0. /\ Typed /\ BlockTyped(block) /\ \A q \in Runners : RunnerTyped(q)
      /\ ApiTyped /\ At("api", "idle")
  BY DEF Typed, ApiTyped, WaitIrq
<1>f. /\ api.pc = "wait_irq" /\ At("sci", "idle")
      /\ api' = [api EXCEPT !.pc = "wait_work"] /\ flush' = {w \in Slots : ~At(w, "idle")}
      /\ block' = block /\ run' = run /\ awake' = awake /\ kept' = kept /\ faults' = faults
  BY DEF WaitIrq, api_rest
<1>a. /\ api'.pc = "wait_work" /\ api'.flushed = api.flushed /\ Target' = Target
      /\ Target \subseteq Gpes
  BY <1>0, <1>f DEF ApiTyped, Target, TargetOf
<1>b. \A q \in Runners : ~At(q, "idle") => q \in flush'
  BY <1>0, <1>f DEF Runners
<1>1. Typed'
  <2>1. ApiTyped'
    BY <1>0, <1>f DEF ApiTyped, At
  <2>2. \A q \in Runners : RunnerTyped(q)'
    BY <1>0, <1>f DEF RunnerTyped
  <2> QED
    BY <1>0, <1>f, <2>1, <2>2 DEF Typed
<1>2. TargetMasked'
  BY <1>f, <1>a DEF TargetMasked
<1>3. WriteWaited'
  BY <1>f, <1>a, <1>b DEF WriteWaited, At
<1>4. MaskedOff'
  BY <1>f, <1>a DEF MaskedOff
<1>5. TargetOff'
  BY <1>f, <1>a DEF TargetOff
<1>6. TargetLeft'
  BY <1>0, <1>f, <1>a, <1>b, NamesAssumption DEF TargetLeft, Busy, At, RunnerTyped
<1>7. BlockedBy'
  BY <1>f DEF BlockedBy, Holds
<1>8. CurrentUsed'
  BY <1>f DEF CurrentUsed
<1>9. EnabledOrOwed'
  BY <1>f DEF EnabledOrOwed, Owes
<1> QED
  BY <1>1, <1>2, <1>3, <1>4, <1>5, <1>6, <1>7, <1>8, <1>9

\* A work item it waits for is done.
LEMMA WorkDoneKeeps == ASSUME IInv, NEW w \in Slots, WorkDone(w) PROVE IInv'
<1> USE DEF IInv
<1>0. /\ Typed /\ BlockTyped(block) /\ \A q \in Runners : RunnerTyped(q)
      /\ ApiTyped /\ Slots \subseteq Runners
  BY DEF Typed, Runners
<1>f. /\ At(w, "idle") /\ flush' = flush \ {w}
      /\ block' = block /\ run' = run /\ api' = api
      /\ awake' = awake /\ kept' = kept /\ faults' = faults
  BY DEF WorkDone, api_rest
<1>a. Target' = Target /\ (api.flushed => Target \subseteq Gpes)
  BY <1>0, <1>f DEF ApiTyped, Target, TargetOf, NoCall
<1>1. Typed'
  <2>1. ApiTyped'
    BY <1>0, <1>f DEF ApiTyped, At
  <2>2. \A q \in Runners : RunnerTyped(q)'
    BY <1>0, <1>f DEF RunnerTyped
  <2> QED
    BY <1>0, <1>f, <2>1, <2>2 DEF Typed
<1>2. TargetMasked'
  BY <1>f, <1>a DEF TargetMasked
<1>3. WriteWaited'
  BY <1>f, <1>a DEF WriteWaited, At
<1>4. MaskedOff'
  BY <1>f, <1>a DEF MaskedOff
<1>5. TargetOff'
  BY <1>f, <1>a DEF TargetOff
<1>6. TargetLeft'
  BY <1>0, <1>f, <1>a, NamesAssumption DEF TargetLeft, Busy, At, RunnerTyped
<1>7. BlockedBy'
  BY <1>f DEF BlockedBy, Holds
<1>8. CurrentUsed'
  BY <1>f DEF CurrentUsed
<1>9. EnabledOrOwed'
  BY <1>f DEF EnabledOrOwed, Owes
<1> QED
  BY <1>1, <1>2, <1>3, <1>4, <1>5, <1>6, <1>7, <1>8, <1>9

\* It has waited: nobody is left past the test of the masks, and after the
\* second time nobody is left in the event at all.
LEMMA WaitedKeeps == ASSUME IInv, Waited PROVE IInv'
<1> USE DEF IInv
<1>0. /\ Typed /\ BlockTyped(block) /\ \A q \in Runners : RunnerTyped(q)
      /\ ApiTyped /\ At("api", "idle")
  BY DEF Typed, ApiTyped, Waited
<1>f. /\ api.pc = "wait_work" /\ flush = {}
      /\ block' = block /\ run' = run /\ flush' = flush
      /\ awake' = awake /\ kept' = kept /\ faults' = faults
  BY DEF Waited, api_rest
<1>a. \/ /\ ~api.flushed /\ api'.pc = "off" /\ api'.flushed /\ api'.op = api.op /\ api'.e = api.e
      \/ api.flushed /\ api' = NoCall
      \/ /\ api.flushed /\ api'.pc = "swap" /\ api'.flushed /\ api'.op = api.op /\ api'.e = api.e
  BY <1>0 DEF Waited, ApiTyped
<1>w. \A q \in Runners : ~(At(q, "write") /\ run[q].e \in block.masked)
  BY <1>f DEF WriteWaited
<1>n. api' = NoCall => api'.pc = "idle" /\ ~api'.flushed
  BY DEF NoCall
<1>1. Typed'
  <2>1. ApiTyped'
    BY <1>0, <1>f DEF Waited, ApiTyped, At, NoCall
  <2>2. \A q \in Runners : RunnerTyped(q)'
    BY <1>0, <1>f DEF RunnerTyped
  <2> QED
    BY <1>0, <1>f, <2>1, <2>2 DEF Typed
<1>2. TargetMasked'
  BY <1>f, <1>a, <1>n DEF TargetMasked, Target, TargetOf
<1>3. WriteWaited'
  BY <1>f, <1>w DEF WriteWaited, At
<1>4. MaskedOff'
  BY <1>f, <1>a, <1>n DEF MaskedOff, Target, TargetOf
<1>5. TargetOff'
  BY <1>f, <1>a, <1>n DEF TargetOff, Target, TargetOf
<1>6. TargetLeft'
  BY <1>f, <1>a, <1>n DEF TargetLeft, Target, TargetOf, Busy, At
<1>7. BlockedBy'
  BY <1>f DEF BlockedBy, Holds
<1>8. CurrentUsed'
  BY <1>f DEF CurrentUsed
<1>9. EnabledOrOwed'
  BY <1>f DEF EnabledOrOwed, Owes
<1> QED
  BY <1>1, <1>2, <1>3, <1>4, <1>5, <1>6, <1>7, <1>8, <1>9

\* It disables its target.
LEMMA MaskOffKeeps == ASSUME IInv, NEW ok \in BOOLEAN, MaskOff(ok) PROVE IInv'
<1> USE DEF IInv
<1>0. /\ Typed /\ BlockTyped(block) /\ \A q \in Runners : RunnerTyped(q)
      /\ ApiTyped /\ At("api", "idle") /\ api.flushed
  BY DEF Typed, ApiTyped, MaskOff, TargetMasked
<1>f. /\ api.pc = "off" /\ api' = [api EXCEPT !.pc = "wait_irq"]
      /\ run' = run /\ flush' = flush /\ awake' = awake /\ kept' = kept
      /\ faults' \in Nat /\ (faults' = 0 => faults = 0 /\ ok)
  BY <1>0 DEF MaskOff, api_rest, Access, Typed
<1>a. /\ api'.pc = "wait_irq" /\ api'.flushed /\ Target' = Target
  BY <1>0, <1>f DEF ApiTyped, Target, TargetOf
<1>b. /\ DOMAIN block' = DOMAIN block /\ block'.event = block.event
      /\ block'.runtime = block.runtime /\ block'.current = block.current
      /\ block'.status = block.status /\ block'.wake = block.wake
      /\ block'.masked = block.masked
      /\ block'.enable = IF ok THEN block.enable \ Target ELSE block.enable
  BY <1>0 DEF MaskOff, BlockTyped
<1>m. Target \subseteq block.masked
  BY <1>0 DEF TargetMasked
<1>1. Typed'
  <2>1. ApiTyped'
    BY <1>0, <1>f, <1>b DEF ApiTyped, At
  <2>2. \A q \in Runners : RunnerTyped(q)'
    BY <1>0, <1>f DEF RunnerTyped
  <2>3. BlockTyped(block)'
    BY <1>0, <1>b DEF BlockTyped, Users
  <2> QED
    BY <1>0, <1>f, <2>1, <2>2, <2>3 DEF Typed
<1>2. TargetMasked'
  BY <1>a, <1>b, <1>m DEF TargetMasked
<1>3. WriteWaited'
  BY <1>f, <1>a, <1>b DEF WriteWaited, At
<1>4. MaskedOff'
  BY <1>f, <1>a, <1>b DEF MaskedOff
<1>5. TargetOff'
  BY <1>f, <1>a, <1>b DEF TargetOff
<1>6. TargetLeft'
  BY <1>a DEF TargetLeft
<1>7. BlockedBy'
  BY <1>f, <1>b DEF BlockedBy, Holds
<1>8. CurrentUsed'
  BY <1>f, <1>b DEF CurrentUsed
<1>9. EnabledOrOwed'
  BY <1>f, <1>b, <1>m DEF EnabledOrOwed, Owes
<1> QED
  BY <1>1, <1>2, <1>3, <1>4, <1>5, <1>6, <1>7, <1>8, <1>9

(***************************************************************************)
(* Calls that count users, and the unmasking.                              *)
(***************************************************************************)
\* From block s to block t: nothing is masked or unmasked, nothing masked is
\* enabled, and what is in use drops out of current_mask only with its users.
UserChange(s, t) ==
    /\ BlockTyped(t)
    /\ t.masked = s.masked
    /\ \A f \in Gpes : t.event[f].block_interrupts = s.event[f].block_interrupts
    /\ t.enable \cap s.masked \subseteq s.enable
    /\ t.runtime \ t.current \subseteq s.runtime \ s.current
\* An event that is used now is enabled, or it was used and was not.
UserKept(s, t) ==
    \A f \in t.runtime \ t.masked : f \in t.enable \/ (f \in s.runtime /\ f \notin s.enable)
SameHandlers(s, t) ==
    \A f \in Gpes : /\ t.event[f].type = s.event[f].type
                    /\ t.event[f].trig = s.event[f].trig
                    /\ t.event[f].prev = s.event[f].prev

\* gp_event_toggle_masks and the write of set_gpe_state, each way.
IntoMasks(s, e) == gp_event_toggle_masks(s, e, TRUE)
OutOfMasks(s, e) == gp_event_toggle_masks(s, e, FALSE)
Enabling(s, e) == WriteEnable(s, e, TRUE, TRUE)
Disabling(s, e) == WriteEnable(s, e, FALSE, TRUE)

\* A block as gp_event_toggle_masks leaves it, with users in it.
LEMMA ToggleOnFits ==
    ASSUME NEW s, BlockTyped(s), NEW e \in Gpes, NEW n \in 1 .. MaxUsers, NEW t,
           t = IntoMasks(WithUsers(s, e, n), e)
    PROVE  /\ BlockTyped(t) /\ SameHandlers(s, t)
           /\ t.masked = s.masked /\ t.enable = s.enable /\ t.status = s.status
           /\ t.current = t.runtime
           /\ \A f \in Gpes : t.event[f].block_interrupts = s.event[f].block_interrupts
           /\ t.runtime = s.runtime \cup {e}
           /\ Users(t, e) = n
<1> DEFINE u == [s.event[e] EXCEPT !.num_users = n]
<1>1. /\ DOMAIN t = DOMAIN s /\ t.event = [s.event EXCEPT ![e] = u]
      /\ t.status = s.status /\ t.enable = s.enable /\ t.wake = s.wake /\ t.masked = s.masked
      /\ t.runtime = s.runtime \cup {e}
      /\ t.current = t.runtime
  BY DEF gp_event_toggle_masks, IntoMasks, OutOfMasks, WithUsers, BlockTyped
<1>2. /\ DOMAIN u = DOMAIN s.event[e] /\ u.num_users = n
      /\ u.type = s.event[e].type /\ u.trig = s.event[e].trig /\ u.prev = s.event[e].prev
      /\ u.block_interrupts = s.event[e].block_interrupts
  BY DEF BlockTyped, EventTyped
<1> HIDE DEF u
<1>3. /\ DOMAIN t.event = Gpes /\ t.event[e] = u
      /\ \A f \in Gpes \ {e} : t.event[f] = s.event[f]
  BY <1>1 DEF BlockTyped
<1>4. EventTyped(u)
  BY <1>2 DEF BlockTyped, EventTyped
<1>5. SameHandlers(s, t)
  BY <1>2, <1>3 DEF SameHandlers
<1>6. \A f \in Gpes : t.event[f].block_interrupts = s.event[f].block_interrupts
  BY <1>2, <1>3
<1>7. Users(t, e) = n /\ \A f \in Gpes \ {e} : Users(t, f) = Users(s, f)
  BY <1>2, <1>3 DEF Users
<1>8. t.runtime = {f \in Gpes : Users(t, f) > 0}
  BY <1>1, <1>7, BoundsAssumption DEF BlockTyped
<1>9. BlockTyped(t)
  BY <1>1, <1>3, <1>4, <1>8, BoundsAssumption DEF BlockTyped
<1> QED
  BY <1>1, <1>5, <1>6, <1>7, <1>9

\* A block as gp_event_toggle_masks leaves it, without a user.
LEMMA ToggleOffFits ==
    ASSUME NEW s, BlockTyped(s), NEW e \in Gpes, NEW t,
           t = OutOfMasks(WithUsers(s, e, 0), e)
    PROVE  /\ BlockTyped(t) /\ SameHandlers(s, t)
           /\ t.masked = s.masked /\ t.enable = s.enable /\ t.status = s.status
           /\ t.current = t.runtime
           /\ \A f \in Gpes : t.event[f].block_interrupts = s.event[f].block_interrupts
           /\ t.runtime = s.runtime \ {e}
           /\ Users(t, e) = 0
<1> DEFINE u == [s.event[e] EXCEPT !.num_users = 0]
<1>1. /\ DOMAIN t = DOMAIN s /\ t.event = [s.event EXCEPT ![e] = u]
      /\ t.status = s.status /\ t.enable = s.enable /\ t.wake = s.wake /\ t.masked = s.masked
      /\ t.runtime = s.runtime \ {e}
      /\ t.current = t.runtime
  BY DEF gp_event_toggle_masks, IntoMasks, OutOfMasks, WithUsers, BlockTyped
<1>2. /\ DOMAIN u = DOMAIN s.event[e] /\ u.num_users = 0
      /\ u.type = s.event[e].type /\ u.trig = s.event[e].trig /\ u.prev = s.event[e].prev
      /\ u.block_interrupts = s.event[e].block_interrupts
  BY DEF BlockTyped, EventTyped
<1> HIDE DEF u
<1>3. /\ DOMAIN t.event = Gpes /\ t.event[e] = u
      /\ \A f \in Gpes \ {e} : t.event[f] = s.event[f]
  BY <1>1 DEF BlockTyped
<1>4. EventTyped(u)
  BY <1>2, BoundsAssumption DEF BlockTyped, EventTyped
<1>5. SameHandlers(s, t)
  BY <1>2, <1>3 DEF SameHandlers
<1>6. \A f \in Gpes : t.event[f].block_interrupts = s.event[f].block_interrupts
  BY <1>2, <1>3
<1>7. Users(t, e) = 0 /\ \A f \in Gpes \ {e} : Users(t, f) = Users(s, f)
  BY <1>2, <1>3 DEF Users
<1>8. t.runtime = {f \in Gpes : Users(t, f) > 0}
  BY <1>1, <1>7, BoundsAssumption DEF BlockTyped
<1>9. BlockTyped(t)
  BY <1>1, <1>3, <1>4, <1>8, BoundsAssumption DEF BlockTyped
<1> QED
  BY <1>1, <1>5, <1>6, <1>7, <1>9

\* A user is counted, and no bit of a mask changes.
LEMMA CountFits ==
    ASSUME NEW s, BlockTyped(s), NEW e \in Gpes, NEW n \in 1 .. MaxUsers, Users(s, e) > 0,
           NEW t, t = WithUsers(s, e, n)
    PROVE  UserChange(s, t) /\ UserKept(s, t) /\ SameHandlers(s, t)
<1> DEFINE u == [s.event[e] EXCEPT !.num_users = n]
<1>1. /\ DOMAIN t = DOMAIN s /\ t.event = [s.event EXCEPT ![e] = u]
      /\ t.status = s.status /\ t.enable = s.enable /\ t.wake = s.wake /\ t.masked = s.masked
      /\ t.runtime = s.runtime /\ t.current = s.current
  BY DEF WithUsers, BlockTyped
<1>2. /\ DOMAIN u = DOMAIN s.event[e] /\ u.num_users = n
      /\ u.type = s.event[e].type /\ u.trig = s.event[e].trig /\ u.prev = s.event[e].prev
      /\ u.block_interrupts = s.event[e].block_interrupts
  BY DEF BlockTyped, EventTyped
<1> HIDE DEF u
<1>3. /\ DOMAIN t.event = Gpes /\ t.event[e] = u
      /\ \A f \in Gpes \ {e} : t.event[f] = s.event[f]
  BY <1>1 DEF BlockTyped
<1>4. EventTyped(u)
  BY <1>2 DEF BlockTyped, EventTyped
<1>7. Users(t, e) = n /\ \A f \in Gpes \ {e} : Users(t, f) = Users(s, f)
  BY <1>2, <1>3 DEF Users
<1>8. t.runtime = {f \in Gpes : Users(t, f) > 0}
  BY <1>1, <1>7, BoundsAssumption DEF BlockTyped
<1>9. BlockTyped(t)
  BY <1>1, <1>3, <1>4, <1>8, BoundsAssumption DEF BlockTyped
<1> QED
  BY <1>1, <1>2, <1>3, <1>9 DEF UserChange, UserKept, SameHandlers

\* The bit of an event is set.
LEMMA EnableFits ==
    ASSUME NEW s, BlockTyped(s), NEW e \in Gpes, NEW t, t = Enabling(s, e)
    PROVE  /\ BlockTyped(t) /\ SameHandlers(s, t)
           /\ t.masked = s.masked /\ t.runtime = s.runtime /\ t.current = s.current
           /\ t.event = s.event /\ t.enable = s.enable \cup {e}
  BY DEF WriteEnable, Enabling, Disabling, BlockTyped, SameHandlers, Users

\* The bit of an event is cleared.
LEMMA DisableFits ==
    ASSUME NEW s, BlockTyped(s), NEW e \in Gpes, NEW t, t = Disabling(s, e)
    PROVE  /\ BlockTyped(t) /\ SameHandlers(s, t)
           /\ t.masked = s.masked /\ t.runtime = s.runtime /\ t.current = s.current
           /\ t.event = s.event /\ t.enable = s.enable \ {e}
  BY DEF WriteEnable, Enabling, Disabling, BlockTyped, SameHandlers, Users

\* The clearing of a status bit.
LEMMA ClearFits ==
    ASSUME NEW s, BlockTyped(s), NEW e \in Gpes, NEW t, t = clear_gpe(s, e)
    PROVE  /\ UserChange(s, t) /\ UserKept(s, t) /\ SameHandlers(s, t)
           /\ t.masked = s.masked /\ t.runtime = s.runtime /\ t.current = s.current
           /\ t.event = s.event /\ t.enable = s.enable
  BY DEF clear_gpe, BlockTyped, SameHandlers, UserChange, UserKept, Users

\* gpe_remove_user takes the event out of the masks with its last user, or
\* puts everything back.
LEMMA RemoveUserFits ==
    ASSUME NEW s, BlockTyped(s), NEW e \in Gpes, NEW ok \in BOOLEAN,
           NEW t, t = gpe_remove_user(s, e, ok)
    PROVE  UserChange(s, t) /\ (ok => UserKept(s, t)) /\ SameHandlers(s, t)
<1>0. Users(s, e) \in 0 .. MaxUsers /\ MaxUsers \in Nat \ {0}
  BY BoundsAssumption DEF BlockTyped, EventTyped, Users
<1>1. CASE Users(s, e) = 0
  BY <1>1 DEF gpe_remove_user, UserChange, UserKept, SameHandlers
<1>2. CASE Users(s, e) > 1
  <2> DEFINE n == Users(s, e) - 1
  <2>0. Users(s, e) # 0 /\ Users(s, e) # 1
    BY <1>0, <1>2
  <2>1. t = WithUsers(s, e, n)
    BY <1>2, <2>0, Zenon DEF gpe_remove_user
  <2>2. n \in 1 .. MaxUsers
    BY <1>0, <1>2
  <2> HIDE DEF n
  <2> QED
    BY <1>0, <1>2, <2>1, <2>2, CountFits
<1>3. CASE Users(s, e) = 1
  <2> DEFINE gone == OutOfMasks(WithUsers(s, e, 0), e)
  <2>2. /\ BlockTyped(gone) /\ SameHandlers(s, gone)
        /\ gone.masked = s.masked /\ gone.enable = s.enable /\ gone.current = gone.runtime
        /\ \A f \in Gpes : gone.event[f].block_interrupts = s.event[f].block_interrupts
        /\ gone.runtime = s.runtime \ {e} /\ Users(gone, e) = 0
    BY ToggleOffFits
  <2>3. CASE ok
    <3>1. t = Disabling(gone, e)
      BY <1>3, <2>3 DEF gpe_remove_user, Disabling, IntoMasks, OutOfMasks
    <3> HIDE DEF gone
    <3>2. /\ BlockTyped(t) /\ SameHandlers(gone, t)
          /\ t.masked = gone.masked /\ t.runtime = gone.runtime /\ t.current = gone.current
          /\ t.event = gone.event /\ t.enable = gone.enable \ {e}
      BY <2>2, <3>1, DisableFits
    <3> QED
      BY <2>2, <3>2 DEF UserChange, UserKept, SameHandlers
  <2>4. CASE ~ok
    <3>2. t = IntoMasks(WithUsers(gone, e, 1), e)
      BY <1>3, <2>4 DEF gpe_remove_user, Disabling, IntoMasks, OutOfMasks
    <3> HIDE DEF gone
    <3>3. /\ BlockTyped(t) /\ SameHandlers(gone, t)
          /\ t.masked = gone.masked /\ t.enable = gone.enable /\ t.current = t.runtime
          /\ \A f \in Gpes : t.event[f].block_interrupts = gone.event[f].block_interrupts
      BY <1>0, <1>3, <2>2, <3>2, ToggleOnFits
    <3> QED
      BY <2>2, <2>4, <3>3 DEF UserChange, SameHandlers
  <2> QED
    BY <2>3, <2>4
<1> QED
  BY <1>0, <1>1, <1>2, <1>3

\* gpe_add_user puts the event into the masks with its first user and enables
\* it if it is not masked, or puts everything back.
LEMMA AddUserFits ==
    ASSUME NEW s, BlockTyped(s), NEW e \in Gpes, NEW clear \in BOOLEAN, NEW ok \in BOOLEAN,
           NEW t, t = gpe_add_user(s, e, clear, ok)
    PROVE  UserChange(s, t) /\ (ok => UserKept(s, t)) /\ SameHandlers(s, t)
<1>0. Users(s, e) \in 0 .. MaxUsers /\ MaxUsers \in Nat \ {0}
  BY BoundsAssumption DEF BlockTyped, EventTyped, Users
<1>1. CASE Users(s, e) = MaxUsers
  <2>0. Users(s, e) # 0 /\ Users(s, e) \notin 1 .. MaxUsers - 1
    BY <1>0, <1>1
  <2>1. t = s
    BY <1>1, <2>0, Zenon DEF gpe_add_user
  <2> QED
    BY <2>1 DEF UserChange, UserKept, SameHandlers
<1>2. CASE Users(s, e) \in 1 .. MaxUsers - 1
  <2> DEFINE n == Users(s, e) + 1
  <2>0. Users(s, e) # 0 /\ Users(s, e) # MaxUsers
    BY <1>0, <1>2
  <2>1. t = WithUsers(s, e, n)
    BY <1>2, <2>0, Zenon DEF gpe_add_user
  <2>2. n \in 1 .. MaxUsers
    BY <1>0, <1>2
  <2> HIDE DEF n
  <2> QED
    BY <1>0, <1>2, <2>1, <2>2, CountFits
<1>3. CASE Users(s, e) = 0
  <2> DEFINE cleared == IF clear THEN clear_gpe(s, e) ELSE s
             first == IntoMasks(WithUsers(cleared, e, 1), e)
  <2>c. /\ BlockTyped(cleared) /\ SameHandlers(s, cleared)
        /\ cleared.masked = s.masked /\ cleared.runtime = s.runtime
        /\ cleared.event = s.event /\ cleared.enable = s.enable
    <3>1. CASE clear
      BY <3>1, ClearFits DEF UserChange
    <3>2. CASE ~clear
      BY <3>2 DEF SameHandlers
    <3> QED
      BY <3>1, <3>2
  <2>t. \/ t = first /\ e \in s.masked
        \/ t = Enabling(first, e) /\ e \notin s.masked
        \/ /\ t = OutOfMasks(WithUsers(first, e, 0), e)
           /\ ~ok
    <3>1. first.masked = s.masked
      <4> HIDE DEF cleared
      <4> QED
        BY <2>c DEF gp_event_toggle_masks, IntoMasks, WithUsers, BlockTyped
    <3>2. Users(s, e) # MaxUsers /\ Users(s, e) \notin 1 .. MaxUsers - 1
      BY <1>0, <1>3
    <3>3. MayEnable(first, e) <=> e \notin s.masked
      BY <3>1 DEF MayEnable
    <3>4. CASE e \in s.masked
      BY <1>3, <3>2, <3>3, <3>4, Zenon DEF gpe_add_user, IntoMasks
    <3>5. CASE e \notin s.masked /\ ok
      BY <1>3, <3>2, <3>3, <3>5, Zenon DEF gpe_add_user, IntoMasks, Enabling
    <3>6. CASE e \notin s.masked /\ ~ok
      BY <1>3, <3>2, <3>3, <3>6, Zenon DEF gpe_add_user, IntoMasks, OutOfMasks
    <3> QED
      BY <3>4, <3>5, <3>6
  <2> HIDE DEF cleared
  <2>f. /\ BlockTyped(first) /\ SameHandlers(cleared, first)
        /\ first.masked = cleared.masked /\ first.enable = cleared.enable
        /\ first.current = first.runtime
        /\ \A f \in Gpes : first.event[f].block_interrupts = cleared.event[f].block_interrupts
        /\ first.runtime = cleared.runtime \cup {e}
    BY <1>0, <1>3, <2>c, ToggleOnFits
  <2>e. e \notin s.runtime
    BY <1>3 DEF BlockTyped
  <2> HIDE DEF first
  <2>1. CASE t = first /\ e \in s.masked
    BY <2>1, <2>c, <2>f DEF UserChange, UserKept, SameHandlers
  <2>2. CASE t = Enabling(first, e) /\ e \notin s.masked
    <3>2. /\ BlockTyped(t) /\ SameHandlers(first, t)
          /\ t.masked = first.masked /\ t.runtime = first.runtime /\ t.current = first.current
          /\ t.event = first.event /\ t.enable = first.enable \cup {e}
      BY <2>f, <2>2, EnableFits
    <3> QED
      BY <2>2, <2>c, <2>f, <3>2 DEF UserChange, UserKept, SameHandlers
  <2>3. CASE /\ t = OutOfMasks(WithUsers(first, e, 0), e)
             /\ ~ok
    <3>2. /\ BlockTyped(t) /\ SameHandlers(first, t)
          /\ t.masked = first.masked /\ t.enable = first.enable /\ t.current = t.runtime
          /\ \A f \in Gpes : t.event[f].block_interrupts = first.event[f].block_interrupts
      BY <2>f, <2>3, ToggleOffFits
    <3> QED
      BY <2>3, <2>c, <2>f, <3>2 DEF UserChange, SameHandlers
  <2> QED
    BY <2>t, <2>1, <2>2, <2>3
<1> QED
  BY <1>0, <1>1, <1>2, <1>3

\* Finalization counts a user of every event it chooses, whichever fail.
LEMMA AddUsersFits ==
    ASSUME NEW s, BlockTyped(s), NEW set \in SUBSET Gpes, NEW lost \in SUBSET Gpes,
           \A e \in set : Users(s, e) < MaxUsers, \A e \in lost : e \in set /\ Users(s, e) = 0,
           NEW t, t = AddUsers(s, set, lost)
    PROVE  UserChange(s, t) /\ (lost = {} => UserKept(s, t)) /\ SameHandlers(s, t)
<1> DEFINE first == {e \in set : Users(s, e) = 0}
           mask == (s.runtime \cup first) \ lost
<1>1. /\ DOMAIN t = DOMAIN s /\ t.runtime = mask
      /\ t.status = s.status /\ t.wake = s.wake /\ t.masked = s.masked
      /\ t.current = (IF first = {} THEN s.current ELSE mask)
      /\ t.enable = s.enable \cup ((first \ lost) \ s.masked)
  BY DEF AddUsers, BlockTyped
<1>e. DOMAIN t.event = Gpes
  BY DEF AddUsers, BlockTyped
<1>2. \A f \in Gpes : /\ DOMAIN t.event[f] = DOMAIN s.event[f]
                      /\ t.event[f].num_users = IF f \in set \ lost THEN Users(s, f) + 1 ELSE Users(s, f)
                      /\ t.event[f].type = s.event[f].type /\ t.event[f].trig = s.event[f].trig
                      /\ t.event[f].prev = s.event[f].prev
                      /\ t.event[f].block_interrupts = s.event[f].block_interrupts
  <2> TAKE f \in Gpes
  <2>1. CASE f \in set \ lost
    <3>1. t.event[f] = WithUsers(s, f, Users(s, f) + 1).event[f]
      BY <2>1 DEF AddUsers, BlockTyped
    <3> QED
      BY <2>1, <3>1 DEF WithUsers, BlockTyped, EventTyped
  <2>2. CASE f \notin set \ lost
    <3>1. t.event[f] = s.event[f]
      BY <2>2 DEF AddUsers, BlockTyped
    <3> QED
      BY <2>2, <3>1 DEF Users
  <2> QED
    BY <2>1, <2>2
<1>4. \A f \in Gpes : EventTyped(t.event[f])
  <2> TAKE f \in Gpes
  <2>1. Users(s, f) \in 0 .. MaxUsers
    BY DEF BlockTyped, EventTyped, Users
  <2>2. t.event[f].num_users \in 0 .. MaxUsers
    BY <1>2, <2>1, BoundsAssumption
  <2> QED
    BY <1>2, <2>2 DEF BlockTyped, EventTyped
<1>5. mask = {f \in Gpes : Users(t, f) > 0}
  <2>1. \A f \in Gpes : Users(s, f) \in Nat
    BY BoundsAssumption DEF BlockTyped, EventTyped, Users
  <2> QED
    BY <1>1, <1>2, <2>1 DEF BlockTyped, Users
<1>6. BlockTyped(t)
  BY <1>1, <1>e, <1>4, <1>5 DEF BlockTyped
<1>7. t.runtime \ t.current \subseteq s.runtime \ s.current
  <2>1. first = {} => lost = {} /\ mask = s.runtime
    OBVIOUS
  <2> QED
    BY <1>1, <2>1
<1>8. lost = {} => UserKept(s, t)
  BY <1>1 DEF UserKept
<1> QED
  BY <1>1, <1>2, <1>6, <1>7, <1>8 DEF UserChange, SameHandlers

\* The way back of gpe_mask_unmask.
LEMMA UnmaskFits ==
    ASSUME NEW s, BlockTyped(s), NEW e \in Gpes, NEW t, t = Unmask(s, e)
    PROVE  /\ BlockTyped(t) /\ t.masked = s.masked \ {e} /\ t.event = s.event
           /\ t.runtime = s.runtime /\ t.current = s.current
           /\ s.enable \subseteq t.enable /\ t.enable \subseteq s.enable \cup {e}
           /\ ~s.event[e].block_interrupts /\ e \in s.runtime /\ e \in s.current => e \in t.enable
<1> DEFINE open == [s EXCEPT !.masked = @ \ {e}]
<1>1. /\ BlockTyped(open) /\ open.masked = s.masked \ {e} /\ open.event = s.event
      /\ open.runtime = s.runtime /\ open.current = s.current /\ open.enable = s.enable
  BY DEF BlockTyped, Users
<1>2. t = open \/ t = Enabling(open, e)
  BY DEF Unmask, Enabling
<1>3. ~s.event[e].block_interrupts /\ e \in s.runtime /\ e \in s.current =>
        t = Enabling(open, e)
  BY <1>1 DEF Unmask, Enabling, MayReenable, MayEnable, BlockTyped
<1> HIDE DEF open
<1>4. CASE t = open
  <2>1. t = Enabling(open, e) => e \in t.enable
    BY <1>1, EnableFits
  <2> QED
    BY <1>1, <1>3, <1>4, <2>1
<1>5. CASE t = Enabling(open, e)
  BY <1>1, <1>5, EnableFits
<1> QED
  BY <1>2, <1>4, <1>5

\* A call that counts users, changes handlers or clears bits, and then
\* unmasks its event or does not, keeps the invariant.
LEMMA UserReturn ==
    ASSUME IInv, ReturnFrame, RunnerTyped("api")', awake' = awake,
           NEW s, UserChange(block, s), faults' = 0 => UserKept(block, s),
           \/ block' = s /\ kept' = kept
           \/ \E e \in Gpes : block' = Unmask(s, e) /\ kept' = Unmasked(kept, e)
    PROVE  IInv'
<1> USE DEF IInv
<1>0. Typed /\ BlockTyped(block) /\ BlockTyped(s) /\ api.pc \in {"idle", "swap"}
      /\ block.runtime \subseteq Gpes /\ s.runtime \subseteq Gpes
  BY DEF Typed, UserChange, ReturnFrame, BlockTyped
<1>f. faults' = 0 => faults = 0
  BY DEF ReturnFrame
<1>1. CASE block' = s /\ kept' = kept
  <2>1. ReturnSafe
    BY <1>0, <1>1, <1>f DEF ReturnSafe, UserChange, MaskedOff
  <2>2. ReturnFair
    <3> SUFFICES ASSUME faults' = 0 PROVE
          /\ \A f \in Gpes : s.event[f].block_interrupts =>
               f \in kept \/ \E q \in Runners : Holds(q, f)
          /\ awake => s.runtime \ s.current \subseteq kept
          /\ awake => \A f \in s.runtime \ (s.masked \cup kept) :
               f \in s.enable \/ \E q \in Runners : Owes(q, f)
      BY <1>1 DEF ReturnFair
    <3>1. \A f \in Gpes : s.event[f].block_interrupts =>
            f \in kept \/ \E q \in Runners : Holds(q, f)
      BY <1>f DEF BlockedBy, UserChange
    <3>2. awake => s.runtime \ s.current \subseteq kept
      BY <1>f DEF CurrentUsed, UserChange
    <3>3. awake => \A f \in s.runtime \ (s.masked \cup kept) :
            f \in s.enable \/ \E q \in Runners : Owes(q, f)
      BY <1>f DEF EnabledOrOwed, UserChange, UserKept
    <3> QED
      BY <3>1, <3>2, <3>3
  <2>3. BlockTyped(block)'
    BY <1>0, <1>1
  <2> QED
    BY <2>1, <2>2, <2>3, ReturnKeeps
<1>2. ASSUME NEW e \in Gpes, block' = Unmask(s, e), kept' = Unmasked(kept, e) PROVE IInv'
  <2>0. /\ BlockTyped(block') /\ block'.masked = s.masked \ {e} /\ block'.event = s.event
        /\ block'.runtime = s.runtime /\ block'.current = s.current
        /\ s.enable \subseteq block'.enable /\ block'.enable \subseteq s.enable \cup {e}
        /\ ~s.event[e].block_interrupts /\ e \in s.runtime /\ e \in s.current =>
             e \in block'.enable
    BY <1>0, <1>2, UnmaskFits
  <2>k. /\ \A f \in kept : f \in kept' \/ (f = e /\ e \in block.current
                                           /\ ~block.event[e].block_interrupts)
        /\ block.event[e].block_interrupts /\ e \notin kept' =>
             e \notin kept /\ \A q \in Runners : ~Busy(q, e)
    BY <1>2 DEF Unmasked, Freed
  <2>1. ReturnSafe
    BY <1>0, <2>0, <1>f DEF ReturnSafe, UserChange, MaskedOff
  <2>2. ReturnFair
    <3> SUFFICES ASSUME faults' = 0 PROVE
          /\ \A f \in Gpes : s.event[f].block_interrupts =>
               f \in kept' \/ \E q \in Runners : Holds(q, f)
          /\ awake => s.runtime \ s.current \subseteq kept'
          /\ awake => \A f \in s.runtime \ ((s.masked \ {e}) \cup kept') :
               f \in block'.enable \/ \E q \in Runners : Owes(q, f)
      BY <2>0 DEF ReturnFair
    <3>1. \A f \in Gpes : s.event[f].block_interrupts =>
            f \in kept' \/ \E q \in Runners : Holds(q, f)
      BY <1>f, <2>k DEF BlockedBy, UserChange
    <3>2. awake => s.runtime \ s.current \subseteq kept'
      BY <1>f, <2>k DEF CurrentUsed, UserChange
    <3>3. ASSUME awake, NEW f \in s.runtime \ ((s.masked \ {e}) \cup kept')
          PROVE  f \in block'.enable \/ \E q \in Runners : Owes(q, f)
      <4>1. CASE f # e
        BY <1>f, <2>0, <2>k, <3>3, <4>1 DEF EnabledOrOwed, UserChange, UserKept
      <4>2. CASE f = e
        <5>1. ~s.event[e].block_interrupts
          <6> SUFFICES ASSUME s.event[e].block_interrupts PROVE FALSE
            OBVIOUS
          <6>1. block.event[e].block_interrupts
            BY DEF UserChange
          <6>2. \E q \in Runners : Holds(q, e)
            BY <1>f, <2>k, <3>3, <4>2, <6>1 DEF BlockedBy
          <6> QED
            BY <2>k, <3>3, <4>2, <6>1, <6>2 DEF Holds, Busy
        <5>2. e \in s.current
          BY <3>2, <3>3, <4>2
        <5> QED
          BY <2>0, <3>3, <4>2, <5>1, <5>2
      <4> QED
        BY <4>1, <4>2
    <3> QED
      BY <3>1, <3>2, <3>3
  <2>3. BlockTyped(block)'
    BY <2>0
  <2> QED
    BY <2>1, <2>2, <2>3, ReturnKeeps
<1> QED
  BY <1>1, <1>2

\* The runner that a call leaves behind rests, polls one event, restores
\* one, or begins a detection.
Left(x) ==
    /\ DOMAIN x = {"pc", "e", "todo", "unblock"} /\ x.todo = {}
    /\ \/ x.pc \in {"idle", "status"} /\ x.e = None
       \/ x.pc = "poll" /\ x.e \in Gpes
       \/ x.pc \in {"restore", "check"} /\ x.e \in Gpes /\ x.unblock

\* The API caller at rest has left its call.
LEMMA RestingLeft == Left(Resting)
  BY DEF Left, Resting

\* So has one that goes on to poll an event, if there is a poll to do.
LEMMA PollingLeft == ASSUME NEW s, NEW e \in Gpes PROVE Left(Polling(s, e))
  BY RestingLeft DEF Left, Resting, Polling

\* A call that is one step returns.
LEMMA OneStepReturns ==
    ASSUME IInv, NEW s, NEW x, OneStep(s, x), Left(x), kept' \subseteq Gpes,
           faults' \in Nat, faults' = 0 => faults = 0
    PROVE  ReturnFrame /\ RunnerTyped("api")' /\ block' = s
<1>0. DOMAIN run = Runners /\ "api" \in Runners
  BY DEF IInv, Typed, Runners
<1>1. /\ run' = [run EXCEPT !["api"] = x] /\ api' = api /\ api = NoCall /\ At("api", "idle")
      /\ block' = s /\ flush' = flush
  BY DEF OneStep, Begin
<1>2. run'["api"] = x
  BY <1>0, <1>1
<1>3. ReturnFrame
  BY <1>0, <1>1, <1>2 DEF ReturnFrame, Left, NoCall
<1>4. RunnerTyped("api")'
  BY <1>2, NamesAssumption DEF RunnerTyped, Left
<1> QED
  BY <1>1, <1>3, <1>4

\* So does one that ends with its change.
LEMMA EndSwapReturns ==
    ASSUME IInv, NEW s, NEW x, EndSwap(s, x), Left(x), api.pc = "swap", api.e \in Gpes,
           faults' \in Nat, faults' = 0 => faults = 0
    PROVE  /\ ReturnFrame /\ RunnerTyped("api")' /\ awake' = awake
           /\ \/ block' = s /\ kept' = kept
              \/ block' = Unmask(s, api.e) /\ kept' = Unmasked(kept, api.e)
<1>0. /\ DOMAIN run = Runners /\ "api" \in Runners /\ kept \subseteq Gpes
      /\ At("api", "idle")
  BY DEF IInv, Typed, Runners, ApiTyped
<1>1. /\ run' = [run EXCEPT !["api"] = x] /\ api' = NoCall
      /\ flush' = flush /\ awake' = awake
      /\ \/ block' = s /\ kept' = kept
         \/ block' = Unmask(s, api.e) /\ kept' = Unmasked(kept, api.e)
  BY DEF EndSwap
<1>2. run'["api"] = x
  BY <1>0, <1>1
<1>3. kept' \subseteq Gpes
  BY <1>0, <1>1 DEF Unmasked, Freed
<1>4. ReturnFrame
  BY <1>0, <1>1, <1>2, <1>3 DEF ReturnFrame, Left
<1>5. RunnerTyped("api")'
  BY <1>2, NamesAssumption DEF RunnerTyped, Left
<1> QED
  BY <1>1, <1>4, <1>5

(***************************************************************************)
(* The calls.                                                              *)
(***************************************************************************)
\* An access that fails is counted.
LEMMA AccessFits ==
    ASSUME IInv, NEW ok \in BOOLEAN, Access(ok)
    PROVE  faults' \in Nat /\ (faults' = 0 => faults = 0 /\ ok)
  BY DEF IInv, Typed, Access

\* A call without accesses counts no failure.
LEMMA Unfailing ==
    ASSUME IInv, faults' = faults
    PROVE  faults' \in Nat /\ (faults' = 0 => faults = 0)
  BY DEF IInv, Typed

\* uacpi_enable_gpe counts a user and may poll an edge event.
LEMMA EnableKeeps ==
    ASSUME IInv, NEW e \in Gpes, NEW ok \in BOOLEAN, uacpi_enable_gpe(e, ok)
    PROVE  IInv'
<1>0. BlockTyped(block) /\ kept \subseteq Gpes
  BY DEF IInv, Typed
<1>1. faults' \in Nat /\ (faults' = 0 => faults = 0 /\ ok) /\ awake' = awake /\ kept' = kept
  BY AccessFits DEF uacpi_enable_gpe
<1> PICK clear \in BOOLEAN : \E s, x :
      s = gpe_add_user(block, e, clear, ok) /\ x \in {Polling(s, e), Resting} /\ OneStep(s, x)
  BY DEF uacpi_enable_gpe
<1> PICK s, x :
      s = gpe_add_user(block, e, clear, ok) /\ x \in {Polling(s, e), Resting} /\ OneStep(s, x)
  OBVIOUS
<1>2. UserChange(block, s) /\ (ok => UserKept(block, s))
  BY <1>0, AddUserFits
<1>3. Left(x)
  BY PollingLeft, RestingLeft
<1>4. ReturnFrame /\ RunnerTyped("api")' /\ block' = s
  BY <1>0, <1>1, <1>3, OneStepReturns
<1> QED
  BY <1>1, <1>2, <1>4, UserReturn

\* uacpi_disable_gpe gives a user back.
LEMMA DisableUserKeeps ==
    ASSUME IInv, NEW e \in Gpes, NEW ok \in BOOLEAN, uacpi_disable_gpe(e, ok)
    PROVE  IInv'
<1>0. BlockTyped(block) /\ kept \subseteq Gpes
  BY DEF IInv, Typed
<1>1. faults' \in Nat /\ (faults' = 0 => faults = 0 /\ ok) /\ awake' = awake /\ kept' = kept
  BY AccessFits DEF uacpi_disable_gpe
<1> PICK s : s = gpe_remove_user(block, e, ok) /\ OneStep(s, Resting)
  BY DEF uacpi_disable_gpe
<1>2. UserChange(block, s) /\ (ok => UserKept(block, s))
  BY <1>0, RemoveUserFits
<1>4. ReturnFrame /\ RunnerTyped("api")' /\ block' = s
  BY <1>0, <1>1, RestingLeft, OneStepReturns
<1> QED
  BY <1>1, <1>2, <1>4, UserReturn

\* uacpi_clear_gpe clears a status bit.
LEMMA ClearKeeps == ASSUME IInv, NEW e \in Gpes, uacpi_clear_gpe(e) PROVE IInv'
<1>0. BlockTyped(block) /\ kept \subseteq Gpes
  BY DEF IInv, Typed
<1>1. faults' \in Nat /\ (faults' = 0 => faults = 0) /\ awake' = awake /\ kept' = kept
  BY Unfailing DEF uacpi_clear_gpe
<1> PICK s : s = clear_gpe(block, e) /\ OneStep(s, Resting)
  BY DEF uacpi_clear_gpe
<1>2. UserChange(block, s) /\ UserKept(block, s)
  BY <1>0, ClearFits
<1>4. ReturnFrame /\ RunnerTyped("api")' /\ block' = s
  BY <1>0, <1>1, RestingLeft, OneStepReturns
<1> QED
  BY <1>1, <1>2, <1>4, UserReturn

\* A block like s, but for what events record of users, handlers and
\* interrupts of one event.
EventSet(s, t, e, u) ==
    /\ DOMAIN t = DOMAIN s /\ DOMAIN t.event = DOMAIN s.event
    /\ t.event[e] = u /\ \A f \in Gpes \ {e} : t.event[f] = s.event[f]
    /\ t.status = s.status /\ t.runtime = s.runtime /\ t.wake = s.wake
    /\ t.masked = s.masked /\ t.current = s.current /\ t.live = s.live

\* Such a change keeps the types when the users of the event stay as many.
LEMMA EventSetFits ==
    ASSUME NEW s, BlockTyped(s), NEW e \in Gpes, NEW t, NEW u, EventSet(s, t, e, u),
           EventTyped(u), u.num_users = Users(s, e), t.enable \subseteq Gpes
    PROVE  BlockTyped(t)
<1>1. \A f \in Gpes : Users(t, f) = Users(s, f)
  BY DEF EventSet, Users
<1>2. t.runtime = {f \in Gpes : Users(t, f) > 0}
  BY <1>1 DEF EventSet, BlockTyped
<1> QED
  BY <1>2 DEF EventSet, BlockTyped

\* uacpi_suspend_gpe disables the event and blocks its interrupts.
LEMMA SuspendKeeps ==
    ASSUME IInv, NEW e \in Gpes, NEW ok \in BOOLEAN, uacpi_suspend_gpe(e, ok)
    PROVE  IInv'
<1> USE DEF IInv
<1>0. BlockTyped(block) /\ kept \subseteq Gpes
  BY DEF Typed
<1>1. faults' \in Nat /\ (faults' = 0 => faults = 0 /\ ok) /\ awake' = awake
      /\ kept' = kept \cup {e}
  BY AccessFits DEF uacpi_suspend_gpe
<1> DEFINE u == [block.event[e] EXCEPT !.block_interrupts = TRUE]
<1> PICK s : /\ OneStep(s, Resting)
             /\ s = WriteEnable([block EXCEPT !.event[e].block_interrupts = TRUE], e, FALSE, ok)
  BY DEF uacpi_suspend_gpe
<1>2. EventSet(block, s, e, u) /\ s.enable = IF ok THEN block.enable \ {e} ELSE block.enable
  BY <1>0 DEF EventSet, BlockTyped, WriteEnable
<1>3. EventTyped(u) /\ u.num_users = Users(block, e)
  BY <1>0 DEF BlockTyped, EventTyped, Users
<1>4. ReturnFrame /\ RunnerTyped("api")' /\ block' = s /\ api.pc = "idle"
  BY <1>0, <1>1, RestingLeft, OneStepReturns DEF OneStep, Begin, NoCall
<1> HIDE DEF u
<1>5. s.enable \subseteq Gpes
  BY <1>0, <1>2 DEF BlockTyped
<1>6. BlockTyped(block)'
  BY <1>0, <1>2, <1>3, <1>4, <1>5, EventSetFits
<1>7. ReturnSafe
  BY <1>1, <1>2, <1>4 DEF ReturnSafe, EventSet, MaskedOff
<1>8. ReturnFair
  BY ZenonT(40), <1>1, <1>2, <1>4
  DEF ReturnFair, EventSet, BlockedBy, CurrentUsed, EnabledOrOwed
<1> QED
  BY <1>4, <1>6, <1>7, <1>8, ReturnKeeps

\* uacpi_resume_gpe takes both back, unless the event is masked.
LEMMA ResumeKeeps ==
    ASSUME IInv, NEW e \in Gpes, NEW ok \in BOOLEAN, uacpi_resume_gpe(e, ok)
    PROVE  IInv'
<1> USE DEF IInv
<1>0. BlockTyped(block) /\ kept \subseteq Gpes
  BY DEF Typed
<1>1. faults' \in Nat /\ (faults' = 0 => faults = 0 /\ ok) /\ awake' = awake
      /\ kept' = Freed(kept, e)
  BY AccessFits DEF uacpi_resume_gpe
<1> DEFINE u == [block.event[e] EXCEPT !.block_interrupts = FALSE]
<1> PICK s : /\ OneStep(s, Resting)
             /\ s = WriteEnable([block EXCEPT !.event[e].block_interrupts = FALSE],
                                e, TRUE, ok /\ MayEnable(block, e))
  BY DEF uacpi_resume_gpe
<1>2. /\ EventSet(block, s, e, u)
      /\ s.enable = IF ok /\ e \notin block.masked THEN block.enable \cup {e} ELSE block.enable
  BY <1>0 DEF EventSet, BlockTyped, WriteEnable, MayEnable
<1>3. EventTyped(u) /\ u.num_users = Users(block, e) /\ ~u.block_interrupts
  BY <1>0 DEF BlockTyped, EventTyped, Users
<1>k. /\ kept' \subseteq kept /\ \A f \in kept : f # e => f \in kept'
      /\ e \notin block.current => kept' = kept
  BY <1>1 DEF Freed
<1>4. ReturnFrame /\ RunnerTyped("api")' /\ block' = s /\ api.pc = "idle"
  BY <1>0, <1>1, <1>k, RestingLeft, OneStepReturns DEF OneStep, Begin, NoCall
<1> HIDE DEF u
<1>5. s.enable \subseteq Gpes
  BY <1>0, <1>2 DEF BlockTyped
<1>6. BlockTyped(block)'
  BY <1>0, <1>2, <1>3, <1>4, <1>5, EventSetFits
<1>7. ReturnSafe
  BY <1>1, <1>2, <1>4 DEF ReturnSafe, EventSet, MaskedOff
<1>8. ReturnFair
  <2>1. faults' = 0 => \A f \in Gpes : block'.event[f].block_interrupts =>
          f \in kept' \/ \E q \in Runners : Holds(q, f)
    BY <1>1, <1>2, <1>3, <1>4, <1>k DEF EventSet, BlockedBy
  <2>2. faults' = 0 /\ awake' => block'.runtime \ block'.current \subseteq kept'
    BY <1>1, <1>2, <1>4, <1>k DEF EventSet, CurrentUsed
  <2>3. faults' = 0 /\ awake' => \A f \in block'.runtime \ (block'.masked \cup kept') :
          f \in block'.enable \/ \E q \in Runners : Owes(q, f)
    BY <1>1, <1>2, <1>4, <1>k DEF EventSet, EnabledOrOwed
  <2> QED
    BY <2>1, <2>2, <2>3 DEF ReturnFair
<1> QED
  BY <1>4, <1>6, <1>7, <1>8, ReturnKeeps

\* uacpi_finish_handling_gpe restores the event itself.
LEMMA FinishHandlingKeeps ==
    ASSUME IInv, NEW e \in Gpes, uacpi_finish_handling_gpe(e)
    PROVE  IInv'
<1> USE DEF IInv
<1>0. BlockTyped(block) /\ kept \subseteq Gpes /\ DOMAIN run = Runners /\ "api" \in Runners
  BY DEF Typed, Runners
<1>1. faults' \in Nat /\ (faults' = 0 => faults = 0) /\ awake' = awake
      /\ kept' = Freed(kept, e)
  BY Unfailing DEF uacpi_finish_handling_gpe
<1> DEFINE x == [Resting EXCEPT !.pc = Restoring(e), !.e = e, !.unblock = TRUE]
<1>x. Left(x) /\ x.pc \in {"restore", "check"} /\ x.e = e
  BY DEF Left, Resting, Restoring
<1> HIDE DEF x
<1>2. OneStep(block, x)
  BY DEF uacpi_finish_handling_gpe, x
<1>k. /\ kept' \subseteq kept /\ \A f \in kept : f # e => f \in kept'
      /\ e \notin block.current => kept' = kept
  BY <1>1 DEF Freed
<1>4. ReturnFrame /\ RunnerTyped("api")' /\ block' = block
  BY <1>0, <1>1, <1>2, <1>k, <1>x, OneStepReturns
<1>r. run'["api"].pc \in {"restore", "check"} /\ run'["api"].e = e /\ api.pc = "idle"
  BY <1>0, <1>2, <1>x DEF OneStep, Begin, NoCall
<1>w. Owes("api", e)' /\ Holds("api", e)'
  BY <1>r DEF Owes, Holds
<1>f. ReturnFair
  <2>1. faults' = 0 => \A f \in Gpes : block'.event[f].block_interrupts =>
          f \in kept' \/ Holds("api", f)' \/ \E q \in Runners : Holds(q, f)
    BY <1>1, <1>4, <1>k, <1>w DEF BlockedBy
  <2>2. faults' = 0 /\ awake' => block'.runtime \ block'.current \subseteq kept'
    BY <1>1, <1>4, <1>k DEF CurrentUsed
  <2>3. faults' = 0 /\ awake' => \A f \in block'.runtime \ (block'.masked \cup kept') :
          f \in block'.enable \/ Owes("api", f)' \/ \E q \in Runners : Owes(q, f)
    BY <1>1, <1>4, <1>k, <1>w DEF EnabledOrOwed
  <2> QED
    BY <2>1, <2>2, <2>3 DEF ReturnFair
<1>s. ReturnSafe
  BY <1>1, <1>4, <1>r DEF ReturnSafe, MaskedOff
<1>b. BlockTyped(block)'
  BY <1>0, <1>4
<1> QED
  BY <1>4, <1>f, <1>s, <1>b, ReturnKeeps

\* uacpi_unmask_gpe.
LEMMA UnmaskKeeps == ASSUME IInv, NEW e \in Gpes, uacpi_unmask_gpe(e) PROVE IInv'
<1>0. BlockTyped(block) /\ kept \subseteq Gpes
  BY DEF IInv, Typed
<1>1. faults' \in Nat /\ (faults' = 0 => faults = 0) /\ awake' = awake
      /\ kept' = Unmasked(kept, e) /\ kept' \subseteq Gpes
  BY <1>0, Unfailing DEF uacpi_unmask_gpe, Unmasked, Freed
<1>2. OneStep(Unmask(block, e), Resting)
  BY DEF uacpi_unmask_gpe
<1>3. UserChange(block, block) /\ UserKept(block, block)
  BY <1>0 DEF UserChange, UserKept
<1>4. ReturnFrame /\ RunnerTyped("api")' /\ block' = Unmask(block, e)
  BY <1>1, <1>2, RestingLeft, OneStepReturns
<1> QED
  BY <1>1, <1>3, <1>4, UserReturn

\* gpe_enable_disable_for_wake, uacpi_clear_all_events and the matching of
\* methods change neither users nor bits of events in use.
LEMMA QuietKeeps ==
    ASSUME IInv, NEW s, OneStep(s, Resting), UserChange(block, s), UserKept(block, s),
           awake' = awake, kept' = kept, faults' = faults
    PROVE  IInv'
<1>0. kept \subseteq Gpes
  BY DEF IInv, Typed
<1>1. faults' \in Nat /\ (faults' = 0 => faults = 0)
  BY Unfailing
<1>4. ReturnFrame /\ RunnerTyped("api")' /\ block' = s
  BY <1>0, <1>1, RestingLeft, OneStepReturns
<1> QED
  BY <1>1, <1>4, UserReturn

\* gpe_enable_disable_for_wake writes the wake mask only.
LEMMA ForWakeKeeps ==
    ASSUME IInv, NEW e \in Gpes, NEW enabled \in BOOLEAN, uacpi_enable_gpe_for_wake(e, enabled)
    PROVE  IInv'
<1>0. BlockTyped(block)
  BY DEF IInv, Typed
<1> PICK s : /\ OneStep(s, Resting)
             /\ s = [block EXCEPT !.wake = IF enabled THEN @ \cup {e} ELSE @ \cap {e}]
  BY DEF uacpi_enable_gpe_for_wake
<1>1. UserChange(block, s) /\ UserKept(block, s)
  BY <1>0 DEF UserChange, UserKept, BlockTyped, Users
<1>2. awake' = awake /\ kept' = kept /\ faults' = faults
  BY DEF uacpi_enable_gpe_for_wake
<1> QED
  BY <1>1, <1>2, QuietKeeps

\* uacpi_clear_all_events clears the status bits only.
LEMMA ClearAllKeeps == ASSUME IInv, uacpi_clear_all_events PROVE IInv'
<1>0. BlockTyped(block) /\ kept \subseteq Gpes
  BY DEF IInv, Typed
<1> PICK s : OneStep(s, Resting) /\ s = [block EXCEPT !.status = {}]
  BY DEF uacpi_clear_all_events
<1>1. UserChange(block, s) /\ UserKept(block, s)
  BY <1>0 DEF UserChange, UserKept, BlockTyped, Users
<1>2. awake' = awake /\ kept' = kept /\ faults' = faults
  BY DEF uacpi_clear_all_events
<1> QED
  BY <1>1, <1>2, QuietKeeps

\* Matching after a dynamic load gives methods to events that have no handler.
LEMMA MatchKeeps == ASSUME IInv, uacpi_events_match_post_dynamic_table_load PROVE IInv'
<1>0. BlockTyped(block)
  BY DEF IInv, Typed
<1> DEFINE found == {e \in DOMAIN LoadedAml : block.event[e].type \in {"none", "implicit"}}
           event == [e \in Gpes |->
                       IF e \in found
                       THEN [block.event[e] EXCEPT !.type = "aml", !.trig = LoadedAml[e],
                                                   !.devices = {}]
                       ELSE block.event[e]]
<1> PICK s : /\ OneStep(s, Resting) /\ found # {}
             /\ s = [block EXCEPT !.event = [e \in Gpes |->
                       IF e \in found
                       THEN [@[e] EXCEPT !.type = "aml", !.trig = LoadedAml[e], !.devices = {}]
                       ELSE @[e]]]
  BY Zenon DEF uacpi_events_match_post_dynamic_table_load
<1>2. awake' = awake /\ kept' = kept /\ faults' = faults
  BY DEF uacpi_events_match_post_dynamic_table_load
<1>3. /\ DOMAIN s = DOMAIN block /\ DOMAIN s.event = Gpes
      /\ s.status = block.status /\ s.enable = block.enable /\ s.runtime = block.runtime
      /\ s.wake = block.wake /\ s.masked = block.masked /\ s.current = block.current
  BY <1>0 DEF BlockTyped
<1>4. ASSUME NEW f \in Gpes
      PROVE  /\ EventTyped(s.event[f]) /\ Users(s, f) = Users(block, f)
             /\ s.event[f].block_interrupts = block.event[f].block_interrupts
  <2>1. CASE f \notin found
    <3>1. s.event[f] = block.event[f]
      BY <1>0, <2>1 DEF BlockTyped
    <3> QED
      BY <1>0, <3>1 DEF BlockTyped, Users
  <2>2. CASE f \in found
    <3>1. EventTyped(block.event[f]) /\ block.event[f].type \in {"none", "implicit"}
          /\ LoadedAml[f] \in Triggerings
      BY <1>0, <2>2, NamesAssumption DEF BlockTyped
    <3> DEFINE u == [block.event[f] EXCEPT !.type = "aml", !.trig = LoadedAml[f], !.devices = {}]
    <3>2. /\ EventTyped(u) /\ u.num_users = block.event[f].num_users
          /\ u.block_interrupts = block.event[f].block_interrupts
      BY <3>1 DEF EventTyped, Types, Native
    <3>3. s.event[f] = u
      BY <1>0, <2>2 DEF BlockTyped
    <3> QED
      BY <3>2, <3>3 DEF Users
  <2> QED
    BY <2>1, <2>2
<1>5. BlockTyped(s)
  BY ZenonT(40), <1>0, <1>3, <1>4 DEF BlockTyped
<1>6. UserChange(block, s) /\ UserKept(block, s)
  BY <1>3, <1>4, <1>5 DEF UserChange, UserKept
<1> QED
  BY <1>2, <1>6, QuietKeeps

\* uacpi_finalize_gpe_initialization.
LEMMA FinalizeKeeps ==
    ASSUME IInv, NEW lost \in SUBSET Gpes, uacpi_finalize_gpe_initialization(lost)
    PROVE  IInv'
<1>0. BlockTyped(block) /\ kept \subseteq Gpes /\ faults \in Nat
  BY DEF IInv, Typed
<1> DEFINE chosen == {e \in Gpes : /\ block.event[e].type = "aml" /\ ~block.event[e].wake
                                   /\ Users(block, e) < MaxUsers}
           b == [block EXCEPT !.finalized = TRUE]
           s == AddUsers(b, chosen, lost)
<1>1. /\ lost \subseteq {e \in chosen : Users(block, e) = 0}
      /\ \E x \in {Resting, [Resting EXCEPT !.pc = "status"]} : OneStep(s, x)
      /\ awake' = awake /\ kept' = kept /\ faults' = faults + Cardinality(lost)
  BY DEF uacpi_finalize_gpe_initialization
<1> PICK x \in {Resting, [Resting EXCEPT !.pc = "status"]} : OneStep(s, x)
  BY <1>1
<1>2. Left(x)
  BY DEF Left, Resting
<1>3. /\ BlockTyped(b) /\ b.event = block.event /\ b.masked = block.masked
      /\ b.enable = block.enable /\ b.runtime = block.runtime /\ b.current = block.current
  BY <1>0 DEF BlockTyped, Users
<1> HIDE DEF b
<1>4. UserChange(b, s) /\ (lost = {} => UserKept(b, s))
  <2>1. \A e \in chosen : Users(b, e) < MaxUsers
    BY <1>3 DEF Users
  <2>2. \A e \in lost : e \in chosen /\ Users(b, e) = 0
    BY <1>1, <1>3 DEF Users
  <2>3. chosen \in SUBSET Gpes
    OBVIOUS
  <2> HIDE DEF chosen
  <2> QED
    BY <1>3, <2>1, <2>2, <2>3, AddUsersFits
<1> HIDE DEF s
<1>5. UserChange(block, s) /\ (lost = {} => UserKept(block, s))
  BY <1>3, <1>4 DEF UserChange, UserKept
<1>6. IsFiniteSet(lost) /\ Cardinality(lost) \in Nat /\ (Cardinality(lost) = 0 => lost = {})
  BY NamesAssumption, FS_Subset, FS_CardinalityType, FS_EmptySet
<1>7. faults' \in Nat /\ (faults' = 0 => faults = 0 /\ lost = {})
  BY <1>0, <1>1, <1>6
<1>8. ReturnFrame /\ RunnerTyped("api")' /\ block' = s
  BY <1>0, <1>1, <1>2, <1>7, OneStepReturns
<1> QED
  BY <1>1, <1>5, <1>7, <1>8, UserReturn

\* gpe_block_apply_action writes both masks, of a set that the action chooses.
LEMMA ApplyReturns ==
    ASSUME IInv, NEW value \in SUBSET Gpes, NEW ok \in BOOLEAN, ApplyAction(value, ok),
           kept' \subseteq Gpes
    PROVE  /\ ReturnFrame /\ RunnerTyped("api")' /\ BlockTyped(block)'
           /\ faults' = 0 => faults = 0 /\ ok
           /\ api.pc = "idle"
           /\ block'.masked = block.masked /\ block'.runtime = block.runtime
           /\ block'.event = block.event /\ block'.current = value
           /\ block'.enable = IF ok THEN value ELSE block.enable
<1>0. BlockTyped(block)
  BY DEF IInv, Typed
<1>1. faults' \in Nat /\ (faults' = 0 => faults = 0 /\ ok)
  BY AccessFits DEF ApplyAction
<1> PICK s : /\ OneStep(s, Resting)
             /\ s = [block EXCEPT !.current = value, !.enable = IF ok THEN value ELSE @]
  BY DEF ApplyAction
<1>2. ReturnFrame /\ RunnerTyped("api")' /\ block' = s /\ api.pc = "idle"
  BY <1>1, RestingLeft, OneStepReturns DEF OneStep, Begin, NoCall
<1>3. /\ BlockTyped(s)
      /\ s.masked = block.masked /\ s.runtime = block.runtime
      /\ s.event = block.event /\ s.current = value
      /\ s.enable = IF ok THEN value ELSE block.enable
  BY <1>0 DEF BlockTyped, Users
<1> QED
  BY <1>1, <1>2, <1>3

\* On the way to sleep nothing is said of the enabled events.
LEMMA AllOffKeeps ==
    ASSUME IInv, NEW ok \in BOOLEAN,
           uacpi_disable_all_gpes(ok) \/ uacpi_enable_all_wake_gpes(ok)
    PROVE  IInv'
<1>0. BlockTyped(block) /\ kept \subseteq Gpes /\ kept' = kept /\ ~awake'
  BY DEF IInv, Typed, uacpi_disable_all_gpes, uacpi_enable_all_wake_gpes
<1>1. PICK value \in SUBSET Gpes : ApplyAction(value, ok)
  BY <1>0 DEF uacpi_disable_all_gpes, uacpi_enable_all_wake_gpes, BlockTyped
<1>2. /\ ReturnFrame /\ RunnerTyped("api")' /\ BlockTyped(block)'
      /\ faults' = 0 => faults = 0
      /\ block'.masked = block.masked /\ block'.event = block.event
  BY <1>0, <1>1, ApplyReturns
<1>3. ReturnSafe
  BY <1>0, <1>2 DEF ReturnSafe
<1>4. ReturnFair
  BY <1>0, <1>2 DEF ReturnFair, IInv, BlockedBy
<1> QED
  BY <1>2, <1>3, <1>4, ReturnKeeps

\* On the way back every event in use is enabled that is not masked.
LEMMA AllRuntimeKeeps ==
    ASSUME IInv, NEW ok \in BOOLEAN, uacpi_enable_all_runtime_gpes(ok)
    PROVE  IInv'
<1>0. BlockTyped(block) /\ kept \subseteq Gpes /\ block.runtime \subseteq Gpes
  BY DEF IInv, Typed, BlockTyped
<1> DEFINE value == block.runtime \ block.masked
<1>1. /\ ApplyAction(value, ok) /\ awake' = ok
      /\ kept' = {e \in kept : block.event[e].block_interrupts}
                   \cup (block.runtime \cap block.masked)
  BY DEF uacpi_enable_all_runtime_gpes
<1>2. /\ ReturnFrame /\ RunnerTyped("api")' /\ BlockTyped(block)'
      /\ faults' = 0 => faults = 0 /\ ok
      /\ block'.masked = block.masked /\ block'.runtime = block.runtime
      /\ block'.event = block.event /\ block'.current = value
      /\ block'.enable = IF ok THEN value ELSE block.enable
  BY <1>0, <1>1, ApplyReturns
<1>3. ReturnSafe
  BY <1>1, <1>2 DEF ReturnSafe
<1>4. ReturnFair
  BY <1>1, <1>2 DEF ReturnFair, IInv, BlockedBy
<1> QED
  BY <1>2, <1>3, <1>4, ReturnKeeps

(***************************************************************************)
(* The changes that a call masks its event for.                            *)
(***************************************************************************)
\* Of an event changed on top of the users, the masks know nothing.
LEMMA EventChange ==
    ASSUME NEW b, BlockTyped(b), NEW s, UserChange(b, s), NEW e \in Gpes, NEW t, NEW u,
           EventSet(s, t, e, u), t.enable = s.enable, EventTyped(u),
           u.num_users = Users(s, e), u.block_interrupts = s.event[e].block_interrupts
    PROVE  UserChange(b, t) /\ (UserKept(b, s) => UserKept(b, t))
<1>1. BlockTyped(s) /\ t.enable \subseteq Gpes
  BY DEF UserChange, BlockTyped
<1>2. BlockTyped(t)
  BY <1>1, EventSetFits
<1> QED
  BY <1>2 DEF UserChange, UserKept, EventSet

\* Two changes of users after one another, the first of which touches no mask.
LEMMA UserChangeAfter ==
    ASSUME NEW b, NEW s, NEW t, UserChange(b, s), UserChange(s, t),
           s.runtime = b.runtime, s.enable = b.enable
    PROVE  UserChange(b, t) /\ (UserKept(s, t) => UserKept(b, t))
  BY DEF UserChange, UserKept

\* No change is a change of users.
LEMMA NoChange == ASSUME NEW b, BlockTyped(b) PROVE UserChange(b, b) /\ UserKept(b, b)
  BY DEF UserChange, UserKept

\* do_install_gpe_handler saves what it replaces.
LEMMA InstallKeeps == ASSUME IInv, NEW ok \in BOOLEAN, InstallHandler(ok) PROVE IInv'
<1> DEFINE e == api.e
           old == block.event[e]
           enabled == old.type \in Deferred /\ old.num_users # 0
           s == IF enabled THEN gpe_remove_user(block, e, ok) ELSE block
           saved == [type |-> old.type, trig |-> old.trig, enabled |-> enabled]
           t == [s EXCEPT !.event[e].prev = saved, !.event[e].type = api.arg.type,
                          !.event[e].trig = api.arg.trig]
           u == [s.event[e] EXCEPT !.prev = saved, !.type = api.arg.type, !.trig = api.arg.trig]
<1>0. /\ BlockTyped(block) /\ e \in Gpes /\ old.type \notin Native
      /\ api.arg \in HandlerKinds /\ api.pc = "swap"
  BY DEF IInv, Typed, ApiTyped, InstallHandler, Swap
<1>1. Access(ok) /\ EndSwap(t, Resting)
  BY DEF InstallHandler
<1>2. faults' \in Nat /\ (faults' = 0 => faults = 0 /\ ok)
  BY <1>1, AccessFits
<1>3. saved \in Saved
  BY <1>0 DEF Saved, BlockTyped, EventTyped
<1>4. UserChange(block, s) /\ (ok => UserKept(block, s))
  BY <1>0, RemoveUserFits, NoChange
<1> HIDE DEF s, saved
<1>5. BlockTyped(s)
  BY <1>4 DEF UserChange
<1>k. api.arg.type \in Native /\ api.arg.trig \in Triggerings
  BY <1>0, NamesAssumption
<1>6. /\ EventTyped(u) /\ u.num_users = Users(s, e)
      /\ u.block_interrupts = s.event[e].block_interrupts
  BY <1>0, <1>3, <1>5, <1>k DEF BlockTyped, EventTyped, Types, Native, Users
<1>7. EventSet(s, t, e, u) /\ t.enable = s.enable
  BY <1>0, <1>5 DEF EventSet, BlockTyped
<1> HIDE DEF u, t
<1>8. UserChange(block, t) /\ (ok => UserKept(block, t))
  BY <1>0, <1>4, <1>6, <1>7, EventChange
<1>9. /\ ReturnFrame /\ RunnerTyped("api")' /\ awake' = awake
      /\ \/ block' = t /\ kept' = kept
         \/ block' = Unmask(t, e) /\ kept' = Unmasked(kept, e)
  BY <1>0, <1>1, <1>2, RestingLeft, EndSwapReturns
<1> QED
  BY <1>0, <1>2, <1>8, <1>9, UserReturn

\* uacpi_uninstall_gpe_handler brings back what was replaced.
LEMMA UninstallKeeps == ASSUME IInv, NEW ok \in BOOLEAN, UninstallHandler(ok) PROVE IInv'
<1> DEFINE e == api.e
           prev == block.event[e].prev
           old == [block EXCEPT !.event[e].prev = None, !.event[e].type = prev.type,
                                !.event[e].trig = prev.trig]
           enabled == prev.type \in Deferred /\ prev.enabled
           u == [block.event[e] EXCEPT !.prev = None, !.type = prev.type, !.trig = prev.trig]
<1>0. /\ BlockTyped(block) /\ e \in Gpes /\ block.event[e].type \in Native /\ api.pc = "swap"
  BY DEF IInv, Typed, ApiTyped, UninstallHandler, Swap
<1> DEFINE new == IF enabled THEN gpe_add_user(old, e, FALSE, ok) ELSE old
<1>1. Access(ok) /\ EndSwap(new, Polling(new, e))
  BY Zenon DEF UninstallHandler
<1> PICK clear \in BOOLEAN : \E s :
      /\ s = IF enabled THEN gpe_add_user(old, e, clear, ok) ELSE old
      /\ Access(ok) /\ EndSwap(s, Polling(s, e))
  <2> HIDE DEF old, enabled
  <2> QED
    BY <1>1, Zenon
<1> PICK s :
      /\ s = IF enabled THEN gpe_add_user(old, e, clear, ok) ELSE old
      /\ Access(ok) /\ EndSwap(s, Polling(s, e))
  OBVIOUS
<1>2. faults' \in Nat /\ (faults' = 0 => faults = 0 /\ ok)
  BY AccessFits
<1>3. prev.type \in Types \ Native /\ prev.trig \in Triggerings
  BY <1>0 DEF Saved, BlockTyped, EventTyped
<1>6. /\ EventTyped(u) /\ u.num_users = Users(block, e)
      /\ u.block_interrupts = block.event[e].block_interrupts
  <2>1. EventTyped(block.event[e])
    BY <1>0 DEF BlockTyped
  <2>2. /\ DOMAIN u = DOMAIN block.event[e] /\ u.num_users = block.event[e].num_users
        /\ u.type = prev.type /\ u.trig = prev.trig /\ u.prev = None
        /\ u.block_interrupts = block.event[e].block_interrupts
    BY <2>1 DEF EventTyped
  <2> HIDE DEF u, prev
  <2> QED
    BY <1>3, <2>1, <2>2 DEF EventTyped, Users
<1>7. EventSet(block, old, e, u) /\ old.enable = block.enable
  BY ZenonT(40), <1>0 DEF EventSet, BlockTyped
<1> HIDE DEF u, old
<1>8. UserChange(block, old) /\ UserKept(block, old)
  BY <1>0, <1>6, <1>7, NoChange, EventChange
<1>a. BlockTyped(old) /\ old.runtime = block.runtime
  BY <1>7, <1>8 DEF UserChange, EventSet
<1>9. UserChange(old, s) /\ (ok => UserKept(old, s))
  BY <1>0, <1>a, AddUserFits, NoChange
<1>10. UserChange(block, s) /\ (ok => UserKept(block, s))
  BY ZenonT(40), <1>7, <1>8, <1>9, <1>a, UserChangeAfter
<1>11. Left(Polling(s, e))
  BY <1>0, PollingLeft
<1>12. /\ ReturnFrame /\ RunnerTyped("api")' /\ awake' = awake
       /\ \/ block' = s /\ kept' = kept
          \/ block' = Unmask(s, e) /\ kept' = Unmasked(kept, e)
  <2>1. EndSwap(s, Polling(s, e)) /\ api.e \in Gpes /\ api.pc = "swap"
    BY <1>0
  <2> HIDE DEF prev, enabled
  <2> QED
    BY <1>2, <1>11, <2>1, EndSwapReturns
<1> QED
  BY <1>0, <1>2, <1>10, <1>12, UserReturn

\* uacpi_setup_gpe_for_wake notifies devices, or takes the user of a method.
LEMMA SetupKeeps == ASSUME IInv, NEW ok \in BOOLEAN, SetupForWake(ok) PROVE IInv'
<1> DEFINE e == api.e
           type == block.event[e].type
           asked == api.arg # NoDevice
           known == api.arg \in block.event[e].devices
           implicit == [block EXCEPT !.event[e].type = "implicit", !.event[e].trig = "level"]
           s1 == CASE asked /\ type = "none" -> implicit
                   [] asked /\ type = "aml" -> gpe_remove_user(block, e, ok)
                   [] OTHER -> block
           s2 == IF asked /\ s1.event[e].type = "implicit" /\ ok
                 THEN [s1 EXCEPT !.event[e].devices = @ \cup {api.arg}] ELSE s1
           t == IF type = "implicit" /\ known THEN block ELSE [s2 EXCEPT !.event[e].wake = TRUE]
           u1 == [block.event[e] EXCEPT !.type = "implicit", !.trig = "level"]
           u2 == [s1.event[e] EXCEPT !.devices = @ \cup {api.arg}]
           u3 == [s2.event[e] EXCEPT !.wake = TRUE]
<1>0. /\ BlockTyped(block) /\ e \in Gpes /\ api.pc = "swap"
  BY DEF IInv, Typed, ApiTyped, SetupForWake, Swap
<1>1. Access(ok) /\ EndSwap(t, Resting)
  BY Zenon DEF SetupForWake
<1>2. faults' \in Nat /\ (faults' = 0 => faults = 0 /\ ok)
  BY <1>1, AccessFits
<1>3. UserChange(block, s1) /\ (ok => UserKept(block, s1))
  <2>1. CASE asked /\ type = "none"
    <3>1. /\ EventTyped(u1) /\ u1.num_users = Users(block, e)
          /\ u1.block_interrupts = block.event[e].block_interrupts
      BY <1>0, <2>1 DEF BlockTyped, EventTyped, Users, Types, Native, Triggerings
    <3>2. EventSet(block, implicit, e, u1) /\ implicit.enable = block.enable
      BY <1>0 DEF EventSet, BlockTyped
    <3>3. s1 = implicit
      BY <2>1
    <3> HIDE DEF implicit, u1, s1
    <3> QED
      BY <1>0, <3>1, <3>2, <3>3, NoChange, EventChange
  <2>2. CASE asked /\ type = "aml"
    <3>1. s1 = gpe_remove_user(block, e, ok)
      BY <2>2
    <3> HIDE DEF s1
    <3> QED
      BY <1>0, <3>1, RemoveUserFits
  <2>3. CASE ~(asked /\ type = "none") /\ ~(asked /\ type = "aml")
    <3>1. s1 = block
      BY <2>3
    <3> HIDE DEF s1
    <3> QED
      BY <1>0, <3>1, NoChange
  <2> QED
    BY <2>1, <2>2, <2>3
<1> HIDE DEF s1
<1>4. UserChange(block, s2) /\ (ok => UserKept(block, s2))
  <2>0. BlockTyped(s1)
    BY <1>3 DEF UserChange
  <2>1. /\ EventTyped(u2) /\ u2.num_users = Users(s1, e)
        /\ u2.block_interrupts = s1.event[e].block_interrupts
    BY <1>0, <2>0 DEF BlockTyped, EventTyped, Users
  <2> DEFINE more == [s1 EXCEPT !.event[e].devices = @ \cup {api.arg}]
  <2>2. EventSet(s1, more, e, u2) /\ more.enable = s1.enable
    BY <1>0, <2>0 DEF EventSet, BlockTyped
  <2>3. s2 \in {s1, more}
    OBVIOUS
  <2> HIDE DEF more, u2, s2
  <2>4. UserChange(block, more) /\ (ok => UserKept(block, more))
    BY <1>0, <1>3, <2>1, <2>2, EventChange
  <2> QED
    BY <1>3, <2>3, <2>4
<1> HIDE DEF s2
<1>5. UserChange(block, t) /\ (ok => UserKept(block, t))
  <2>0. BlockTyped(s2)
    BY <1>4 DEF UserChange
  <2>1. /\ EventTyped(u3) /\ u3.num_users = Users(s2, e)
        /\ u3.block_interrupts = s2.event[e].block_interrupts
    BY <1>0, <2>0 DEF BlockTyped, EventTyped, Users
  <2> DEFINE more == [s2 EXCEPT !.event[e].wake = TRUE]
  <2>2. EventSet(s2, more, e, u3) /\ more.enable = s2.enable
    BY <1>0, <2>0 DEF EventSet, BlockTyped
  <2>3. t \in {block, more}
    OBVIOUS
  <2> HIDE DEF more, u3, t
  <2>4. UserChange(block, more) /\ (ok => UserKept(block, more))
    BY <1>0, <1>4, <2>1, <2>2, EventChange
  <2> QED
    BY <1>0, <2>3, <2>4, NoChange
<1> HIDE DEF t
<1>9. /\ ReturnFrame /\ RunnerTyped("api")' /\ awake' = awake
      /\ \/ block' = t /\ kept' = kept
         \/ block' = Unmask(t, e) /\ kept' = Unmasked(kept, e)
  BY <1>0, <1>1, <1>2, RestingLeft, EndSwapReturns
<1> QED
  BY <1>0, <1>2, <1>5, <1>9, UserReturn

\* uninstall_gpe_block ends the life of the block.
LEMMA RemoveKeeps == ASSUME IInv, RemoveBlock PROVE IInv'
<1>0. /\ BlockTyped(block) /\ DOMAIN run = Runners /\ "api" \in Runners /\ RunnerTyped("api")
      /\ kept \subseteq Gpes /\ At("api", "idle") /\ api.pc = "swap"
  BY DEF IInv, Typed, ApiTyped, RemoveBlock, Swap, Runners
<1>1. /\ block' = [block EXCEPT !.live = FALSE] /\ api' = NoCall /\ run' = run /\ flush' = flush
      /\ awake' = awake /\ kept' = kept /\ faults' = faults
  BY DEF RemoveBlock, api_rest
<1>2. faults' \in Nat /\ (faults' = 0 => faults = 0)
  BY <1>1, Unfailing
<1>3. ReturnFrame /\ RunnerTyped("api")'
  BY <1>0, <1>1, <1>2 DEF ReturnFrame, RunnerTyped, At
<1> PICK s : s = [block EXCEPT !.live = FALSE]
  OBVIOUS
<1>4. UserChange(block, s) /\ UserKept(block, s)
  BY <1>0 DEF UserChange, UserKept, BlockTyped, Users
<1> QED
  BY <1>1, <1>3, <1>4, UserReturn

(***************************************************************************)
(* The theorems.                                                           *)
(***************************************************************************)
\* The invariant holds at boot.
THEOREM InitIInv == Init => IInv
<1> SUFFICES ASSUME Init PROVE IInv
  OBVIOUS
<1>1. PICK boot \in Boots :
        block = [status |-> {}, enable |-> {}, runtime |-> {}, wake |-> {},
                 masked |-> {}, current |-> {}, live |-> TRUE, finalized |-> FALSE,
                 event |-> [e \in Gpes |-> NewEvent(boot[e])]]
  BY DEF Init
<1>2. /\ run = [r \in Runners |-> Resting] /\ api = NoCall /\ flush = {} /\ kept = {} /\ faults = 0
  BY DEF Init
<1>3. ASSUME NEW e \in Gpes PROVE EventTyped(NewEvent(boot[e])) /\ NewEvent(boot[e]).num_users = 0
      /\ ~NewEvent(boot[e]).block_interrupts
  <2>1. boot[e].type \in Types \ Native /\ boot[e].trig \in Triggerings
    BY NamesAssumption
  <2> QED
    BY <2>1, BoundsAssumption DEF NewEvent, EventTyped
<1>4. BlockTyped(block)
  <2>1. \A e \in Gpes : block.event[e] = NewEvent(boot[e])
    BY <1>1
  <2>2. DOMAIN block.event = Gpes
    BY <1>1
  <2> QED
    BY <1>1, <1>3, <2>1, <2>2 DEF BlockTyped, Users
<1>5. \A r \in Runners : RunnerTyped(r)
  BY <1>2 DEF RunnerTyped, Resting
<1>6. Typed
  BY <1>2, <1>4, <1>5 DEF Typed, ApiTyped, NoCall
<1>7. api.pc = "idle" /\ ~api.flushed /\ \A r \in Runners : run[r].pc = "idle"
  BY <1>2 DEF NoCall, Resting
<1>8. \A e \in Gpes : ~block.event[e].block_interrupts
  BY <1>1, <1>3
<1> QED
  BY <1>1, <1>2, <1>6, <1>7, <1>8
  DEF IInv, TargetMasked, WriteWaited, MaskedOff, TargetOff, TargetLeft, BlockedBy,
      CurrentUsed, EnabledOrOwed, At

\* Every step keeps it.
THEOREM NextIInv == ASSUME IInv, [Next]_vars PROVE IInv'
<1>0. BlockTyped(block)
  BY DEF IInv, Typed
<1>1. CASE UNCHANGED vars
  BY <1>1 DEF vars, IInv, Typed, ApiTyped, RunnerTyped, TargetMasked, WriteWaited, MaskedOff,
     TargetOff, TargetLeft, BlockedBy, CurrentUsed, EnabledOrOwed, At, Busy, Holds, Owes,
     Target, TargetOf
<1>2. ASSUME NEW r \in Runners, Step(r) PROVE IInv'
  <2>1. TRUE \in BOOLEAN
    OBVIOUS
  <2> HIDE DEF IInv
  <2> QED
    BY <1>2, <2>1, ReadStatusKeeps, ReadEnableKeeps, PollKeeps, CallRawKeeps, DisableKeeps,
       BlockKeeps, ClearEdgeKeeps, CallNativeKeeps, ScheduleKeeps, NoHandlerKeeps,
       RunHandlerKeeps, RestoreKeeps, CheckKeeps, WriteKeeps, UnblockKeeps, Zenon DEF Step
<1>3. ASSUME NEW r \in Runners, Fail(r) PROVE IInv'
  <2>1. FALSE \in BOOLEAN
    OBVIOUS
  <2> QED
    BY <1>3, <2>1, ReadFailsKeeps, DisableKeeps, ClearEdgeKeeps, ScheduleFailsKeeps,
       RestoreKeeps, WriteKeeps, Zenon DEF Fail
<1>4. CASE ApiStep
  <2>1. TRUE \in BOOLEAN
    OBVIOUS
  <2> QED
    BY <1>4, <2>1, WaitIrqKeeps, WaitedKeeps, MaskOffKeeps, InstallKeeps, UninstallKeeps,
       SetupKeeps, RemoveKeeps, WorkDoneKeeps, Zenon DEF ApiStep
<1>5. CASE MaskOff(FALSE) \/ InstallHandler(FALSE) \/ UninstallHandler(FALSE)
           \/ SetupForWake(FALSE)
  <2>1. FALSE \in BOOLEAN
    OBVIOUS
  <2> QED
    BY <1>5, <2>1, MaskOffKeeps, InstallKeeps, UninstallKeeps, SetupKeeps, Zenon
<1>6. ASSUME NEW e \in Gpes, uacpi_mask_gpe(e) PROVE IInv'
  BY <1>6, BeginMaskKeeps DEF uacpi_mask_gpe
<1>7. ASSUME NEW e \in Gpes, NEW kind \in HandlerKinds, do_install_gpe_handler(e, kind)
      PROVE  IInv'
  BY <1>7, BeginMaskKeeps DEF do_install_gpe_handler
<1>8. ASSUME NEW e \in Gpes, uacpi_uninstall_gpe_handler(e) PROVE IInv'
  BY <1>8, BeginMaskKeeps DEF uacpi_uninstall_gpe_handler
<1>9. ASSUME NEW e \in Gpes, NEW dev, uacpi_setup_gpe_for_wake(e, dev) PROVE IInv'
  BY <1>9, BeginMaskKeeps DEF uacpi_setup_gpe_for_wake
<1>10. CASE uacpi_uninstall_gpe_block
  BY <1>10, BeginMaskKeeps DEF uacpi_uninstall_gpe_block
<1>11. ASSUME NEW e \in Gpes, NEW ok \in BOOLEAN,
              \/ uacpi_enable_gpe(e, ok) \/ uacpi_disable_gpe(e, ok)
              \/ uacpi_suspend_gpe(e, ok) \/ uacpi_resume_gpe(e, ok)
       PROVE  IInv'
  BY <1>11, EnableKeeps, DisableUserKeeps, SuspendKeeps, ResumeKeeps
<1>12. ASSUME NEW e \in Gpes,
              \/ uacpi_clear_gpe(e) \/ uacpi_finish_handling_gpe(e) \/ uacpi_unmask_gpe(e)
              \/ \E enabled \in BOOLEAN : uacpi_enable_gpe_for_wake(e, enabled)
       PROVE  IInv'
  BY <1>12, ClearKeeps, FinishHandlingKeeps, UnmaskKeeps, ForWakeKeeps
<1>13. ASSUME NEW ok \in BOOLEAN,
              \/ uacpi_disable_all_gpes(ok) \/ uacpi_enable_all_wake_gpes(ok)
              \/ uacpi_enable_all_runtime_gpes(ok)
       PROVE  IInv'
  BY <1>13, AllOffKeeps, AllRuntimeKeeps
<1>14. CASE \/ uacpi_clear_all_events \/ uacpi_events_match_post_dynamic_table_load
            \/ \E lost \in SUBSET Gpes : uacpi_finalize_gpe_initialization(lost)
  BY <1>14, ClearAllKeeps, MatchKeeps, FinalizeKeeps
<1>15. ASSUME NEW e \in Gpes, Fire(e) PROVE IInv'
  BY <1>15, FireKeeps
<1>16. CASE handle_gpes
  BY <1>16, HandleKeeps
<1> QED
  BY <1>1, <1>2, <1>3, <1>4, <1>5, <1>6, <1>7, <1>8, <1>9, <1>10, <1>11, <1>12, <1>13,
     <1>14, <1>15, <1>16, Zenon DEF Next

\* dispatch_gpe, restore_gpe and the calls keep the inductive invariant.
THEOREM Invariance == Spec => []IInv
<1> QED
  BY InitIInv, NextIInv, PTL DEF Spec

\* runtime_mask is exactly the events that have users, and a native handler
\* remembers what it replaced: gpe_add_user and gpe_remove_user roll back
\* what fails.
THEOREM MasksSound == Spec => []BlockSound
<1>1. IInv => BlockSound
  <2> SUFFICES ASSUME IInv PROVE BlockSound
    OBVIOUS
  <2>1. BlockTyped(block) /\ flush \subseteq Slots
    BY DEF IInv, Typed
  <2>2. \A e \in Gpes : None \notin Saved
    BY NamesAssumption DEF Saved
  <2>3. ASSUME NEW e \in Gpes
        PROVE  /\ Users(block, e) \in 0 .. MaxUsers /\ block.event[e].type \in Types
               /\ (block.event[e].type \in Native) = (block.event[e].prev # None)
    BY <2>1, <2>2 DEF BlockTyped, EventTyped, Users
  <2> QED
    BY <2>1, <2>3 DEF BlockSound, TypeOK, BlockTyped
<1> QED
  BY <1>1, Invariance, PTL

\* A masked event stays off, whoever was past the test of its mask when
\* gpe_mask_unmask began, and nobody is in an event whose handler changes.
THEOREM Masking == Spec => []MaskingSafe
<1>1. IInv => MaskingSafe
  <2> SUFFICES ASSUME IInv PROVE MaskingSafe
    OBVIOUS
  <2>1. MaskHolds
    BY DEF IInv, MaskedOff, MaskHolds
  <2>2. SwapAlone
    BY DEF IInv, TargetLeft, SwapAlone
  <2> QED
    BY <2>1, <2>2 DEF MaskingSafe
<1> QED
  BY <1>1, Invariance, PTL

\* The enable register is what callers asked for: besides, an event in use
\* does not stay off once all is quiet.
THEOREM Asked == Spec => []EnabledAsAsked
<1>1. IInv => NotSilenced
  BY DEF IInv, EnabledOrOwed, NotSilenced, Quiescent, Owes, At
<1> QED
  BY <1>1, Masking, Invariance, PTL DEF EnabledAsAsked
===============================================================================
