---------------------------- MODULE MCNamespace ----------------------------
(***************************************************************************)
(* A predefined scope and a few nodes in seven situations: AML against a   *)
(* walk, an iteration, lookups and owners of objects, two threads of AML,  *)
(* one thread of AML with more nodes to create, AML and a reset, and three *)
(* threads that do nothing but take the lock.                              *)
(***************************************************************************)
EXTENDS Namespace

CONSTANTS t1, t2, t3, none

MCPredefined == 1 :> "a"
MCWalks == { [max |-> 2, cbs |-> {"down", "up"}, any |-> FALSE] }
Plays(a, b, c) == [t \in Threads |-> CASE t = t1 -> a [] t = t2 -> b [] t = t3 -> c]
\* Frames within frames: a temporary node in another, and a node in it that
\* stays, take three to create.
FourNodes == { Plays({"aml"}, {}, {}) }
Situations == FourNodes \cup
  { Plays({"aml", "types", "sleep"}, {"walk"}, {}), Plays({"aml", "sleep"}, {"next"}, {}),
    Plays({"aml", "types"}, {"find"}, {}), Plays({"aml", "sleep"}, {"aml"}, {}),
    Plays({"aml", "keep"}, {}, {"reset"}), Plays({"section"}, {"section"}, {"section"}) }
MCInit == NsInit /\ roles \in Situations
\* The last node is created in the situation of frames only.
Created == roles \in FourNodes \/ ns'[4].state = "unused"
MCSpec ==
  MCInit /\ [][NsNext /\ Created]_all /\ \A t \in Threads : WF_all(LockStep(t) \/ SectionEnds(t))

============================================================================
