------------------------------- MODULE MCGpe -------------------------------
(***************************************************************************)
(* One register with two events: the first has an AML method, for a level  *)
(* or an edge, from boot on; the second gets one from a table loaded       *)
(* later.  Raw and native handlers come and go.                            *)
(***************************************************************************)
EXTENDS Gpe

Found(type, trig) == [type |-> type, trig |-> trig]
MCBoots == { <<Found("aml", t), Found("none", "level")>> : t \in Triggerings }
MCKinds == {Found("native", "level"), Found("raw", "edge")}
MCLoadedAml == [e \in {2} |-> "edge"]
=============================================================================
