----------------------------- MODULE OsiAnswers -----------------------------
(***************************************************************************)
(* What the _OSI interfaces promise (include/uacpi/osi.h): a set of names  *)
(* is supported, installing and uninstalling change it, every subsystem    *)
(* start begins with the vendor strings and without the host features, and *)
(* a query that no handler overrides is answered from the set.  The latest *)
(* vendor string that was ever asked for is remembered.                    *)
(***************************************************************************)
EXTENDS Naturals

CONSTANTS Names,            \* every interface name
          Weights,          \* the age of a vendor string, 0 for the others
          Defaults          \* what is supported at start

VARIABLES running, supported, latest, answer

vars == <<running, supported, latest, answer>>

NoAnswer == [name |-> "none"]

Later(m, n) == IF m > n THEN m ELSE n

Init == running = FALSE /\ supported = {} /\ latest = 0 /\ answer = NoAnswer

Start ==
    /\ ~running /\ running' = TRUE
    /\ supported' = Defaults /\ latest' = 0 /\ answer' = NoAnswer

Stop ==
    /\ running /\ running' = FALSE
    /\ supported' = {} /\ latest' = 0 /\ answer' = NoAnswer

Support(names) ==
    /\ running /\ supported' = supported \cup names /\ answer' = NoAnswer
    /\ UNCHANGED <<running, latest>>

Withdraw(names) ==
    /\ running /\ supported' = supported \ names /\ answer' = NoAnswer
    /\ UNCHANGED <<running, latest>>

\* A handler may override the answer.
Query(name, value, overridden) ==
    /\ running
    /\ overridden \/ value = (name \in supported)
    /\ answer' = [name |-> name, value |-> value, overridden |-> overridden]
    /\ latest' = Later(Weights[name], latest)
    /\ UNCHANGED <<running, supported>>

Next ==
    \/ Start \/ Stop
    \/ \E names \in SUBSET Names : Support(names) \/ Withdraw(names)
    \/ \E name \in Names, value, overridden \in BOOLEAN : Query(name, value, overridden)

Spec == Init /\ [][Next]_vars
=============================================================================
