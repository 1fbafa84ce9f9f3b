---------------------------- MODULE MCLifecycle ----------------------------
(* Machines with full and with reduced hardware, found in legacy mode with    *)
(* and without the means to leave it, without FACS, without the bit of the    *)
(* global lock, with and without a usable package for S0.                     *)
EXTENDS Lifecycle, FiniteSets

Sleep(s0, s3, s5) == [s \in {0, 3, 5} |-> IF s = 0 THEN s0 ELSE IF s = 3 THEN s3 ELSE s5]
Machine(reduced, legacy, facs, lock, slp) ==
    [reduced |-> reduced, legacy |-> legacy, switch |-> legacy, facs |-> facs,
     lock |-> lock, slp |-> slp]
Legacy == Machine(FALSE, TRUE, TRUE, TRUE, Sleep("good", "good", "big"))
NoSwitch == [Legacy EXCEPT !.switch = FALSE]
NoFacs == Machine(FALSE, FALSE, FALSE, TRUE, Sleep("good", "good", "good"))
NoLock == Machine(FALSE, FALSE, TRUE, FALSE, Sleep("bad", "bad", "good"))
Reduced == Machine(TRUE, FALSE, FALSE, FALSE, Sleep("good", "good", "good"))
\* A package of one element that is no integer.
Malformed == Machine(FALSE, FALSE, TRUE, TRUE, Sleep("good", "short", "good"))

Situation(f, u, failures, events) ==
    [fw |-> f, usage |-> u, faults |-> failures, raises |-> events]
MCSituations ==
    { Situation(NoLock, "osi", 0, 0), Situation(Legacy, "modes", 2, 0),
      Situation(NoSwitch, "modes", 1, 0), Situation(Legacy, "events", 1, 1),
      Situation(NoFacs, "events", 2, 1), Situation(NoLock, "events", 1, 2),
      Situation(NoFacs, "sleep", 1, 2), Situation(Legacy, "sleep", 1, 0),
      Situation(NoLock, "sleep", 1, 1), Situation(Reduced, "sleep", 2, 0) }
MalformedSleep == { Situation(Malformed, "sleep", 0, 0) }

\* A vendor string, a host feature, the interpreter's string, and one the host
\* installs.
FourNames == {"Windows 2022", "Module Device", "Extended Address Space Descriptor",
              "Host string"}
ThreePredefined == FourNames \ {"Host string"}
OneFeature == {"Module Device"}
OneKindless == {"Extended Address Space Descriptor"}
OneWeight == [n \in FourNames |-> IF n = "Windows 2022" THEN 1 ELSE 0]
=============================================================================
