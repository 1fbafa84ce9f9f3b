------------------------------- MODULE MCPmm -------------------------------
(* Pmm on small memory maps: misaligned, empty, sub-page, adjacent and        *)
(* interleaved regions, with more and with fewer pages than page_addrs holds. *)
EXTENDS Pmm

Usable(b, l) == [base |-> b, length |-> l, usable |-> TRUE]
Reserved(b, l) == [base |-> b, length |-> l, usable |-> FALSE]

MCMemMaps ==
  { <<Reserved(0, 4096), Usable(4096, 8192), Reserved(12288, 100),
      Usable(12388, 8192)>>,
    <<Usable(5000, 12289), Reserved(20000, 10), Usable(20480, 8192)>>,
    <<Usable(8192, 0), Usable(8200, 4000), Usable(16384, 4096)>>,
    <<Usable(8192, 4096), Usable(12288, 8192), Usable(20480, 36864)>>,
    <<Reserved(0, 65536)>> }

\* &tmp is an address of the direct map, far above usable memory
MCStackAddr == 1000008
============================================================================
