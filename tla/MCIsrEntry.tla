----------------------------- MODULE MCIsrEntry -----------------------------
(* NMI, a page fault, an alignment check and an IRQ, nested twice.           *)
EXTENDS IsrEntry
============================================================================
