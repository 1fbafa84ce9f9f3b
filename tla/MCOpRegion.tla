----------------------------- MODULE MCOpRegion -----------------------------
(* A handler's user and an AML thread around two regions of a device: one   *)
(* that is always there, and a temporary one that a method of the device     *)
(* creates.  Handlers are for the device or for the root above it.           *)
EXTENDS OpRegion

CONSTANTS u1, m1

MCDevices == <<"root", "dev">>
MCRegions ==
  [ PCC0 |-> [dev |-> "dev", space |-> "PCC", temp |-> FALSE],
    PCC1 |-> [dev |-> "dev", space |-> "PCC", temp |-> TRUE] ]
MCOffers == { <<"root", "PCC">>, <<"root", "SYSTEM_MEMORY">>, <<"dev", "PCC">> }
============================================================================
