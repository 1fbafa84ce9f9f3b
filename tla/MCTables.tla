------------------------------ MODULE MCTables ------------------------------
(* The table subsystem on a small firmware (an XSDT naming a FADT, a table   *)
(* with a good and one with a bad checksum, the DSDT and FACS behind the     *)
(* FADT, and an override kept in host memory), under two kinds of host: one  *)
(* with memory enough, and kptrOS's kinit with too little and with enough,   *)
(* on firmware with and without an HPET table.                               *)
EXTENDS KernelBoot

Table(sig, good, dsdt, facsAddr) ==
  [sig |-> sig, good |-> good, long |-> TRUE, rev2 |-> TRUE,
   dsdt |-> dsdt, facs |-> facsAddr]

MCMemory ==
  [a \in 101..110 |->
     CASE a = 101 -> Table("FACP", TRUE, 104, 105)
       [] a = 102 -> Table("SSDT", FALSE, NULL, NULL)
       [] a = 103 -> Table("SSDT", TRUE, NULL, NULL)
       [] a = 104 -> Table("DSDT", TRUE, NULL, NULL)
       [] a = 105 -> Table("FACS", FALSE, NULL, NULL)
       [] a = 106 -> [Table("SSDT", TRUE, NULL, NULL) EXCEPT !.long = FALSE]
       [] a = 107 -> Table("FACP", TRUE, 110, NULL)
       [] a = 108 -> Table("HPET", TRUE, NULL, NULL)
       [] a = 109 -> Table("APIC", TRUE, NULL, NULL)
       [] a = 110 -> Table("DSDT", TRUE, NULL, NULL)]

Root(sig, good, long, entries) ==
  [sig |-> sig, good |-> good, long |-> long, entries |-> entries]

TwoSsdts == { Root("ok", TRUE, TRUE, <<102, NULL, 103>>) }
WithFadt == { Root("ok", TRUE, TRUE, <<101, 102>>) }

\* The branches of the boot path that fail before a table is installed.
BootRoots ==
  TwoSsdts \cup WithFadt \cup
  { Root("bad", FALSE, TRUE, <<101, 103, 102>>),
    Root("ok", TRUE, FALSE, <<>>), NoRsdp, NoRoot }

\* What kinit may find: the HPET table among others, or none.
KernelRoots ==
  { Root("ok", TRUE, TRUE, entries) :
      entries \in { <<107, 108>>, <<107, 109>>, <<109, 107, 109, 108>> } }
  \cup { NoRsdp, NoRoot }

Allow == [a \in Addrs |-> [disp |-> "ALLOW"]]
MCHandlers ==
  { [Allow EXCEPT ![102] = [disp |-> "DENY"],
                  ![104] = [disp |-> "PHYSICAL_OVERRIDE", with |-> 103],
                  ![105] = [disp |-> "VIRTUAL_OVERRIDE", with |-> 103]] }

\* Which of a call's host calls fail: none or one; or all from some point on.
OnePlan == {{}, {1}}
FewPlans == OnePlan \cup {{2}}
ManyPlans == {{k} : k \in 0..14} \cup {1..20, 4..20, 8..20}

Fatal == {"BAD_CSUM_FATAL", "BAD_TBL_SIGNATURE_FATAL"}

\* kptrOS's own build with three users, a table array of three and a reference
\* count of two bits; the full build with two users who load what they hold;
\* the same from power-on, on every firmware and with any host call failing;
\* and kptrOS's build as kinit runs it.
MCBuilds ==
  [ bare |-> [ barebones |-> TRUE, inline |-> 2, buffers |-> {1},
               maxTables |-> 4, maxRef |-> 2, maxUsers |-> 3,
               roots |-> TwoSsdts, handlers |-> {}, hostTables |-> {103, 106},
               flagSets |-> {{}},
               failPlans |-> FewPlans ],
    full |-> [ barebones |-> FALSE, inline |-> 1, buffers |-> {1},
               maxTables |-> 3, maxRef |-> 9, maxUsers |-> 2,
               roots |-> TwoSsdts, handlers |-> {}, hostTables |-> {102},
               flagSets |-> {{}, {"BAD_CSUM_FATAL"}},
               failPlans |-> OnePlan ],
    boot |-> [ barebones |-> FALSE, inline |-> 1, buffers |-> {1, 3},
               maxTables |-> 5, maxRef |-> 9, maxUsers |-> 0,
               roots |-> BootRoots, handlers |-> MCHandlers, hostTables |-> {},
               flagSets |-> {{}, Fatal},
               failPlans |-> ManyPlans ],
    kernel |-> [ barebones |-> TRUE, inline |-> 2, buffers |-> {},
                 maxTables |-> 5, maxRef |-> 9, maxUsers |-> 0,
                 roots |-> KernelRoots, handlers |-> {}, hostTables |-> {},
                 flagSets |-> {{}},
                 failPlans |-> {} ] ]
MCPageCounts == 0..16

MCInit == IF build = "kernel" THEN KInit ELSE HostedInit
TablesInit == build \in DOMAIN Builds /\ MCInit
TablesSpec == TablesInit /\ [][SystemNext]_kvars

Symmetry == Permutations(Clients)
=============================================================================
