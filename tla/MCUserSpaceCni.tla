--------------------------- MODULE MCUserSpaceCni ---------------------------
(***************************************************************************)
(* Values of the constants of UserSpaceCni for TLC: network configurations *)
(* of each engine, with and without IPAM, and some that are refused.       *)
(***************************************************************************)
EXTENDS UserSpaceCni, TLC

CONSTANTS a1, a2

Use(h, c, r, i) == [host |-> h, cont |-> c, role |-> r, ipam |-> i]

(* As in the examples of the repository. *)
Usual == {Use("vpp", "", "master", TRUE), Use("vpp", "vpp", "slave", TRUE),
          Use("ovs-dpdk", "", "master", TRUE), Use("ovs-dpdk", "vpp", "slave", TRUE)}

(* Without an address, or with an engine that is not known. *)
Odd == {Use("ovs-dpdk", "", "master", FALSE), Use("vpp", "", "master", FALSE),
        Use("vpp", "other", "master", TRUE), Use("other", "vpp", "master", TRUE)}

(* All of them, beside one that never gets an address and is deleted again. *)
OneOfEach == (a1 :> Usual \cup Odd) @@ (a2 :> {Use("ovs-dpdk", "", "master", FALSE)})

(* A slave alone. *)
OneSlave == (a1 :> {Use("vpp", "", "slave", TRUE)})
=============================================================================
