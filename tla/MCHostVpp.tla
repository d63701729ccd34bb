----------------------------- MODULE MCHostVpp -----------------------------
(***************************************************************************)
(* Values of the constants of HostVpp for TLC.                             *)
(***************************************************************************)
EXTENDS HostVppInv, TLC

CONSTANTS a1, a2, a3, b1, i1, i2, i3, noIf

Host(t, r, n) == [ifType |-> t, role |-> r, net |-> n, bd |-> b1, ip |-> "nil"]

InContainer(n, p) ==
  [ifType |-> "memif", role |-> "slave", net |-> n, bd |-> b1, ip |-> p]

(* Two attachments on one bridge, the file made by VPP or by the peer. *)
MasterPair == (a1 :> Host("memif", "master", "bridge"))
           @@ (a2 :> Host("memif", "master", "bridge"))

MixedPair == (a1 :> Host("memif", "master", "bridge"))
          @@ (a2 :> Host("memif", "slave", "bridge"))

MasterTrio == MasterPair @@ (a3 :> Host("memif", "master", "none"))

(* The same beside a request that the plugin refuses. *)
RefusedTrio == MixedPair @@ (a3 :> Host("other", "master", "bridge"))

(* AddOnHost as vpp-app calls it in a container, with an IPAM result. *)
ContainerTrio == (a1 :> InContainer("interface", "some"))
              @@ (a2 :> InContainer("interface", "empty"))
              @@ (a3 :> InContainer("bridge", "some"))

AnyIf == Permutations(SwIf)
=============================================================================
