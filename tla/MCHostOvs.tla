----------------------------- MODULE MCHostOvs -----------------------------
(***************************************************************************)
(* Values of the constants of HostOvs for TLC: a container with two        *)
(* interfaces, net1 and net10, one whose ADD panics for its NetType and    *)
(* one with an unknown IfType.                                             *)
(***************************************************************************)
EXTENDS HostOvs, TLC

CONSTANTS net1, net10, other, odd, c1, c2, c3

TwoContainers == (net1 :> c1) @@ (net10 :> c1) @@ (other :> c2) @@ (odd :> c3)

ShortFirst == (net1 :> 1) @@ (net10 :> 2) @@ (other :> 1) @@ (odd :> 1)

Prefixes == (net1 :> {net1, net10}) @@ (net10 :> {net10}) @@ (other :> {other}) @@ (odd :> {odd})

Vhost(n) == [ifType |-> "vhostuser", net |-> n]

Vhosts == (net1 :> Vhost("none")) @@ (net10 :> Vhost("bridge")) @@ (other :> Vhost("interface"))
  @@ (odd :> [ifType |-> "other", net |-> "none"])
=============================================================================
