--------------------------- MODULE MCRemoteConfig ---------------------------
(***************************************************************************)
(* Values of the constants of RemoteConfig for TLC.                        *)
(***************************************************************************)
EXTENDS RemoteConfig, TLC

CONSTANTS n1, n2, n3

RankTwo == (n1 :> 1) @@ (n2 :> 2)

RankThree == RankTwo @@ (n3 :> 3)
=============================================================================
