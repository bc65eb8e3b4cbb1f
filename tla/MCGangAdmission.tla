--------------------------- MODULE MCGangAdmission ---------------------------
(* Instances of GangAdmission: two hosts, one of them with two serve loops; *)
(* two gangs that want the same hosts, or one gang and faults.              *)
EXTENDS GangAdmission, TLC

CONSTANTS a0, a1, b0, b1, ga, gb, h1, h2, l1, l2, l3

TwoGangs == (a0 :> ga) @@ (a1 :> ga) @@ (b0 :> gb) @@ (b1 :> gb)
OneGang == (a0 :> ga) @@ (a1 :> ga)
AFirst == (ga :> 0) @@ (gb :> 1)
Alone == ga :> 0
OnHosts == (l1 :> h1) @@ (l2 :> h1) @@ (l3 :> h2)

\* The two loops of one host are interchangeable.
SameHost == Permutations({l1, l2})
=============================================================================
