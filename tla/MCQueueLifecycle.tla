-------------------------- MODULE MCQueueLifecycle --------------------------
(* Instances of QueueLifecycle for TLC.                                    *)
EXTENDS QueueLifecycle, TLC

CONSTANTS w1, w2, w3

\* Every serve loop on one host, and one of them on a host of its own.
OneHost == [w \in Workers |-> "h1"]
TwoHosts == [w \in Workers |-> IF w = w3 THEN "h2" ELSE "h1"]

Symmetry == Permutations(Workers)
=============================================================================
