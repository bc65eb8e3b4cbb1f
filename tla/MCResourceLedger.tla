-------------------------- MODULE MCResourceLedger --------------------------
(* ResourceLedger on small sets, for TLC.                                  *)
EXTENDS ResourceLedger, TLC

CONSTANTS k1, k2, h1, h2

\* Kinds are told apart by nothing, nor are keys or handles.
Symmetry == Permutations(Keys) \cup Permutations(Handles)
=============================================================================
