----------------------------- MODULE MCPosixLock -----------------------------
(* Instances of PosixLock: two threads of one process and one of another.  *)
EXTENDS PosixLock, TLC

CONSTANTS t1, t2, t3, p1, p2

TwoProcs == (t1 :> p1) @@ (t2 :> p1) @@ (t3 :> p2)
=============================================================================
