----------------------------- MODULE MCHostWait -----------------------------
(* An instance of HostWait: three topics, one of them not wanted and one    *)
(* without a directory at first, a ring of one hint and a kernel queue of   *)
(* one event.                                                               *)
EXTENDS HostWait
=============================================================================
