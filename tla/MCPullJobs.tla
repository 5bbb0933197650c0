----------------------------- MODULE MCPullJobs -----------------------------
(* Small instances of PullJobs. *)
EXTENDS PullJobs

CONSTANTS p1, p2, b1, k1
=============================================================================
