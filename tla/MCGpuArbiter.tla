---------------------------- MODULE MCGpuArbiter ----------------------------
(* Small instances of GpuArbiter. *)
EXTENDS GpuArbiter, TLC

\* Every chat goes to the same slot in these instances.
TargetOf == [c \in Chats |-> CHOOSE s \in Slots : (Cold # {}) => s \in Cold]

Alike == Permutations(Slots)
=============================================================================
