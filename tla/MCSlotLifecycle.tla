-------------------------- MODULE MCSlotLifecycle --------------------------
(* Small instances of SlotLifecycle for TLC: the configurations give every *)
(* constant its value, and Alike lets TLC exchange the requests.           *)
EXTENDS SlotHistory, TLC

Alike == Permutations(Requests)
============================================================================
