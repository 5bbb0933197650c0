-------------------------- MODULE MCSingleFlight ---------------------------
(* Small instances of SingleFlight for TLC. *)
EXTENDS SingleFlight

CONSTANTS c1, c2, c3, c4

Four == {c1, c2, c3, c4}
TwoOfThem == {c1, c2}
============================================================================
