-------------------------- MODULE MCSlotAdmission --------------------------
(* Small instances of SlotAdmission for TLC. *)
EXTENDS SlotAdmission

CONSTANTS r1, r2, r3, r4, g1, g2

Four  == {r1, r2, r3, r4}
Three == {r1, r2, r3}
None  == {}
OnlyFirst == {r1}
OnlySecond == {r2}
OnlyLast  == {r4}
OneGate    == {g1}
TwoGates   == {g1, g2}
One  == {1}
OneTwoOrNone == {1, 2, NoCap}
============================================================================
