--------------------------- MODULE MCLoadAdmission ---------------------------
(* Small instances of LoadAdmission. *)
EXTENDS LoadAdmission

CONSTANTS a, b, c, la, lb, lc, ua

\* Two units of memory for a and b, four for c; a is evicted before b, b before c.
SizeOfSlot == (a :> 2) @@ (b :> 2) @@ (c :> 4)
RankOfSlot == (a :> 1) @@ (b :> 2) @@ (c :> 3)
SlotOf == [x \in Calls |-> CASE x \in {la, ua} -> a [] x = lb -> b [] OTHER -> c]
==============================================================================
