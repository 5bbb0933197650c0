---------------------------- MODULE SlotHistory ----------------------------
(***************************************************************************)
(* SlotLifecycle with two history variables, which no step of the slot     *)
(* reads.  status() writes the record without the slot's lock, and its     *)
(* adoption acts on marks it read before its /health probe; they record    *)
(* when that happened, so that what is claimed of loads and of the         *)
(* output-sanity verdict can be claimed with polls under way.              *)
(***************************************************************************)
EXTENDS SlotLifecycle

VARIABLES
    disturbed,  \* since the lock last changed hands, a status() poll or the startup pass
                \* wrote the record
    overrun     \* the last verdict was recorded over an adoption already under way

history == <<disturbed, overrun>>
hvars == <<vars, history>>

\* One of them moves on with a _transition of its own under way: it has just written.
PollWrites == \E p \in Polls \union {Boot} : pc'[p] # pc[p] /\ tail'[p] # None

\* A load records that its unit failed the output-sanity gate.
Verdict == \E c \in Calls : pc[c] = "crashline_sanity" /\ pc'[c] = "raise"

\* Past the check of the marks, with READY still to come: at once, or by the promotion poll.
Adopting == {p \in Calls \union Polls \union {Boot} :
                pc[p] \in {"health", "restall", "adopted_warming"}}

Remember ==
    /\ disturbed' = (lock' = lock /\ (disturbed \/ PollWrites))
    /\ overrun' = IF Verdict THEN Adopting # {} ELSE overrun /\ restarts' = restarts

HInit == Init /\ disturbed = FALSE /\ overrun = FALSE

HNext == Next /\ Remember

HSpec == HInit /\ [][HNext]_hvars

HLiveSpec == HSpec /\ Fairness

-----------------------------------------------------------------------------

\* A load trips over its own state machine for two reasons only: a status() poll wrote
\* the record while it held the lock, or it found UNLOADING, which load() takes for a slot
\* with nothing to tear down and which a broken-off unload leaves behind.  Whatever else
\* ran while it was suspended, each unforced _transition of _load is legal.
NoIllegalLoad == \A c \in Calls : pc[c] = "illegal" => disturbed \/ state = "unloading"

\* A failed output-sanity verdict is retired only by a later load whose unit passed the
\* gate: no status() poll or startup pass that looks at the marks after the verdict adopts
\* the unit.  One that had looked before, and was in its /health probe when the verdict
\* fell, does overrun it, against _transition's comment (manager.py:1494, "Adoption can
\* never clear it by accident") and slot-lifecycle.mdx.
VerdictSticks ==
    [][("sanity" \in marks /\ "sanity" \notin marks') =>
           overrun \/ (sane /\ \E c \in Calls : pc[c] = "await_ready" /\ pc'[c] = "persist")]_hvars

=============================================================================
