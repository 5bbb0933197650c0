---------------------------- MODULE GpuExclusion ----------------------------
(***************************************************************************)
(* What the GPU arbiter promises, whatever its steps, failures and         *)
(* restarts (slots/arbiter.py, module docstring): one GPU is owned by the  *)
(* LLM group or by the image group; a slot is only taken off the GPU after *)
(* it was promised back, and the LLM group owns the GPU again only when    *)
(* every slot taken has been handed back to a load.                        *)
(***************************************************************************)
CONSTANT Slots

VARIABLES owner,     \* "llm" or "img"
          promised,  \* the slots image mode may take, as recorded
          away       \* the slots taken and not yet handed back

vars == <<owner, promised, away>>

Init == owner \in {"llm", "img"} /\ promised \in SUBSET Slots /\ away = {}

\* The image group becomes the owner; nothing is away yet.
Enter == /\ owner = "llm" /\ away = {}
         /\ owner' = "img" /\ promised' \in SUBSET Slots
         /\ UNCHANGED away

\* Promised slots leave the GPU (several at once when a crash cuts a step short).
Take == /\ owner = "img"
        /\ away' \in SUBSET promised /\ away \subseteq away'
        /\ UNCHANGED <<owner, promised>>

\* Slots are handed back to a load.
GiveBack == away' \in SUBSET away /\ UNCHANGED <<owner, promised>>

\* The LLM group owns the GPU again: only with nothing away.
Leave == /\ owner = "img" /\ away = {}
         /\ owner' = "llm" /\ promised' = {} /\ UNCHANGED away

Next == Enter \/ Take \/ GiveBack \/ Leave

Spec == Init /\ [][Next]_vars
=============================================================================
