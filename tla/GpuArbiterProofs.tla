-------------------------- MODULE GpuArbiterProofs --------------------------
(***************************************************************************)
(* Proofs about the GPU arbiter (GpuArbiter.tla) for every set of slots,   *)
(* chats, jobs, prompts, operators, restores and faults, and every bound:  *)
(* IInv is inductive, and the safety properties, the action properties and *)
(* the refinement of GpuExclusion follow from it.                          *)
(***************************************************************************)
EXTENDS GpuArbiter, TLAPS

-----------------------------------------------------------------------------
(* The inductive invariant *)

\* An operation is in image mode from its snapshot on, and what it has left to
\* do is part of the persisted set.
Stages ==
    /\ step \in {"leases", "configs"} => mode = "llm"
    /\ step \notin {"idle", "leases", "configs"} => mode = "img"
    /\ mode = "llm" => saved = {} /\ ~healing
    /\ todo \subseteq saved
    /\ step \notin {"unload", "rollback", "reload"} => now = Nobody
    /\ now # Nobody => now \in todo
    /\ step \notin {"read", "free", "reload"} => seen = "none"

\* What was taken is recorded, is down, and is still on the list of the reload
\* that has to bring it back.
Owing ==
    /\ owed \subseteq saved
    /\ \A s \in owed : slot[s] \in {"off", "stuck"}
    /\ step = "unload" /\ now # Nobody => slot[now] = "stop"
    /\ step \in {"rollback", "reload"} => owed \subseteq todo /\ now \notin owed

\* Nobody is about to load s on the strength of a guard passed in LLM mode.
Settled(s) ==
    ~OnGpu(s) /\ \A c \in Chats : Target[c] = s => pc[c] # "toload_route"

\* No load is queued on the slot that is being stopped. After a drain that did
\* not give up no request uses a saved slot, and a slot the unload loop is done
\* with is settled.
Emptied ==
    /\ step = "unload" /\ now # Nobody =>
        \A c \in Chats : Target[c] = now => pc[c] # "toload_route"
    /\ healing => \A c \in Chats : pc[c] # "toload_route"
    /\ mode = "img" /\ ~hurried =>
        /\ step = "drain" => todo = saved
        /\ step # "drain" => \A s \in saved : InFlight(s) = {}
        /\ step \in {"loads", "unload"} => \A s \in saved \ todo : Settled(s)
        /\ step \in {"engine", "cold"} => \A s \in saved : Settled(s)
        /\ step \in {"idle", "read"} /\ ~healing => \A s \in saved : Settled(s)

\* A request that a restore promised room has not run yet or holds a lease, and
\* the snapshot of a switch is not taken before it has dispatched.
Served ==
    /\ promised \subseteq Woken \cup lease
    /\ mode = "img" \/ step = "configs" => promised = {}

\* A prompt on its way to ComfyUI has the hand-off open whenever a restore could
\* begin, so none is on its way, and none arrives, during a restore's decision.
Unhurt ==
    /\ lock = Nobody /\ mode = "img" /\ handoff = FALSE => \A p \in Images : pc[p] # "transit"
    /\ step = "read" => lock \in Restorers
    /\ step \in {"read", "free"} /\ lock \in Restorers => \A p \in Images : pc[p] # "transit"
    /\ step \in {"read", "free"} /\ lock \in Restorers /\ seen = "empty" => rendering = {}
    /\ step = "free" /\ lock \in Restorers => seen = "empty"

IInv == TypeOK /\ Stages /\ Owing /\ Emptied /\ Served /\ Unhurt

USE ArbiterConstants DEF ArbiterConstants, persisted, outside, holder, memory, bounds,
    history, Images, Procs, OpKinds

\* Image requests and operators are neither restores nor nobody.
LEMMA Apart == \A p \in Images \cup Ops : p \notin Restorers /\ p # Nobody
<1>1. \A p \in Images : p \notin Restorers /\ p # Nobody
  OBVIOUS
<1>2. \A p \in OpKinds : p \notin {"loop", "demand", "omni"} /\ p # Nobody
  OBVIOUS
<1> QED BY <1>1, <1>2

\* A step that leaves the lock, the mode, the hand-off and the queue read alone
\* keeps Unhurt when no prompt is sent and none arrives.
LEMMA UnhurtStays ==
    ASSUME Unhurt, UNCHANGED <<lock, mode, step, seen, handoff>>,
           rendering' \subseteq rendering,
           \A p \in Images : pc'[p] = "transit" => pc[p] = "transit"
    PROVE  Unhurt'
  BY DEF Unhurt

-----------------------------------------------------------------------------
(* Waking the waiters, and the end of a restore *)

\* The end of a demand task: its waiters are woken, and nobody else moves.
Wakes ==
    /\ DOMAIN pc' = DOMAIN pc
    /\ \A p \in Images \cup Ops : pc'[p] = pc[p]
    /\ \A c \in Chats : \/ pc[c] = "wait_route" /\ pc'[c] = "woken_route"
                        \/ pc[c] = "wait" /\ pc'[c] = "woken"
                        \/ pc[c] \notin {"wait", "wait_route"} /\ pc'[c] = pc[c]

\* WakeWaiters does what Wakes says.
LEMMA WakeWaitersWakes == ASSUME PlacesOK, pc' = WakeWaiters PROVE Wakes
<1>1. \A c \in Chats : c \in DOMAIN pc
  BY DEF PlacesOK
<1>2. \A p \in Images \cup Ops : p \in DOMAIN pc /\ p \notin Chats
  BY DEF PlacesOK
<1>3. DOMAIN pc' = DOMAIN pc
  BY DEF WakeWaiters
<1>4. \A p \in DOMAIN pc \ Chats : pc'[p] = pc[p]
  BY DEF WakeWaiters
<1>5. ASSUME NEW c \in Chats
      PROVE  \/ pc[c] = "wait_route" /\ pc'[c] = "woken_route"
             \/ pc[c] = "wait" /\ pc'[c] = "woken"
             \/ pc[c] \notin {"wait", "wait_route"} /\ pc'[c] = pc[c]
  <2>1. CASE pc[c] = "wait_route"
    BY <1>1, <2>1 DEF WakeWaiters
  <2>2. CASE pc[c] = "wait"
    BY <1>1, <2>2 DEF WakeWaiters
  <2>3. CASE pc[c] \notin {"wait", "wait_route"}
    BY <1>1, <2>3 DEF WakeWaiters
  <2> QED BY <2>1, <2>2, <2>3
<1> QED BY <1>2, <1>3, <1>4, <1>5 DEF Wakes

\* What the processes do when a restore ends: an operator's is done, a demand
\* task may wake its waiters, image work does not move.
Settles ==
    /\ DOMAIN pc' = DOMAIN pc /\ \A p \in Images : pc'[p] = pc[p]
    /\ \A o \in Ops : pc'[o] \in {pc[o], "done"}
    /\ \A c \in Chats : \/ pc[c] = "wait_route" /\ pc'[c] = "woken_route"
                        \/ pc[c] = "wait" /\ pc'[c] = "woken"
                        \/ pc'[c] = pc[c]

\* RestoreLeaves lets go of the lock and moves nobody else than Settles says;
\* a demand task that is over wakes everyone who waits.
LEMMA Leaving ==
    ASSUME TypeOK, NEW over \in BOOLEAN, RestoreLeaves(over)
    PROVE  /\ lock' = Nobody /\ step' = "idle" /\ todo' = {} /\ seen' = "none"
           /\ UNCHANGED <<pin, now, lease>> /\ demand' \in BOOLEAN /\ active' \in BOOLEAN
           /\ Settles
           /\ lock = "demand" /\ over => Wakes
<1>1. CASE lock = "demand" /\ over
  <2>1. Wakes
    BY <1>1, WakeWaitersWakes DEF RestoreLeaves, TypeOK
  <2> QED BY <1>1, <2>1 DEF RestoreLeaves, Wakes, Settles, TypeOK, FlagsOK
<1>2. CASE ~(lock = "demand" /\ over) /\ lock \in Ops
  <2>1. Settles
    BY <1>2 DEF RestoreLeaves, Settles, TypeOK, PlacesOK
  <2> QED BY <1>2, <2>1 DEF RestoreLeaves, TypeOK, FlagsOK
<1>3. CASE ~(lock = "demand" /\ over) /\ lock \notin Ops
  BY <1>3 DEF RestoreLeaves, Settles, TypeOK, FlagsOK
<1> QED BY <1>1, <1>2, <1>3

\* Settles keeps the processes in their types and moves nobody into or out of
\* a dispatch or a load.
LEMMA SettlesKeeps ==
    ASSUME PlacesOK, Settles
    PROVE  /\ PlacesOK'
           /\ \A s \in Slots : InFlight(s)' = InFlight(s)
           /\ \A c \in Chats : pc'[c] = "toload_route" => pc[c] = "toload_route"
           /\ \A c \in Woken : c \in Woken'
<1>1. PlacesOK'
  BY DEF Settles, PlacesOK, ChatPcs, ImagePcs
<1>2. \A s \in Slots : InFlight(s)' = InFlight(s)
  BY DEF Settles, InFlight
<1> QED BY <1>1, <1>2 DEF Settles, Woken

\* A restore that stands down changes nothing but the lock and the waiters.
LEMMA PauseKeeps ==
    ASSUME IInv, step = "read", NEW over \in BOOLEAN, RestoreLeaves(over),
           UNCHANGED <<persisted, outside, handoff, history>>
    PROVE  PlacesOK' /\ Stages' /\ Owing' /\ Emptied' /\ Served' /\ Unhurt'
<1>1. /\ lock' = Nobody /\ step' = "idle" /\ todo' = {} /\ seen' = "none"
      /\ UNCHANGED <<now, lease>> /\ Settles
  BY Leaving DEF IInv
<1>2. /\ PlacesOK'
      /\ \A s \in Slots : InFlight(s)' = InFlight(s)
      /\ \A c \in Chats : pc'[c] = "toload_route" => pc[c] = "toload_route"
      /\ \A c \in Woken : c \in Woken'
  BY <1>1, SettlesKeeps DEF IInv, TypeOK
<1>3. Stages' /\ Owing'
  BY <1>1 DEF IInv, TypeOK, ValuesOK, Stages, Owing
<1>4. Emptied'
  BY <1>1, <1>2 DEF IInv, TypeOK, ValuesOK, Stages, Emptied, Settled, OnGpu
<1>5. Served'
  BY <1>1, <1>2 DEF IInv, TypeOK, ValuesOK, Stages, Served
<1>6. Unhurt'
  BY <1>1 DEF IInv, TypeOK, ValuesOK, Unhurt, Settles
<1> QED BY <1>2, <1>3, <1>4, <1>5, <1>6

\* The demand task stands down.
LEMMA DemandStandsDownKeeps == ASSUME IInv, DemandStandsDown PROVE IInv'
<1>1. Wakes /\ Settles
  <2>1. Wakes
    BY WakeWaitersWakes DEF IInv, TypeOK, DemandStandsDown
  <2> QED BY <2>1 DEF Wakes, Settles
<1>2. /\ PlacesOK'
      /\ \A s \in Slots : InFlight(s)' = InFlight(s)
      /\ \A c \in Chats : pc'[c] = "toload_route" => pc[c] = "toload_route"
      /\ \A c \in Woken : c \in Woken'
  BY <1>1, SettlesKeeps DEF IInv, TypeOK
<1>3. FlagsOK'
  BY DEF IInv, TypeOK, DemandStandsDown, FlagsOK
<1>4. ValuesOK'
  BY DEF IInv, TypeOK, DemandStandsDown, ValuesOK
<1>5. Stages' /\ Owing'
  BY DEF IInv, DemandStandsDown, Stages, Owing
<1>6. Emptied'
  BY <1>2 DEF IInv, TypeOK, ValuesOK, DemandStandsDown, Emptied, Settled, OnGpu
<1>7. Served'
  BY <1>2 DEF IInv, DemandStandsDown, Served
<1>8. Unhurt'
  <2>1. /\ UNCHANGED <<lock, mode, step, seen, rendering, handoff>>
        /\ \A p \in Images : pc'[p] = pc[p]
    BY <1>1 DEF DemandStandsDown, Settles
  <2> QED BY <2>1 DEF IInv, Unhurt
<1> QED BY <1>2, <1>3, <1>4, <1>5, <1>6, <1>7, <1>8 DEF IInv, TypeOK

\* A restore ends: nothing it took is left to bring back, and whoever it woke
\* is owed room.
LEMMA RestoreEndsKeeps == ASSUME IInv, RestoreEnds PROVE IInv'
<1>1. /\ lock' = Nobody /\ step' = "idle" /\ todo' = {} /\ seen' = "none"
      /\ UNCHANGED <<now, lease, pin>> /\ demand' \in BOOLEAN /\ active' \in BOOLEAN
      /\ Settles
      /\ lock = "demand" => Wakes
  BY Leaving DEF IInv, RestoreEnds
<1>2. /\ now = Nobody /\ owed = {} /\ mode' = "llm" /\ saved' = {}
      /\ UNCHANGED <<owed, outside, bounds>>
  BY DEF IInv, RestoreEnds, LlmMode, Owing
<1>3. pinned' = FALSE /\ quiet' = "none" /\ handoff' = FALSE /\ healing' = FALSE /\ hurried' = FALSE
  BY DEF RestoreEnds, LlmMode
<1>4. PlacesOK' /\ \A c \in Woken : c \in Woken'
  BY <1>1, SettlesKeeps DEF IInv, TypeOK
<1>5. FlagsOK'
  BY <1>1, <1>3 DEF IInv, TypeOK, FlagsOK
<1>6. ValuesOK'
  <2>1. promised' \subseteq Chats
    BY DEF RestoreEnds, IInv, TypeOK, ValuesOK, Waiting
  <2> QED BY <2>1, <1>1, <1>2, <1>3 DEF IInv, TypeOK, ValuesOK, Steps
<1>7. Stages' /\ Owing'
  BY <1>1, <1>2, <1>3 DEF Stages, Owing
<1>8. Emptied'
  BY <1>1, <1>2, <1>3 DEF Emptied
<1>9. Served'
  <2>1. promised' \subseteq Woken' \cup lease'
    <3>1. CASE lock = "demand"
      BY <1>1, <1>4, <3>1 DEF IInv, Served, Wakes, Waiting, Woken, RestoreEnds
    <3>2. CASE lock # "demand"
      BY <1>1, <1>4, <3>2 DEF IInv, Served, RestoreEnds
    <3> QED BY <3>1, <3>2
  <2> QED BY <2>1, <1>1, <1>2 DEF Served
<1>10. Unhurt'
  BY <1>1, <1>2 DEF Unhurt
<1> QED BY <1>4, <1>5, <1>6, <1>7, <1>8, <1>9, <1>10 DEF IInv, TypeOK

-----------------------------------------------------------------------------
(* Every step preserves the invariant *)

\* An ensure_img, from the lock to its finally.
LEMMA EnsureKeeps == ASSUME IInv, Ensure PROVE IInv'
<1>1. ASSUME EnsureBegins PROVE IInv'
  <2>1. FlagsOK'
    BY <1>1 DEF IInv, TypeOK, FlagsOK, EnsureBegins, EnsureEnter
  <2>2. PlacesOK'
    BY <1>1 DEF IInv, TypeOK, PlacesOK, EnsureBegins, EnsureEnter, ChatPcs, ImagePcs
  <2>3. ValuesOK'
    BY <1>1 DEF IInv, TypeOK, ValuesOK, EnsureBegins, EnsureEnter, Steps, EnsureSteps
  <2>4. Stages' /\ Owing'
    BY <1>1 DEF IInv, TypeOK, ValuesOK, EnsureBegins, EnsureEnter, Stages, Owing, OnGpu
  <2>5. Emptied'
    BY <1>1 DEF IInv, TypeOK, PlacesOK, ValuesOK, EnsureBegins, EnsureEnter, Stages,
         Owing, Emptied, Settled, OnGpu, InFlight
  <2>6. Served'
    BY <1>1 DEF IInv, TypeOK, PlacesOK, ValuesOK, EnsureBegins, EnsureEnter, Stages,
         Served, Woken, Waiting, ServedPending
  <2>7. Unhurt'
    <3>1. PICK p \in Images \cup Ops : \E b \in BOOLEAN : EnsureEnter(p, b)
      BY <1>1 DEF EnsureBegins
    <3>2. /\ lock' \notin Restorers /\ lock' # Nobody /\ step' \notin {"read", "free"}
      BY <3>1, Apart DEF EnsureEnter
    <3> QED BY <3>2 DEF Unhurt
  <2> QED BY <2>1, <2>2, <2>3, <2>4, <2>5, <2>6, <2>7 DEF IInv, TypeOK
<1>2. ASSUME LeasesOver PROVE IInv'
  <2>1. TypeOK'
    BY <1>2 DEF IInv, TypeOK, FlagsOK, PlacesOK, ValuesOK, LeasesOver, Fault, ChatPcs,
         ImagePcs, Steps, EnsureSteps
  <2>2. Stages' /\ Owing'
    BY <1>2 DEF IInv, TypeOK, ValuesOK, LeasesOver, Fault, Stages, Owing, OnGpu
  <2>3. Emptied'
    BY <1>2 DEF IInv, TypeOK, PlacesOK, ValuesOK, LeasesOver, Fault, Stages, Owing,
         Emptied, Settled, OnGpu, InFlight
  <2>4. Served'
    BY <1>2 DEF IInv, TypeOK, PlacesOK, ValuesOK, LeasesOver, Fault, Stages, Served,
         Woken, Waiting, ServedPending
  <2>5. Unhurt'
    BY <1>2 DEF IInv, TypeOK, PlacesOK, ValuesOK, LeasesOver, Fault, Stages, Unhurt,
         JobsOpen
  <2> QED BY <2>1, <2>2, <2>3, <2>4, <2>5 DEF IInv
<1>3. ASSUME SwitchRefused PROVE IInv'
  <2>1. FlagsOK'
    BY <1>3 DEF IInv, TypeOK, FlagsOK, SwitchRefused, Fault, EnsureEnds
  <2>2. PlacesOK'
    BY <1>3 DEF IInv, TypeOK, PlacesOK, SwitchRefused, Fault, EnsureEnds, ChatPcs,
         ImagePcs
  <2>3. ValuesOK'
    BY <1>3 DEF IInv, TypeOK, ValuesOK, SwitchRefused, Fault, EnsureEnds, Steps,
         EnsureSteps
  <2>4. Stages' /\ Owing'
    BY <1>3 DEF IInv, TypeOK, ValuesOK, SwitchRefused, Fault, EnsureEnds, Stages, Owing,
         OnGpu
  <2>5. Emptied'
    BY <1>3 DEF IInv, TypeOK, PlacesOK, ValuesOK, SwitchRefused, Fault, EnsureEnds,
         Stages, Owing, Emptied, Settled, OnGpu, InFlight
  <2>6. Served'
    BY <1>3 DEF IInv, TypeOK, PlacesOK, ValuesOK, SwitchRefused, Fault, EnsureEnds,
         Stages, Served, Woken, Waiting, ServedPending
  <2>7. Unhurt'
    BY <1>3 DEF IInv, TypeOK, PlacesOK, ValuesOK, SwitchRefused, Fault, EnsureEnds,
         Stages, Unhurt, JobsOpen
  <2> QED BY <2>1, <2>2, <2>3, <2>4, <2>5, <2>6, <2>7 DEF IInv, TypeOK
<1>4. ASSUME Snapshot PROVE IInv'
  <2>1. TypeOK'
    BY <1>4 DEF IInv, TypeOK, FlagsOK, PlacesOK, ValuesOK, Snapshot, ChatPcs, ImagePcs,
         Steps, EnsureSteps
  <2>2. Stages' /\ Owing'
    BY <1>4 DEF IInv, TypeOK, ValuesOK, Snapshot, Stages, Owing, OnGpu
  <2>3. Emptied'
    BY <1>4 DEF IInv, TypeOK, PlacesOK, ValuesOK, Snapshot, Stages, Owing, Emptied,
         Settled, OnGpu, InFlight
  <2>4. Served'
    BY <1>4 DEF IInv, TypeOK, PlacesOK, ValuesOK, Snapshot, Stages, Served, Woken,
         Waiting, ServedPending
  <2>5. Unhurt'
    BY <1>4 DEF IInv, TypeOK, PlacesOK, ValuesOK, Snapshot, Stages, Unhurt, JobsOpen
  <2> QED BY <2>1, <2>2, <2>3, <2>4, <2>5 DEF IInv
<1>5. ASSUME DrainOver PROVE IInv'
  <2>1. FlagsOK'
    BY <1>5 DEF IInv, TypeOK, FlagsOK, DrainOver, Fault
  <2>2. PlacesOK'
    BY <1>5 DEF IInv, TypeOK, PlacesOK, DrainOver, Fault, ChatPcs, ImagePcs
  <2>3. ValuesOK'
    BY <1>5 DEF IInv, TypeOK, ValuesOK, DrainOver, Fault, Steps, EnsureSteps
  <2>4. Stages' /\ Owing'
    BY <1>5 DEF IInv, TypeOK, ValuesOK, DrainOver, Fault, Stages, Owing, OnGpu
  <2>5. Emptied'
    BY <1>5 DEF IInv, TypeOK, PlacesOK, ValuesOK, DrainOver, Fault, Stages, Owing,
         Emptied, Settled, OnGpu, InFlight
  <2>6. Served'
    BY <1>5 DEF IInv, TypeOK, PlacesOK, ValuesOK, DrainOver, Fault, Stages, Served,
         Woken, Waiting, ServedPending
  <2>7. Unhurt'
    BY <1>5 DEF IInv, TypeOK, PlacesOK, ValuesOK, DrainOver, Fault, Stages, Unhurt,
         JobsOpen
  <2> QED BY <2>1, <2>2, <2>3, <2>4, <2>5, <2>6, <2>7 DEF IInv, TypeOK
<1>6. ASSUME LoadsOver PROVE IInv'
  <2>1. TypeOK'
    BY <1>6 DEF IInv, TypeOK, FlagsOK, PlacesOK, ValuesOK, LoadsOver, Fault,
         ReloadAfterAbort, ChatPcs, ImagePcs, Steps, EnsureSteps
  <2>2. Stages' /\ Owing'
    BY <1>6 DEF IInv, TypeOK, ValuesOK, LoadsOver, Fault, ReloadAfterAbort, Stages,
         Owing, OnGpu
  <2>3. Emptied'
    BY <1>6 DEF IInv, TypeOK, PlacesOK, ValuesOK, LoadsOver, Fault, ReloadAfterAbort,
         Stages, Owing, Emptied, Settled, OnGpu, InFlight
  <2>4. Served'
    BY <1>6 DEF IInv, TypeOK, PlacesOK, ValuesOK, LoadsOver, Fault, ReloadAfterAbort,
         Stages, Served, Woken, Waiting, ServedPending
  <2>5. Unhurt'
    BY <1>6 DEF IInv, TypeOK, PlacesOK, ValuesOK, LoadsOver, Fault, ReloadAfterAbort,
         Stages, Unhurt, JobsOpen
  <2> QED BY <2>1, <2>2, <2>3, <2>4, <2>5 DEF IInv
<1>7. ASSUME NEW s \in Slots, UnloadStarts(s) PROVE IInv'
  <2>1. TypeOK'
    BY <1>7 DEF IInv, TypeOK, FlagsOK, PlacesOK, ValuesOK, UnloadStarts, SlotLockFree,
         ChatPcs, ImagePcs, Steps, EnsureSteps
  <2>2. Stages' /\ Owing'
    BY <1>7 DEF IInv, TypeOK, ValuesOK, UnloadStarts, SlotLockFree, Stages, Owing, OnGpu
  <2>3. Emptied'
    BY <1>7 DEF IInv, TypeOK, PlacesOK, ValuesOK, UnloadStarts, SlotLockFree, Stages,
         Owing, Emptied, Settled, OnGpu, InFlight
  <2>4. Served'
    BY <1>7 DEF IInv, TypeOK, PlacesOK, ValuesOK, UnloadStarts, SlotLockFree, Stages,
         Served, Woken, Waiting, ServedPending
  <2>5. Unhurt'
    BY <1>7 DEF IInv, TypeOK, PlacesOK, ValuesOK, UnloadStarts, SlotLockFree, Stages,
         Unhurt, JobsOpen
  <2> QED BY <2>1, <2>2, <2>3, <2>4, <2>5 DEF IInv
<1>8. ASSUME NEW s \in Slots, UnloadEnds(s) PROVE IInv'
  <2>1. TypeOK'
    BY <1>8 DEF IInv, TypeOK, FlagsOK, PlacesOK, ValuesOK, UnloadEnds, ChatPcs,
         ImagePcs, Steps, EnsureSteps
  <2>2. Stages' /\ Owing'
    BY <1>8 DEF IInv, TypeOK, ValuesOK, UnloadEnds, Stages, Owing, OnGpu
  <2>3. Emptied'
    <3>1. /\ UNCHANGED <<mode, saved, hurried, healing, pc, step>> /\ step = "unload"
          /\ todo' = todo \ {s} /\ slot' = [slot EXCEPT ![s] = "off"]
      BY <1>8 DEF UnloadEnds
    <3>2. \A t \in Slots : InFlight(t)' = InFlight(t)
      BY <3>1 DEF InFlight
    <3>3. \A t \in Slots : Settled(t) => Settled(t)'
      BY <3>1 DEF Settled, OnGpu, IInv, TypeOK, ValuesOK
    <3>4. Settled(s)'
      <4>1. now = s /\ now # Nobody
        BY <1>8 DEF UnloadEnds
      <4>2. \A c \in Chats : Target[c] = s => pc[c] # "toload_route"
        BY <3>1, <4>1 DEF IInv, Emptied
      <4> QED BY <3>1, <4>2 DEF Settled, OnGpu, IInv, TypeOK, ValuesOK
    <3> QED BY <1>8, <3>1, <3>2, <3>3, <3>4 DEF UnloadEnds, IInv, TypeOK, ValuesOK, Emptied
  <2>4. Served'
    BY <1>8 DEF IInv, TypeOK, PlacesOK, ValuesOK, UnloadEnds, Stages, Served, Woken,
         Waiting, ServedPending
  <2>5. Unhurt'
    BY <1>8 DEF IInv, TypeOK, PlacesOK, ValuesOK, UnloadEnds, Stages, Unhurt, JobsOpen
  <2> QED BY <2>1, <2>2, <2>3, <2>4, <2>5 DEF IInv
<1>9. ASSUME NEW s \in Slots, UnloadNothing(s) PROVE IInv'
  <2>1. TypeOK'
    BY <1>9 DEF IInv, TypeOK, FlagsOK, PlacesOK, ValuesOK, UnloadNothing, SlotLockFree,
         ChatPcs, ImagePcs, Steps, EnsureSteps
  <2>2. Stages' /\ Owing'
    BY <1>9 DEF IInv, TypeOK, ValuesOK, UnloadNothing, SlotLockFree, Stages, Owing,
         OnGpu
  <2>3. Emptied'
    BY <1>9 DEF IInv, TypeOK, PlacesOK, ValuesOK, UnloadNothing, SlotLockFree, Stages,
         Owing, Emptied, Settled, OnGpu, InFlight
  <2>4. Served'
    BY <1>9 DEF IInv, TypeOK, PlacesOK, ValuesOK, UnloadNothing, SlotLockFree, Stages,
         Served, Woken, Waiting, ServedPending
  <2>5. Unhurt'
    BY <1>9 DEF IInv, TypeOK, PlacesOK, ValuesOK, UnloadNothing, SlotLockFree, Stages,
         Unhurt, JobsOpen
  <2> QED BY <2>1, <2>2, <2>3, <2>4, <2>5 DEF IInv
<1>10. ASSUME NEW s \in Slots, UnloadFails(s) PROVE IInv'
  <2>1. TypeOK'
    BY <1>10 DEF IInv, TypeOK, FlagsOK, PlacesOK, ValuesOK, UnloadFails, Fault,
         ReloadAfterAbort, ChatPcs, ImagePcs, Steps, EnsureSteps
  <2>2. Stages' /\ Owing'
    BY <1>10 DEF IInv, TypeOK, ValuesOK, UnloadFails, Fault, ReloadAfterAbort, Stages,
         Owing, OnGpu
  <2>3. Emptied'
    BY <1>10 DEF IInv, TypeOK, PlacesOK, ValuesOK, UnloadFails, Fault, ReloadAfterAbort,
         Stages, Owing, Emptied, Settled, OnGpu, InFlight
  <2>4. Served'
    BY <1>10 DEF IInv, TypeOK, PlacesOK, ValuesOK, UnloadFails, Fault, ReloadAfterAbort,
         Stages, Served, Woken, Waiting, ServedPending
  <2>5. Unhurt'
    BY <1>10 DEF IInv, TypeOK, PlacesOK, ValuesOK, UnloadFails, Fault, ReloadAfterAbort,
         Stages, Unhurt, JobsOpen
  <2> QED BY <2>1, <2>2, <2>3, <2>4, <2>5 DEF IInv
<1>11. ASSUME UnloadsOver PROVE IInv'
  <2>1. TypeOK'
    BY <1>11 DEF IInv, TypeOK, FlagsOK, PlacesOK, ValuesOK, UnloadsOver, ChatPcs,
         ImagePcs, Steps, EnsureSteps
  <2>2. Stages' /\ Owing'
    BY <1>11 DEF IInv, TypeOK, ValuesOK, UnloadsOver, Stages, Owing, OnGpu
  <2>3. Emptied'
    BY <1>11 DEF IInv, TypeOK, PlacesOK, ValuesOK, UnloadsOver, Stages, Owing, Emptied,
         Settled, OnGpu, InFlight
  <2>4. Served'
    BY <1>11 DEF IInv, TypeOK, PlacesOK, ValuesOK, UnloadsOver, Stages, Served, Woken,
         Waiting, ServedPending
  <2>5. Unhurt'
    BY <1>11 DEF IInv, TypeOK, PlacesOK, ValuesOK, UnloadsOver, Stages, Unhurt, JobsOpen
  <2> QED BY <2>1, <2>2, <2>3, <2>4, <2>5 DEF IInv
<1>12. ASSUME EngineUp PROVE IInv'
  <2>1. FlagsOK'
    BY <1>12 DEF IInv, TypeOK, FlagsOK, EngineUp, EnsureEnds
  <2>2. PlacesOK'
    BY <1>12 DEF IInv, TypeOK, PlacesOK, EngineUp, EnsureEnds, ChatPcs, ImagePcs
  <2>3. ValuesOK'
    BY <1>12 DEF IInv, TypeOK, ValuesOK, EngineUp, EnsureEnds, Steps, EnsureSteps
  <2>4. Stages' /\ Owing'
    BY <1>12 DEF IInv, TypeOK, ValuesOK, EngineUp, EnsureEnds, Stages, Owing, OnGpu
  <2>5. Emptied'
    BY <1>12 DEF IInv, TypeOK, PlacesOK, ValuesOK, EngineUp, EnsureEnds, Stages, Owing,
         Emptied, Settled, OnGpu, InFlight
  <2>6. Served'
    BY <1>12 DEF IInv, TypeOK, PlacesOK, ValuesOK, EngineUp, EnsureEnds, Stages, Served,
         Woken, Waiting, ServedPending
  <2>7. Unhurt'
    BY <1>12 DEF IInv, TypeOK, PlacesOK, ValuesOK, EngineUp, EnsureEnds, Stages, Unhurt,
         JobsOpen
  <2> QED BY <2>1, <2>2, <2>3, <2>4, <2>5, <2>6, <2>7 DEF IInv, TypeOK
<1>13. ASSUME EngineStarts PROVE IInv'
  <2>1. TypeOK'
    BY <1>13 DEF IInv, TypeOK, FlagsOK, PlacesOK, ValuesOK, EngineStarts, Fault,
         ChatPcs, ImagePcs, Steps, EnsureSteps
  <2>2. Stages' /\ Owing'
    BY <1>13 DEF IInv, TypeOK, ValuesOK, EngineStarts, Fault, Stages, Owing, OnGpu
  <2>3. Emptied'
    BY <1>13 DEF IInv, TypeOK, PlacesOK, ValuesOK, EngineStarts, Fault, Stages, Owing,
         Emptied, Settled, OnGpu, InFlight
  <2>4. Served'
    BY <1>13 DEF IInv, TypeOK, PlacesOK, ValuesOK, EngineStarts, Fault, Stages, Served,
         Woken, Waiting, ServedPending
  <2>5. Unhurt'
    BY <1>13 DEF IInv, TypeOK, PlacesOK, ValuesOK, EngineStarts, Fault, Stages, Unhurt,
         JobsOpen
  <2> QED BY <2>1, <2>2, <2>3, <2>4, <2>5 DEF IInv
<1>14. ASSUME EngineReady PROVE IInv'
  <2>1. FlagsOK'
    BY <1>14 DEF IInv, TypeOK, FlagsOK, EngineReady, EnsureEnds
  <2>2. PlacesOK'
    BY <1>14 DEF IInv, TypeOK, PlacesOK, EngineReady, EnsureEnds, ChatPcs, ImagePcs
  <2>3. ValuesOK'
    BY <1>14 DEF IInv, TypeOK, ValuesOK, EngineReady, EnsureEnds, Steps, EnsureSteps
  <2>4. Stages' /\ Owing'
    BY <1>14 DEF IInv, TypeOK, ValuesOK, EngineReady, EnsureEnds, Stages, Owing, OnGpu
  <2>5. Emptied'
    BY <1>14 DEF IInv, TypeOK, PlacesOK, ValuesOK, EngineReady, EnsureEnds, Stages,
         Owing, Emptied, Settled, OnGpu, InFlight
  <2>6. Served'
    BY <1>14 DEF IInv, TypeOK, PlacesOK, ValuesOK, EngineReady, EnsureEnds, Stages,
         Served, Woken, Waiting, ServedPending
  <2>7. Unhurt'
    BY <1>14 DEF IInv, TypeOK, PlacesOK, ValuesOK, EngineReady, EnsureEnds, Stages,
         Unhurt, JobsOpen
  <2> QED BY <2>1, <2>2, <2>3, <2>4, <2>5, <2>6, <2>7 DEF IInv, TypeOK
<1>15. ASSUME EngineFails PROVE IInv'
  <2>1. TypeOK'
    BY <1>15 DEF IInv, TypeOK, FlagsOK, PlacesOK, ValuesOK, EngineFails, Fault, ChatPcs,
         ImagePcs, Steps, EnsureSteps
  <2>2. Stages' /\ Owing'
    BY <1>15 DEF IInv, TypeOK, ValuesOK, EngineFails, Fault, Stages, Owing, OnGpu
  <2>3. Emptied'
    BY <1>15 DEF IInv, TypeOK, PlacesOK, ValuesOK, EngineFails, Fault, Stages, Owing,
         Emptied, Settled, OnGpu, InFlight
  <2>4. Served'
    BY <1>15 DEF IInv, TypeOK, PlacesOK, ValuesOK, EngineFails, Fault, Stages, Served,
         Woken, Waiting, ServedPending
  <2>5. Unhurt'
    BY <1>15 DEF IInv, TypeOK, PlacesOK, ValuesOK, EngineFails, Fault, Stages, Unhurt,
         JobsOpen
  <2> QED BY <2>1, <2>2, <2>3, <2>4, <2>5 DEF IInv
<1>16. ASSUME RollbackEnds PROVE IInv'
  <2>1. TypeOK'
    BY <1>16 DEF IInv, TypeOK, FlagsOK, PlacesOK, ValuesOK, RollbackEnds, LlmMode,
         EnsureEnds, ChatPcs, ImagePcs, Steps, EnsureSteps
  <2>2. Stages' /\ Owing'
    BY <1>16 DEF IInv, TypeOK, ValuesOK, RollbackEnds, LlmMode, EnsureEnds, Stages,
         Owing, OnGpu
  <2>3. Emptied'
    BY <1>16 DEF IInv, TypeOK, PlacesOK, ValuesOK, RollbackEnds, LlmMode, EnsureEnds,
         Stages, Owing, Emptied, Settled, OnGpu, InFlight
  <2>4. Served'
    BY <1>16 DEF IInv, TypeOK, PlacesOK, ValuesOK, RollbackEnds, LlmMode, EnsureEnds,
         Stages, Served, Woken, Waiting, ServedPending
  <2>5. Unhurt'
    BY <1>16 DEF IInv, TypeOK, PlacesOK, ValuesOK, RollbackEnds, LlmMode, EnsureEnds,
         Stages, Unhurt, JobsOpen
  <2> QED BY <2>1, <2>2, <2>3, <2>4, <2>5 DEF IInv
<1> QED BY <1>1, <1>2, <1>3, <1>4, <1>5, <1>6, <1>7, <1>8, <1>9, <1>10, <1>11, <1>12, <1>13, <1>14, <1>15, <1>16 DEF Ensure

\* The reload loop of a rollback and of a restore.
LEMMA ReloadKeeps == ASSUME IInv, Reload PROVE IInv'
<1>1. ASSUME NEW s \in Slots, ReloadNothing(s) PROVE IInv'
  <2>1. TypeOK'
    BY <1>1 DEF IInv, TypeOK, FlagsOK, PlacesOK, ValuesOK, ReloadNothing, Reloading,
         SlotLockFree, ChatPcs, ImagePcs, Steps, EnsureSteps
  <2>2. Stages' /\ Owing'
    BY <1>1 DEF IInv, TypeOK, ValuesOK, ReloadNothing, Reloading, SlotLockFree, Stages,
         Owing, OnGpu
  <2>3. Emptied'
    BY <1>1 DEF IInv, TypeOK, PlacesOK, ValuesOK, ReloadNothing, Reloading,
         SlotLockFree, Stages, Owing, Emptied, Settled, OnGpu, InFlight
  <2>4. Served'
    BY <1>1 DEF IInv, TypeOK, PlacesOK, ValuesOK, ReloadNothing, Reloading,
         SlotLockFree, Stages, Served, Woken, Waiting, ServedPending
  <2>5. Unhurt'
    BY <1>1 DEF IInv, TypeOK, PlacesOK, ValuesOK, ReloadNothing, Reloading,
         SlotLockFree, Stages, Unhurt, JobsOpen
  <2> QED BY <2>1, <2>2, <2>3, <2>4, <2>5 DEF IInv
<1>2. ASSUME NEW s \in Slots, ReloadStarts(s) PROVE IInv'
  <2>1. TypeOK'
    BY <1>2 DEF IInv, TypeOK, FlagsOK, PlacesOK, ValuesOK, ReloadStarts, Reloading,
         SlotLockFree, ChatPcs, ImagePcs, Steps, EnsureSteps
  <2>2. Stages' /\ Owing'
    BY <1>2 DEF IInv, TypeOK, ValuesOK, ReloadStarts, Reloading, SlotLockFree, Stages,
         Owing, OnGpu
  <2>3. Emptied'
    BY <1>2 DEF IInv, TypeOK, PlacesOK, ValuesOK, ReloadStarts, Reloading, SlotLockFree,
         Stages, Owing, Emptied, Settled, OnGpu, InFlight
  <2>4. Served'
    BY <1>2 DEF IInv, TypeOK, PlacesOK, ValuesOK, ReloadStarts, Reloading, SlotLockFree,
         Stages, Served, Woken, Waiting, ServedPending
  <2>5. Unhurt'
    BY <1>2 DEF IInv, TypeOK, PlacesOK, ValuesOK, ReloadStarts, Reloading, SlotLockFree,
         Stages, Unhurt, JobsOpen
  <2> QED BY <2>1, <2>2, <2>3, <2>4, <2>5 DEF IInv
<1>3. ASSUME NEW s \in Slots, ReloadEnds(s) PROVE IInv'
  <2>1. TypeOK'
    BY <1>3 DEF IInv, TypeOK, FlagsOK, PlacesOK, ValuesOK, ReloadEnds, Reloading,
         ChatPcs, ImagePcs, Steps, EnsureSteps
  <2>2. Stages' /\ Owing'
    BY <1>3 DEF IInv, TypeOK, ValuesOK, ReloadEnds, Reloading, Stages, Owing, OnGpu
  <2>3. Emptied'
    BY <1>3 DEF IInv, TypeOK, PlacesOK, ValuesOK, ReloadEnds, Reloading, Stages, Owing,
         Emptied, Settled, OnGpu, InFlight
  <2>4. Served'
    BY <1>3 DEF IInv, TypeOK, PlacesOK, ValuesOK, ReloadEnds, Reloading, Stages, Served,
         Woken, Waiting, ServedPending
  <2>5. Unhurt'
    BY <1>3 DEF IInv, TypeOK, PlacesOK, ValuesOK, ReloadEnds, Reloading, Stages, Unhurt,
         JobsOpen
  <2> QED BY <2>1, <2>2, <2>3, <2>4, <2>5 DEF IInv
<1> QED BY <1>1, <1>2, <1>3 DEF Reload

\* The restores: the decision, the /free and the end.
LEMMA RestoreKeeps == ASSUME IInv, Restore PROVE IInv'
<1>1. ASSUME NEW p \in Restorers, RestoreAsks(p) PROVE IInv'
  <2>1. TypeOK'
    BY <1>1 DEF IInv, TypeOK, FlagsOK, PlacesOK, ValuesOK, RestoreAsks, ChatPcs,
         ImagePcs, Steps, EnsureSteps
  <2>2. Stages' /\ Owing'
    BY <1>1 DEF IInv, TypeOK, ValuesOK, RestoreAsks, Stages, Owing, OnGpu
  <2>3. Emptied'
    BY <1>1 DEF IInv, TypeOK, PlacesOK, ValuesOK, RestoreAsks, Stages, Owing, Emptied,
         Settled, OnGpu, InFlight
  <2>4. Served'
    BY <1>1 DEF IInv, TypeOK, PlacesOK, ValuesOK, RestoreAsks, Stages, Served, Woken,
         Waiting, ServedPending
  <2>5. Unhurt'
    BY <1>1 DEF IInv, TypeOK, PlacesOK, ValuesOK, RestoreAsks, Stages, Unhurt, JobsOpen
  <2> QED BY <2>1, <2>2, <2>3, <2>4, <2>5 DEF IInv
<1>2. ASSUME QueueAnswers PROVE IInv'
  <2>1. TypeOK'
    BY <1>2 DEF IInv, TypeOK, FlagsOK, PlacesOK, ValuesOK, QueueAnswers, ChatPcs,
         ImagePcs, Steps, EnsureSteps
  <2>2. Stages' /\ Owing'
    BY <1>2 DEF IInv, TypeOK, ValuesOK, QueueAnswers, Stages, Owing, OnGpu
  <2>3. Emptied'
    BY <1>2 DEF IInv, TypeOK, PlacesOK, ValuesOK, QueueAnswers, Stages, Owing, Emptied,
         Settled, OnGpu, InFlight
  <2>4. Served'
    BY <1>2 DEF IInv, TypeOK, PlacesOK, ValuesOK, QueueAnswers, Stages, Served, Woken,
         Waiting, ServedPending
  <2>5. Unhurt'
    BY <1>2 DEF IInv, TypeOK, PlacesOK, ValuesOK, QueueAnswers, Stages, Unhurt, JobsOpen
  <2> QED BY <2>1, <2>2, <2>3, <2>4, <2>5 DEF IInv
<1>3. ASSUME QueueBusy PROVE IInv'
  <2>1. PlacesOK' /\ Stages' /\ Owing' /\ Emptied' /\ Served' /\ Unhurt'
    <3>1. PICK over \in BOOLEAN : RestoreLeaves(over)
      BY <1>3 DEF QueueBusy
    <3> QED BY <1>3, <3>1, PauseKeeps DEF QueueBusy
  <2>2. FlagsOK'
    BY <1>3 DEF IInv, TypeOK, FlagsOK, PlacesOK, ValuesOK, QueueBusy, Fault,
         RestoreLeaves
  <2>3. ValuesOK'
    BY <1>3 DEF IInv, TypeOK, FlagsOK, PlacesOK, ValuesOK, QueueBusy, Fault,
         RestoreLeaves, Steps, EnsureSteps
  <2> QED BY <2>1, <2>2, <2>3 DEF IInv, TypeOK
<1>4. ASSUME RecheckRefuses PROVE IInv'
  <2>1. PlacesOK' /\ Stages' /\ Owing' /\ Emptied' /\ Served' /\ Unhurt'
    BY <1>4, PauseKeeps DEF RecheckRefuses
  <2>2. FlagsOK'
    BY <1>4 DEF IInv, TypeOK, FlagsOK, PlacesOK, ValuesOK, RecheckRefuses, RestoreLeaves
  <2>3. ValuesOK'
    BY <1>4 DEF IInv, TypeOK, FlagsOK, PlacesOK, ValuesOK, RecheckRefuses,
         RestoreLeaves, Steps, EnsureSteps
  <2> QED BY <2>1, <2>2, <2>3 DEF IInv, TypeOK
<1>5. ASSUME RecheckPasses PROVE IInv'
  <2>1. TypeOK'
    BY <1>5 DEF IInv, TypeOK, FlagsOK, PlacesOK, ValuesOK, RecheckPasses, ChatPcs,
         ImagePcs, Steps, EnsureSteps
  <2>2. Stages' /\ Owing'
    BY <1>5 DEF IInv, TypeOK, ValuesOK, RecheckPasses, Stages, Owing, OnGpu
  <2>3. Emptied'
    BY <1>5 DEF IInv, TypeOK, PlacesOK, ValuesOK, RecheckPasses, Stages, Owing, Emptied,
         Settled, OnGpu, InFlight
  <2>4. Served'
    BY <1>5 DEF IInv, TypeOK, PlacesOK, ValuesOK, RecheckPasses, Stages, Served, Woken,
         Waiting, ServedPending
  <2>5. Unhurt'
    BY <1>5 DEF IInv, TypeOK, PlacesOK, ValuesOK, RecheckPasses, Stages, Unhurt,
         JobsOpen
  <2> QED BY <2>1, <2>2, <2>3, <2>4, <2>5 DEF IInv
<1>6. ASSUME NEW o \in Ops, RestoreLlm(o) PROVE IInv'
  <2>1. FlagsOK'
    BY <1>6 DEF IInv, TypeOK, FlagsOK, RestoreLlm
  <2>2. PlacesOK'
    BY <1>6 DEF IInv, TypeOK, PlacesOK, RestoreLlm, ChatPcs, ImagePcs
  <2>3. ValuesOK'
    BY <1>6 DEF IInv, TypeOK, ValuesOK, RestoreLlm, Steps, EnsureSteps
  <2>4. Stages' /\ Owing'
    BY <1>6 DEF IInv, TypeOK, ValuesOK, RestoreLlm, Stages, Owing, OnGpu
  <2>5. Emptied'
    BY <1>6 DEF IInv, TypeOK, PlacesOK, ValuesOK, RestoreLlm, Stages, Owing, Emptied,
         Settled, OnGpu, InFlight
  <2>6. Served'
    BY <1>6 DEF IInv, TypeOK, PlacesOK, ValuesOK, RestoreLlm, Stages, Served, Woken,
         Waiting, ServedPending
  <2>7. Unhurt'
    <3>1. o \notin Restorers /\ UNCHANGED <<mode, rendering, seen, handoff>>
      BY <1>6, Apart DEF RestoreLlm
    <3>2. CASE lock' = o /\ step' = "free"
      BY <3>1, <3>2 DEF Unhurt
    <3>3. CASE UNCHANGED <<lock, step>> /\ pc' = [pc EXCEPT ![o] = "done"]
      <4>1. \A p0 \in Images : pc'[p0] = "transit" => pc[p0] = "transit"
        BY <3>3 DEF IInv, TypeOK, PlacesOK
      <4> QED BY <3>1, <3>3, <4>1, UnhurtStays DEF IInv
    <3> QED BY <1>6, <3>2, <3>3 DEF RestoreLlm
  <2> QED BY <2>1, <2>2, <2>3, <2>4, <2>5, <2>6, <2>7 DEF IInv, TypeOK
<1>7. ASSUME FreeModels PROVE IInv'
  <2>1. TypeOK'
    BY <1>7 DEF IInv, TypeOK, FlagsOK, PlacesOK, ValuesOK, FreeModels, ChatPcs,
         ImagePcs, Steps, EnsureSteps
  <2>2. Stages' /\ Owing'
    BY <1>7 DEF IInv, TypeOK, ValuesOK, FreeModels, Stages, Owing, OnGpu
  <2>3. Emptied'
    BY <1>7 DEF IInv, TypeOK, PlacesOK, ValuesOK, FreeModels, Stages, Owing, Emptied,
         Settled, OnGpu, InFlight
  <2>4. Served'
    BY <1>7 DEF IInv, TypeOK, PlacesOK, ValuesOK, FreeModels, Stages, Served, Woken,
         Waiting, ServedPending
  <2>5. Unhurt'
    BY <1>7 DEF IInv, TypeOK, PlacesOK, ValuesOK, FreeModels, Stages, Unhurt, JobsOpen
  <2> QED BY <2>1, <2>2, <2>3, <2>4, <2>5 DEF IInv
<1>8. ASSUME RestoreEnds PROVE IInv'
  BY <1>8, RestoreEndsKeeps
<1>9. ASSUME TickStartsClock PROVE IInv'
  <2>1. TypeOK'
    BY <1>9 DEF IInv, TypeOK, FlagsOK, PlacesOK, ValuesOK, TickStartsClock, ChatPcs,
         ImagePcs, Steps, EnsureSteps
  <2>2. Stages' /\ Owing'
    BY <1>9 DEF IInv, TypeOK, ValuesOK, TickStartsClock, Stages, Owing, OnGpu
  <2>3. Emptied'
    BY <1>9 DEF IInv, TypeOK, PlacesOK, ValuesOK, TickStartsClock, Stages, Owing,
         Emptied, Settled, OnGpu, InFlight
  <2>4. Served'
    BY <1>9 DEF IInv, TypeOK, PlacesOK, ValuesOK, TickStartsClock, Stages, Served,
         Woken, Waiting, ServedPending
  <2>5. Unhurt'
    BY <1>9 DEF IInv, TypeOK, PlacesOK, ValuesOK, TickStartsClock, Stages, Unhurt,
         JobsOpen
  <2> QED BY <2>1, <2>2, <2>3, <2>4, <2>5 DEF IInv
<1>10. ASSUME DemandStandsDown PROVE IInv'
  BY <1>10, DemandStandsDownKeeps
<1> QED BY <1>1, <1>2, <1>3, <1>4, <1>5, <1>6, <1>7, <1>8, <1>9, <1>10 DEF Restore

\* Image requests and the gate node.
LEMMA ImageWorkKeeps == ASSUME IInv, ImageWork PROVE IInv'
<1>1. ASSUME NEW j \in Jobs, JobOpens(j) PROVE IInv'
  <2>1. TypeOK'
    BY <1>1 DEF IInv, TypeOK, FlagsOK, PlacesOK, ValuesOK, JobOpens, ChatPcs, ImagePcs,
         Steps, EnsureSteps
  <2>2. Stages' /\ Owing'
    BY <1>1 DEF IInv, TypeOK, ValuesOK, JobOpens, Stages, Owing, OnGpu
  <2>3. Emptied'
    BY <1>1 DEF IInv, TypeOK, PlacesOK, ValuesOK, JobOpens, Stages, Owing, Emptied,
         Settled, OnGpu, InFlight
  <2>4. Served'
    BY <1>1 DEF IInv, TypeOK, PlacesOK, ValuesOK, JobOpens, Stages, Served, Woken,
         Waiting, ServedPending
  <2>5. Unhurt'
    BY <1>1 DEF IInv, TypeOK, PlacesOK, ValuesOK, JobOpens, Stages, Unhurt, JobsOpen
  <2> QED BY <2>1, <2>2, <2>3, <2>4, <2>5 DEF IInv
<1>2. ASSUME NEW p \in Images, PromptComes(p) PROVE IInv'
  <2>1. TypeOK'
    BY <1>2 DEF IInv, TypeOK, FlagsOK, PlacesOK, ValuesOK, PromptComes, ChatPcs,
         ImagePcs, Steps, EnsureSteps
  <2>2. Stages' /\ Owing'
    BY <1>2 DEF IInv, TypeOK, ValuesOK, PromptComes, Stages, Owing, OnGpu
  <2>3. Emptied'
    BY <1>2 DEF IInv, TypeOK, PlacesOK, ValuesOK, PromptComes, Stages, Owing, Emptied,
         Settled, OnGpu, InFlight
  <2>4. Served'
    BY <1>2 DEF IInv, TypeOK, PlacesOK, ValuesOK, PromptComes, Stages, Served, Woken,
         Waiting, ServedPending
  <2>5. Unhurt'
    BY <1>2 DEF IInv, TypeOK, PlacesOK, ValuesOK, PromptComes, Stages, Unhurt, JobsOpen
  <2> QED BY <2>1, <2>2, <2>3, <2>4, <2>5 DEF IInv
<1>3. ASSUME NEW p \in Images, GateReads(p) PROVE IInv'
  <2>1. TypeOK'
    BY <1>3 DEF IInv, TypeOK, FlagsOK, PlacesOK, ValuesOK, GateReads, ChatPcs, ImagePcs,
         Steps, EnsureSteps
  <2>2. Stages' /\ Owing'
    BY <1>3 DEF IInv, TypeOK, ValuesOK, GateReads, Stages, Owing, OnGpu
  <2>3. Emptied'
    BY <1>3 DEF IInv, TypeOK, PlacesOK, ValuesOK, GateReads, Stages, Owing, Emptied,
         Settled, OnGpu, InFlight
  <2>4. Served'
    BY <1>3 DEF IInv, TypeOK, PlacesOK, ValuesOK, GateReads, Stages, Served, Woken,
         Waiting, ServedPending
  <2>5. Unhurt'
    BY <1>3 DEF IInv, TypeOK, PlacesOK, ValuesOK, GateReads, Stages, Unhurt, JobsOpen
  <2> QED BY <2>1, <2>2, <2>3, <2>4, <2>5 DEF IInv
<1>4. ASSUME NEW p \in Images, GateHolds(p) PROVE IInv'
  <2>1. FlagsOK'
    BY <1>4 DEF IInv, TypeOK, FlagsOK, GateHolds
  <2>2. PlacesOK'
    BY <1>4 DEF IInv, TypeOK, PlacesOK, GateHolds, ChatPcs, ImagePcs
  <2>3. ValuesOK'
    BY <1>4 DEF IInv, TypeOK, ValuesOK, GateHolds, Steps, EnsureSteps
  <2>4. Stages' /\ Owing'
    BY <1>4 DEF IInv, TypeOK, ValuesOK, GateHolds, Stages, Owing, OnGpu
  <2>5. Emptied'
    BY <1>4 DEF IInv, TypeOK, PlacesOK, ValuesOK, GateHolds, Stages, Owing, Emptied,
         Settled, OnGpu, InFlight
  <2>6. Served'
    BY <1>4 DEF IInv, TypeOK, PlacesOK, ValuesOK, GateHolds, Stages, Served, Woken,
         Waiting, ServedPending
  <2>7. Unhurt'
    BY <1>4 DEF IInv, TypeOK, PlacesOK, ValuesOK, GateHolds, Stages, Unhurt, JobsOpen
  <2> QED BY <2>1, <2>2, <2>3, <2>4, <2>5, <2>6, <2>7 DEF IInv, TypeOK
<1>5. ASSUME NEW p \in Images, GateAsks(p) PROVE IInv'
  <2>1. FlagsOK'
    BY <1>5 DEF IInv, TypeOK, FlagsOK, GateAsks
  <2>2. PlacesOK'
    BY <1>5 DEF IInv, TypeOK, PlacesOK, GateAsks, ChatPcs, ImagePcs
  <2>3. ValuesOK'
    BY <1>5 DEF IInv, TypeOK, ValuesOK, GateAsks, Steps, EnsureSteps
  <2>4. Stages' /\ Owing'
    BY <1>5 DEF IInv, TypeOK, ValuesOK, GateAsks, Stages, Owing, OnGpu
  <2>5. Emptied'
    BY <1>5 DEF IInv, TypeOK, PlacesOK, ValuesOK, GateAsks, Stages, Owing, Emptied,
         Settled, OnGpu, InFlight
  <2>6. Served'
    BY <1>5 DEF IInv, TypeOK, PlacesOK, ValuesOK, GateAsks, Stages, Served, Woken,
         Waiting, ServedPending
  <2>7. Unhurt'
    <3>1. UNCHANGED <<lock, mode, step, seen, handoff>> /\ rendering' \subseteq rendering
      BY <1>5 DEF GateAsks
    <3>2. \A p0 \in Images : pc'[p0] = "transit" => pc[p0] = "transit"
      BY <1>5 DEF GateAsks, IInv, TypeOK, PlacesOK
    <3> QED BY <3>1, <3>2, UnhurtStays DEF IInv
  <2> QED BY <2>1, <2>2, <2>3, <2>4, <2>5, <2>6, <2>7 DEF IInv, TypeOK
<1>6. ASSUME NEW p \in Images, GateRefuses(p) PROVE IInv'
  <2>1. TypeOK'
    BY <1>6 DEF IInv, TypeOK, FlagsOK, PlacesOK, ValuesOK, GateRefuses, Closes, ChatPcs,
         ImagePcs, Steps, EnsureSteps
  <2>2. Stages' /\ Owing'
    BY <1>6 DEF IInv, TypeOK, ValuesOK, GateRefuses, Closes, Stages, Owing, OnGpu
  <2>3. Emptied'
    BY <1>6 DEF IInv, TypeOK, PlacesOK, ValuesOK, GateRefuses, Closes, Stages, Owing,
         Emptied, Settled, OnGpu, InFlight
  <2>4. Served'
    BY <1>6 DEF IInv, TypeOK, PlacesOK, ValuesOK, GateRefuses, Closes, Stages, Served,
         Woken, Waiting, ServedPending
  <2>5. Unhurt'
    BY <1>6 DEF IInv, TypeOK, PlacesOK, ValuesOK, GateRefuses, Closes, Stages, Unhurt,
         JobsOpen
  <2> QED BY <2>1, <2>2, <2>3, <2>4, <2>5 DEF IInv
<1>7. ASSUME NEW p \in Images, PromptArrives(p) PROVE IInv'
  <2>1. TypeOK'
    BY <1>7 DEF IInv, TypeOK, FlagsOK, PlacesOK, ValuesOK, PromptArrives, Closes,
         ChatPcs, ImagePcs, Steps, EnsureSteps
  <2>2. Stages' /\ Owing'
    BY <1>7 DEF IInv, TypeOK, ValuesOK, PromptArrives, Closes, Stages, Owing, OnGpu
  <2>3. Emptied'
    BY <1>7 DEF IInv, TypeOK, PlacesOK, ValuesOK, PromptArrives, Closes, Stages, Owing,
         Emptied, Settled, OnGpu, InFlight
  <2>4. Served'
    BY <1>7 DEF IInv, TypeOK, PlacesOK, ValuesOK, PromptArrives, Closes, Stages, Served,
         Woken, Waiting, ServedPending
  <2>5. Unhurt'
    BY <1>7 DEF IInv, TypeOK, PlacesOK, ValuesOK, PromptArrives, Closes, Stages, Unhurt,
         JobsOpen
  <2> QED BY <2>1, <2>2, <2>3, <2>4, <2>5 DEF IInv
<1>8. ASSUME NEW p \in Images, RenderEnds(p) PROVE IInv'
  <2>1. TypeOK'
    BY <1>8 DEF IInv, TypeOK, FlagsOK, PlacesOK, ValuesOK, RenderEnds, Closes, ChatPcs,
         ImagePcs, Steps, EnsureSteps
  <2>2. Stages' /\ Owing'
    BY <1>8 DEF IInv, TypeOK, ValuesOK, RenderEnds, Closes, Stages, Owing, OnGpu
  <2>3. Emptied'
    BY <1>8 DEF IInv, TypeOK, PlacesOK, ValuesOK, RenderEnds, Closes, Stages, Owing,
         Emptied, Settled, OnGpu, InFlight
  <2>4. Served'
    BY <1>8 DEF IInv, TypeOK, PlacesOK, ValuesOK, RenderEnds, Closes, Stages, Served,
         Woken, Waiting, ServedPending
  <2>5. Unhurt'
    <3>1. UNCHANGED <<lock, mode, step, seen, handoff>> /\ rendering' \subseteq rendering
      BY <1>8 DEF RenderEnds, Closes
    <3>2. \A p0 \in Images : pc'[p0] = "transit" => pc[p0] = "transit"
      BY <1>8 DEF RenderEnds, Closes, IInv, TypeOK, PlacesOK
    <3> QED BY <3>1, <3>2, UnhurtStays DEF IInv
  <2> QED BY <2>1, <2>2, <2>3, <2>4, <2>5 DEF IInv
<1> QED BY <1>1, <1>2, <1>3, <1>4, <1>5, <1>6, <1>7, <1>8 DEF ImageWork

\* LLM requests.
LEMMA ChatWorkKeeps == ASSUME IInv, ChatWork PROVE IInv'
<1>1. ASSUME NEW c \in Chats, MakeRoom(c) PROVE IInv'
  <2>1. FlagsOK'
    BY <1>1 DEF IInv, TypeOK, FlagsOK, MakeRoom, RouteGuard, DispatchGuard
  <2>2. PlacesOK'
    <3>1. PICK v \in ChatPcs : pc' = [pc EXCEPT ![c] = v]
      BY <1>1 DEF MakeRoom, RouteGuard, DispatchGuard, ChatPcs
    <3> QED BY <3>1 DEF IInv, TypeOK, PlacesOK
  <2>3. ValuesOK'
    BY <1>1 DEF IInv, TypeOK, ValuesOK, MakeRoom, RouteGuard, DispatchGuard, Steps,
         EnsureSteps
  <2>4. Stages' /\ Owing'
    BY <1>1 DEF IInv, TypeOK, ValuesOK, MakeRoom, RouteGuard, DispatchGuard, Stages,
         Owing, OnGpu
  <2>5. Emptied'
    BY <1>1 DEF IInv, TypeOK, PlacesOK, ValuesOK, MakeRoom, RouteGuard, DispatchGuard,
         Stages, Owing, Emptied, Settled, OnGpu, InFlight
  <2>6. Served'
    BY <1>1 DEF IInv, TypeOK, PlacesOK, ValuesOK, MakeRoom, RouteGuard, DispatchGuard,
         Stages, Served, Woken, Waiting, ServedPending
  <2>7. Unhurt'
    <3>1. UNCHANGED <<lock, mode, step, seen, handoff>> /\ rendering' \subseteq rendering
      BY <1>1 DEF MakeRoom, RouteGuard, DispatchGuard
    <3>2. \A p0 \in Images : pc'[p0] = "transit" => pc[p0] = "transit"
      BY <1>1 DEF MakeRoom, RouteGuard, DispatchGuard, IInv, TypeOK, PlacesOK
    <3> QED BY <3>1, <3>2, UnhurtStays DEF IInv
  <2> QED BY <2>1, <2>2, <2>3, <2>4, <2>5, <2>6, <2>7 DEF IInv, TypeOK
<1>2. ASSUME NEW c \in Chats, WaitOver(c) PROVE IInv'
  <2>1. TypeOK'
    BY <1>2 DEF IInv, TypeOK, FlagsOK, PlacesOK, ValuesOK, WaitOver, RouteGuard,
         DispatchGuard, ChatPcs, ImagePcs, Steps, EnsureSteps
  <2>2. Stages' /\ Owing'
    BY <1>2 DEF IInv, TypeOK, ValuesOK, WaitOver, RouteGuard, DispatchGuard, Stages,
         Owing, OnGpu
  <2>3. Emptied'
    BY <1>2 DEF IInv, TypeOK, PlacesOK, ValuesOK, WaitOver, RouteGuard, DispatchGuard,
         Stages, Owing, Emptied, Settled, OnGpu, InFlight
  <2>4. Served'
    BY <1>2 DEF IInv, TypeOK, PlacesOK, ValuesOK, WaitOver, RouteGuard, DispatchGuard,
         Stages, Served, Woken, Waiting, ServedPending
  <2>5. Unhurt'
    <3>1. UNCHANGED <<lock, mode, step, seen, handoff>> /\ rendering' \subseteq rendering
      BY <1>2 DEF WaitOver, RouteGuard, DispatchGuard
    <3>2. \A p0 \in Images : pc'[p0] = "transit" => pc[p0] = "transit"
      BY <1>2 DEF WaitOver, RouteGuard, DispatchGuard, IInv, TypeOK, PlacesOK
    <3> QED BY <3>1, <3>2, UnhurtStays DEF IInv
  <2> QED BY <2>1, <2>2, <2>3, <2>4, <2>5 DEF IInv
<1>3. ASSUME NEW c \in Chats, ChatLeaves(c) PROVE IInv'
  <2>1. TypeOK'
    BY <1>3 DEF IInv, TypeOK, FlagsOK, PlacesOK, ValuesOK, ChatLeaves, ChatPcs,
         ImagePcs, Steps, EnsureSteps
  <2>2. Stages' /\ Owing'
    BY <1>3 DEF IInv, TypeOK, ValuesOK, ChatLeaves, Stages, Owing, OnGpu
  <2>3. Emptied'
    BY <1>3 DEF IInv, TypeOK, PlacesOK, ValuesOK, ChatLeaves, Stages, Owing, Emptied,
         Settled, OnGpu, InFlight
  <2>4. Served'
    BY <1>3 DEF IInv, TypeOK, PlacesOK, ValuesOK, ChatLeaves, Stages, Served, Woken,
         Waiting, ServedPending
  <2>5. Unhurt'
    BY <1>3 DEF IInv, TypeOK, PlacesOK, ValuesOK, ChatLeaves, Stages, Unhurt, JobsOpen
  <2> QED BY <2>1, <2>2, <2>3, <2>4, <2>5 DEF IInv
<1>4. ASSUME NEW c \in Chats, ChatLoads(c) PROVE IInv'
  <2>1. TypeOK'
    BY <1>4 DEF IInv, TypeOK, FlagsOK, PlacesOK, ValuesOK, ChatLoads, ChatPcs, ImagePcs,
         Steps, EnsureSteps
  <2>2. Stages' /\ Owing'
    BY <1>4 DEF IInv, TypeOK, ValuesOK, ChatLoads, Stages, Owing, OnGpu
  <2>3. Emptied'
    BY <1>4 DEF IInv, TypeOK, PlacesOK, ValuesOK, ChatLoads, Stages, Owing, Emptied,
         Settled, OnGpu, InFlight
  <2>4. Served'
    BY <1>4 DEF IInv, TypeOK, PlacesOK, ValuesOK, ChatLoads, Stages, Served, Woken,
         Waiting, ServedPending
  <2>5. Unhurt'
    <3>1. UNCHANGED <<lock, mode, step, seen, handoff>> /\ rendering' \subseteq rendering
      BY <1>4 DEF ChatLoads
    <3>2. \A p0 \in Images : pc'[p0] = "transit" => pc[p0] = "transit"
      BY <1>4 DEF ChatLoads, IInv, TypeOK, PlacesOK
    <3> QED BY <3>1, <3>2, UnhurtStays DEF IInv
  <2> QED BY <2>1, <2>2, <2>3, <2>4, <2>5 DEF IInv
<1>5. ASSUME NEW c \in Chats, ChatLoaded(c) PROVE IInv'
  <2>1. TypeOK'
    BY <1>5 DEF IInv, TypeOK, FlagsOK, PlacesOK, ValuesOK, ChatLoaded, ChatPcs,
         ImagePcs, Steps, EnsureSteps
  <2>2. Stages' /\ Owing'
    BY <1>5 DEF IInv, TypeOK, ValuesOK, ChatLoaded, Stages, Owing, OnGpu
  <2>3. Emptied'
    <3>1. UNCHANGED <<mode, saved, todo, step, now, slot, hurried, healing>>
      BY <1>5 DEF ChatLoaded
    <3>2. \A b \in Chats : pc'[b] = "toload_route" => pc[b] = "toload_route"
      BY <1>5 DEF ChatLoaded, IInv, TypeOK, PlacesOK
    <3>3. \A b \in Chats : pc'[b] = "serving" => pc[b] \in {"serving", "loading"}
      <4>1. \A b \in Chats : b # c => pc'[b] = pc[b]
        BY <1>5 DEF ChatLoaded, IInv, TypeOK, PlacesOK
      <4>2. CASE pc[c] = "loading_route"
        BY <1>5, <4>1, <4>2 DEF ChatLoaded, IInv, TypeOK, PlacesOK
      <4>3. CASE pc[c] = "loading"
        BY <4>1, <4>3
      <4> QED BY <1>5, <4>2, <4>3 DEF ChatLoaded
    <3>4. \A b \in Chats : pc'[b] \in {"ticket", "toload", "loading"} => pc[b] = pc'[b]
      BY <1>5 DEF ChatLoaded, IInv, TypeOK, PlacesOK
    <3>5. \A t \in Slots : InFlight(t) = {} => InFlight(t)' = {}
      BY <3>3, <3>4 DEF InFlight
    <3>6. \A t \in Slots : Settled(t) => Settled(t)'
      BY <3>1, <3>2 DEF Settled, OnGpu
    <3> QED BY <3>1, <3>2, <3>5, <3>6 DEF IInv, TypeOK, ValuesOK, Emptied
  <2>4. Served'
    BY <1>5 DEF IInv, TypeOK, PlacesOK, ValuesOK, ChatLoaded, Stages, Served, Woken,
         Waiting, ServedPending
  <2>5. Unhurt'
    BY <1>5 DEF IInv, TypeOK, PlacesOK, ValuesOK, ChatLoaded, Stages, Unhurt, JobsOpen
  <2> QED BY <2>1, <2>2, <2>3, <2>4, <2>5 DEF IInv
<1>6. ASSUME NEW c \in Chats, ChatDispatches(c) PROVE IInv'
  <2>1. TypeOK'
    BY <1>6 DEF IInv, TypeOK, FlagsOK, PlacesOK, ValuesOK, ChatDispatches, ChatPcs,
         ImagePcs, Steps, EnsureSteps
  <2>2. Stages' /\ Owing'
    BY <1>6 DEF IInv, TypeOK, ValuesOK, ChatDispatches, Stages, Owing, OnGpu
  <2>3. Emptied'
    BY <1>6 DEF IInv, TypeOK, PlacesOK, ValuesOK, ChatDispatches, Stages, Owing,
         Emptied, Settled, OnGpu, InFlight
  <2>4. Served'
    BY <1>6 DEF IInv, TypeOK, PlacesOK, ValuesOK, ChatDispatches, Stages, Served, Woken,
         Waiting, ServedPending
  <2>5. Unhurt'
    BY <1>6 DEF IInv, TypeOK, PlacesOK, ValuesOK, ChatDispatches, Stages, Unhurt,
         JobsOpen
  <2> QED BY <2>1, <2>2, <2>3, <2>4, <2>5 DEF IInv
<1>7. ASSUME NEW c \in Chats, ChatServed(c) PROVE IInv'
  <2>1. TypeOK'
    BY <1>7 DEF IInv, TypeOK, FlagsOK, PlacesOK, ValuesOK, ChatServed, ChatPcs,
         ImagePcs, Steps, EnsureSteps
  <2>2. Stages' /\ Owing'
    BY <1>7 DEF IInv, TypeOK, ValuesOK, ChatServed, Stages, Owing, OnGpu
  <2>3. Emptied'
    BY <1>7 DEF IInv, TypeOK, PlacesOK, ValuesOK, ChatServed, Stages, Owing, Emptied,
         Settled, OnGpu, InFlight
  <2>4. Served'
    BY <1>7 DEF IInv, TypeOK, PlacesOK, ValuesOK, ChatServed, Stages, Served, Woken,
         Waiting, ServedPending
  <2>5. Unhurt'
    BY <1>7 DEF IInv, TypeOK, PlacesOK, ValuesOK, ChatServed, Stages, Unhurt, JobsOpen
  <2> QED BY <2>1, <2>2, <2>3, <2>4, <2>5 DEF IInv
<1>8. ASSUME NEW c \in Chats, LeaseExpires(c) PROVE IInv'
  <2>1. TypeOK'
    BY <1>8 DEF IInv, TypeOK, FlagsOK, PlacesOK, ValuesOK, LeaseExpires, Fault, ChatPcs,
         ImagePcs, Steps, EnsureSteps
  <2>2. Stages' /\ Owing'
    BY <1>8 DEF IInv, TypeOK, ValuesOK, LeaseExpires, Fault, Stages, Owing, OnGpu
  <2>3. Emptied'
    BY <1>8 DEF IInv, TypeOK, PlacesOK, ValuesOK, LeaseExpires, Fault, Stages, Owing,
         Emptied, Settled, OnGpu, InFlight
  <2>4. Served'
    BY <1>8 DEF IInv, TypeOK, PlacesOK, ValuesOK, LeaseExpires, Fault, Stages, Served,
         Woken, Waiting, ServedPending
  <2>5. Unhurt'
    BY <1>8 DEF IInv, TypeOK, PlacesOK, ValuesOK, LeaseExpires, Fault, Stages, Unhurt,
         JobsOpen
  <2> QED BY <2>1, <2>2, <2>3, <2>4, <2>5 DEF IInv
<1> QED BY <1>1, <1>2, <1>3, <1>4, <1>5, <1>6, <1>7, <1>8 DEF ChatWork

\* The operator.
LEMMA OperatorKeeps == ASSUME IInv, Operator PROVE IInv'
<1>1. ASSUME NEW o \in Ops, SwitchoverAsks(o) PROVE IInv'
  <2>1. TypeOK'
    BY <1>1 DEF IInv, TypeOK, FlagsOK, PlacesOK, ValuesOK, SwitchoverAsks, ChatPcs,
         ImagePcs, Steps, EnsureSteps
  <2>2. Stages' /\ Owing'
    BY <1>1 DEF IInv, TypeOK, ValuesOK, SwitchoverAsks, Stages, Owing, OnGpu
  <2>3. Emptied'
    BY <1>1 DEF IInv, TypeOK, PlacesOK, ValuesOK, SwitchoverAsks, Stages, Owing,
         Emptied, Settled, OnGpu, InFlight
  <2>4. Served'
    BY <1>1 DEF IInv, TypeOK, PlacesOK, ValuesOK, SwitchoverAsks, Stages, Served, Woken,
         Waiting, ServedPending
  <2>5. Unhurt'
    BY <1>1 DEF IInv, TypeOK, PlacesOK, ValuesOK, SwitchoverAsks, Stages, Unhurt,
         JobsOpen
  <2> QED BY <2>1, <2>2, <2>3, <2>4, <2>5 DEF IInv
<1>2. ASSUME NEW o \in Ops, SwitchoverReads(o) PROVE IInv'
  <2>1. FlagsOK'
    BY <1>2 DEF IInv, TypeOK, FlagsOK, SwitchoverReads
  <2>2. PlacesOK'
    BY <1>2 DEF IInv, TypeOK, PlacesOK, SwitchoverReads, ChatPcs, ImagePcs
  <2>3. ValuesOK'
    BY <1>2 DEF IInv, TypeOK, ValuesOK, SwitchoverReads, Steps, EnsureSteps
  <2>4. Stages' /\ Owing'
    BY <1>2 DEF IInv, TypeOK, ValuesOK, SwitchoverReads, Stages, Owing, OnGpu
  <2>5. Emptied'
    BY <1>2 DEF IInv, TypeOK, PlacesOK, ValuesOK, SwitchoverReads, Stages, Owing,
         Emptied, Settled, OnGpu, InFlight
  <2>6. Served'
    BY <1>2 DEF IInv, TypeOK, PlacesOK, ValuesOK, SwitchoverReads, Stages, Served,
         Woken, Waiting, ServedPending
  <2>7. Unhurt'
    <3>1. UNCHANGED <<lock, mode, step, seen, handoff>> /\ rendering' \subseteq rendering
      BY <1>2 DEF SwitchoverReads
    <3>2. \A p0 \in Images : pc'[p0] = "transit" => pc[p0] = "transit"
      BY <1>2 DEF SwitchoverReads, IInv, TypeOK, PlacesOK
    <3> QED BY <3>1, <3>2, UnhurtStays DEF IInv
  <2> QED BY <2>1, <2>2, <2>3, <2>4, <2>5, <2>6, <2>7 DEF IInv, TypeOK
<1>3. ASSUME NEW on \in BOOLEAN, SetPin(on) PROVE IInv'
  <2>1. TypeOK'
    BY <1>3 DEF IInv, TypeOK, FlagsOK, PlacesOK, ValuesOK, SetPin, ChatPcs, ImagePcs,
         Steps, EnsureSteps
  <2>2. Stages' /\ Owing'
    BY <1>3 DEF IInv, TypeOK, ValuesOK, SetPin, Stages, Owing, OnGpu
  <2>3. Emptied'
    BY <1>3 DEF IInv, TypeOK, PlacesOK, ValuesOK, SetPin, Stages, Owing, Emptied,
         Settled, OnGpu, InFlight
  <2>4. Served'
    BY <1>3 DEF IInv, TypeOK, PlacesOK, ValuesOK, SetPin, Stages, Served, Woken,
         Waiting, ServedPending
  <2>5. Unhurt'
    BY <1>3 DEF IInv, TypeOK, PlacesOK, ValuesOK, SetPin, Stages, Unhurt, JobsOpen
  <2> QED BY <2>1, <2>2, <2>3, <2>4, <2>5 DEF IInv
<1> QED BY <1>1, <1>2, <1>3 DEF Operator

\* Slots, engine and clocks.
LEMMA WorldKeeps == ASSUME IInv, World PROVE IInv'
<1>1. ASSUME NEW s \in Slots, LoadEnds(s) PROVE IInv'
  <2>1. TypeOK'
    BY <1>1 DEF IInv, TypeOK, FlagsOK, PlacesOK, ValuesOK, LoadEnds, Fault, ChatPcs,
         ImagePcs, Steps, EnsureSteps
  <2>2. Stages' /\ Owing'
    BY <1>1 DEF IInv, TypeOK, ValuesOK, LoadEnds, Fault, Stages, Owing, OnGpu
  <2>3. Emptied'
    BY <1>1 DEF IInv, TypeOK, PlacesOK, ValuesOK, LoadEnds, Fault, Stages, Owing,
         Emptied, Settled, OnGpu, InFlight
  <2>4. Served'
    BY <1>1 DEF IInv, TypeOK, PlacesOK, ValuesOK, LoadEnds, Fault, Stages, Served,
         Woken, Waiting, ServedPending
  <2>5. Unhurt'
    BY <1>1 DEF IInv, TypeOK, PlacesOK, ValuesOK, LoadEnds, Fault, Stages, Unhurt,
         JobsOpen
  <2> QED BY <2>1, <2>2, <2>3, <2>4, <2>5 DEF IInv
<1>2. ASSUME NEW s \in Slots, StopEnds(s) PROVE IInv'
  <2>1. TypeOK'
    BY <1>2 DEF IInv, TypeOK, FlagsOK, PlacesOK, ValuesOK, StopEnds, ChatPcs, ImagePcs,
         Steps, EnsureSteps
  <2>2. Stages' /\ Owing'
    BY <1>2 DEF IInv, TypeOK, ValuesOK, StopEnds, Stages, Owing, OnGpu
  <2>3. Emptied'
    BY <1>2 DEF IInv, TypeOK, PlacesOK, ValuesOK, StopEnds, Stages, Owing, Emptied,
         Settled, OnGpu, InFlight
  <2>4. Served'
    BY <1>2 DEF IInv, TypeOK, PlacesOK, ValuesOK, StopEnds, Stages, Served, Woken,
         Waiting, ServedPending
  <2>5. Unhurt'
    BY <1>2 DEF IInv, TypeOK, PlacesOK, ValuesOK, StopEnds, Stages, Unhurt, JobsOpen
  <2> QED BY <2>1, <2>2, <2>3, <2>4, <2>5 DEF IInv
<1>3. ASSUME EngineWarms PROVE IInv'
  <2>1. TypeOK'
    BY <1>3 DEF IInv, TypeOK, FlagsOK, PlacesOK, ValuesOK, EngineWarms, ChatPcs,
         ImagePcs, Steps, EnsureSteps
  <2>2. Stages' /\ Owing'
    BY <1>3 DEF IInv, TypeOK, ValuesOK, EngineWarms, Stages, Owing, OnGpu
  <2>3. Emptied'
    BY <1>3 DEF IInv, TypeOK, PlacesOK, ValuesOK, EngineWarms, Stages, Owing, Emptied,
         Settled, OnGpu, InFlight
  <2>4. Served'
    BY <1>3 DEF IInv, TypeOK, PlacesOK, ValuesOK, EngineWarms, Stages, Served, Woken,
         Waiting, ServedPending
  <2>5. Unhurt'
    BY <1>3 DEF IInv, TypeOK, PlacesOK, ValuesOK, EngineWarms, Stages, Unhurt, JobsOpen
  <2> QED BY <2>1, <2>2, <2>3, <2>4, <2>5 DEF IInv
<1>4. ASSUME EngineCrashes PROVE IInv'
  <2>1. TypeOK'
    BY <1>4 DEF IInv, TypeOK, FlagsOK, PlacesOK, ValuesOK, EngineCrashes, Fault,
         ChatPcs, ImagePcs, Steps, EnsureSteps
  <2>2. Stages' /\ Owing'
    BY <1>4 DEF IInv, TypeOK, ValuesOK, EngineCrashes, Fault, Stages, Owing, OnGpu
  <2>3. Emptied'
    BY <1>4 DEF IInv, TypeOK, PlacesOK, ValuesOK, EngineCrashes, Fault, Stages, Owing,
         Emptied, Settled, OnGpu, InFlight
  <2>4. Served'
    BY <1>4 DEF IInv, TypeOK, PlacesOK, ValuesOK, EngineCrashes, Fault, Stages, Served,
         Woken, Waiting, ServedPending
  <2>5. Unhurt'
    BY <1>4 DEF IInv, TypeOK, PlacesOK, ValuesOK, EngineCrashes, Fault, Stages, Unhurt,
         JobsOpen
  <2> QED BY <2>1, <2>2, <2>3, <2>4, <2>5 DEF IInv
<1>5. ASSUME GracePasses PROVE IInv'
  <2>1. TypeOK'
    BY <1>5 DEF IInv, TypeOK, FlagsOK, PlacesOK, ValuesOK, GracePasses, ChatPcs,
         ImagePcs, Steps, EnsureSteps
  <2>2. Stages' /\ Owing'
    BY <1>5 DEF IInv, TypeOK, ValuesOK, GracePasses, Stages, Owing, OnGpu
  <2>3. Emptied'
    BY <1>5 DEF IInv, TypeOK, PlacesOK, ValuesOK, GracePasses, Stages, Owing, Emptied,
         Settled, OnGpu, InFlight
  <2>4. Served'
    BY <1>5 DEF IInv, TypeOK, PlacesOK, ValuesOK, GracePasses, Stages, Served, Woken,
         Waiting, ServedPending
  <2>5. Unhurt'
    BY <1>5 DEF IInv, TypeOK, PlacesOK, ValuesOK, GracePasses, Stages, Unhurt, JobsOpen
  <2> QED BY <2>1, <2>2, <2>3, <2>4, <2>5 DEF IInv
<1>6. ASSUME HandoffExpires PROVE IInv'
  <2>1. FlagsOK'
    BY <1>6 DEF IInv, TypeOK, FlagsOK, HandoffExpires
  <2>2. PlacesOK'
    BY <1>6 DEF IInv, TypeOK, PlacesOK, HandoffExpires, ChatPcs, ImagePcs
  <2>3. ValuesOK'
    BY <1>6 DEF IInv, TypeOK, ValuesOK, HandoffExpires, Steps, EnsureSteps
  <2>4. Stages' /\ Owing'
    BY <1>6 DEF IInv, TypeOK, ValuesOK, HandoffExpires, Stages, Owing, OnGpu
  <2>5. Emptied'
    BY <1>6 DEF IInv, TypeOK, PlacesOK, ValuesOK, HandoffExpires, Stages, Owing,
         Emptied, Settled, OnGpu, InFlight
  <2>6. Served'
    BY <1>6 DEF IInv, TypeOK, PlacesOK, ValuesOK, HandoffExpires, Stages, Served, Woken,
         Waiting, ServedPending
  <2>7. Unhurt'
    BY <1>6 DEF IInv, TypeOK, PlacesOK, ValuesOK, HandoffExpires, Stages, Unhurt,
         JobsOpen
  <2> QED BY <2>1, <2>2, <2>3, <2>4, <2>5, <2>6, <2>7 DEF IInv, TypeOK
<1> QED BY <1>1, <1>2, <1>3, <1>4, <1>5, <1>6 DEF World

\* A restart of the API process: the operation that held the lock is cut short.
LEMMA RestartKeeps == ASSUME IInv, Restart PROVE IInv'
<1>1. Restart
  OBVIOUS
<1>2. IInv'
  <2>1. FlagsOK'
    BY <1>1 DEF IInv, TypeOK, FlagsOK, Restart
  <2>2. PlacesOK'
    BY <1>1 DEF IInv, TypeOK, PlacesOK, Restart, ChatPcs, ImagePcs
  <2>3. ValuesOK'
    BY <1>1 DEF IInv, TypeOK, ValuesOK, Restart, Steps, EnsureSteps
  <2>4. Stages'
    BY <1>1 DEF IInv, TypeOK, ValuesOK, Restart, Stages
  <2>5. Owing'
    BY <1>1 DEF IInv, TypeOK, ValuesOK, Restart, Stages, Owing, OnGpu
  <2>6. Emptied'
    <3>1. step' = "idle" /\ healing' = (mode = "img") /\ mode' = mode /\ saved' = saved
      BY DEF Restart
    <3>2. \A c \in Chats : c \in DOMAIN pc /\ c \notin Prompts
      BY DEF IInv, TypeOK, PlacesOK
    <3>3. \A c \in Chats : pc'[c] \in {"new", "done", "refused"}
      BY <3>2 DEF Restart
    <3>4. \A t \in Slots : InFlight(t)' = {}
      BY <3>3 DEF InFlight
    <3> QED BY <3>1, <3>3, <3>4 DEF IInv, TypeOK, ValuesOK, Emptied
  <2>7. Served'
    BY <1>1 DEF IInv, TypeOK, PlacesOK, ValuesOK, Restart, Stages, Served, Woken,
         Waiting, ServedPending
  <2>8. Unhurt'
    BY <1>1 DEF IInv, TypeOK, PlacesOK, ValuesOK, Restart, Stages, Unhurt, JobsOpen
  <2> QED BY <2>1, <2>2, <2>3, <2>4, <2>5, <2>6, <2>7, <2>8 DEF IInv, TypeOK
<1> QED BY <1>2

\* The arbiter starts in LLM mode with nothing taken, drained or owed.
LEMMA InitOK == ASSUME Init PROVE IInv
<1>1. FlagsOK /\ PlacesOK /\ ValuesOK
  <2>1. FlagsOK
    BY DEF Init, FlagsOK
  <2>2. PlacesOK
    BY DEF Init, PlacesOK, ChatPcs, ImagePcs
  <2>3. ValuesOK
    BY DEF Init, ValuesOK, Steps
  <2> QED BY <2>1, <2>2, <2>3
<1>2. Stages /\ Owing /\ Emptied /\ Unhurt
  BY DEF Init, Stages, Owing, Emptied, Unhurt
<1>3. Served
  BY DEF Init, Served
<1> QED BY <1>1, <1>2, <1>3 DEF IInv, TypeOK

\* IInv is preserved by every step, and by stuttering.
LEMMA NextKeeps == ASSUME IInv, [Next]_vars PROVE IInv'
<1>1. CASE Next
  BY <1>1, EnsureKeeps, ReloadKeeps, RestoreKeeps, ImageWorkKeeps, ChatWorkKeeps,
     OperatorKeeps, WorldKeeps, RestartKeeps DEF Next
<1>2. CASE UNCHANGED vars
  <2>1. TypeOK'
    BY <1>2 DEF vars, IInv, TypeOK, FlagsOK, PlacesOK, ValuesOK
  <2>2. Stages' /\ Owing' /\ Served' /\ Unhurt'
    BY <1>2 DEF vars, IInv, Stages, Owing, Served, Woken, Unhurt
  <2>3. Emptied'
    BY <1>2 DEF vars, IInv, Emptied, Settled, OnGpu, InFlight
  <2> QED BY <2>1, <2>2, <2>3 DEF IInv
<1> QED BY <1>1, <1>2

\* IInv holds in every state the arbiter can reach.
THEOREM Inductive == Spec => []IInv
<1> QED BY InitOK, NextKeeps, PTL DEF Spec

-----------------------------------------------------------------------------
(* What follows *)

\* Between switches image mode never stands with a slot of its saved set on the
\* GPU, whatever unload, load or rollback of ensure_img failed (#3059), and the
\* variables keep their types.
THEOREM SavedSetOff == Spec => []Safety
<1>1. ASSUME IInv PROVE Safety
  <2>1. SavedOff
    BY <1>1 DEF IInv, TypeOK, ValuesOK, Emptied, Settled, SavedOff
  <2> QED BY <1>1, <2>1 DEF IInv, Safety
<1> QED BY <1>1, Inductive, PTL

\* When an automatic restore posts /free, no render runs and no announced
\* prompt is on its way (_restore_decision reads the queue, then looks again).
THEOREM NoRenderCut == Spec => []RenderNotCut
<1>1. ASSUME IInv PROVE RenderNotCut
  BY <1>1 DEF IInv, Unhurt, RenderNotCut
<1> QED BY <1>1, Inductive, PTL

\* guard_dispatch refuses in image mode only.
LEMMA RefusedInImageMode ==
    ASSUME IInv, [Next]_vars, NEW c \in Chats, pc[c] # "refused", pc'[c] = "refused"
    PROVE  mode = "img"
<1> USE DEF IInv, TypeOK, PlacesOK
<1>1. ASSUME ChatWork PROVE mode = "img"
  <2>1. PICK b \in Chats : \/ MakeRoom(b) \/ WaitOver(b) \/ ChatLeaves(b) \/ ChatLoads(b)
                           \/ ChatLoaded(b) \/ ChatDispatches(b) \/ ChatServed(b)
                           \/ LeaseExpires(b)
    BY <1>1 DEF ChatWork
  <2>2. CASE MakeRoom(b) \/ WaitOver(b)
    BY <2>2 DEF MakeRoom, WaitOver, RouteGuard, DispatchGuard
  <2>3. CASE ChatLeaves(b) \/ ChatLoads(b) \/ ChatLoaded(b)
    BY <2>3 DEF ChatLeaves, ChatLoads, ChatLoaded
  <2>4. CASE ChatDispatches(b) \/ ChatServed(b) \/ LeaseExpires(b)
    BY <2>4 DEF ChatDispatches, ChatServed, LeaseExpires
  <2> QED BY <2>1, <2>2, <2>3, <2>4
<1>2. ASSUME Ensure PROVE FALSE
  <2>1. ASSUME NEW ok \in BOOLEAN, EnsureEnds(ok), lock # Nobody PROVE FALSE
    BY <2>1 DEF EnsureEnds, ValuesOK
  <2>2. CASE SwitchRefused \/ EngineUp \/ EngineReady \/ RollbackEnds
    BY <2>1, <2>2 DEF SwitchRefused, EngineUp, EngineReady, RollbackEnds, ValuesOK
  <2>3. CASE ~(SwitchRefused \/ EngineUp \/ EngineReady \/ RollbackEnds)
    BY <1>2, <2>3 DEF Ensure, EnsureBegins, EnsureEnter, LeasesOver, Snapshot, DrainOver,
         LoadsOver, UnloadStarts, UnloadEnds, UnloadNothing, UnloadFails, UnloadsOver,
         EngineStarts, EngineFails
  <2> QED BY <2>2, <2>3
<1>3. ASSUME Restore PROVE FALSE
  <2>1. ASSUME Settles PROVE FALSE
    BY <2>1 DEF Settles
  <2>2. ASSUME NEW over \in BOOLEAN, RestoreLeaves(over) PROVE FALSE
    BY <2>1, <2>2, Leaving
  <2>3. CASE DemandStandsDown
    <3>1. Wakes
      BY <2>3, WakeWaitersWakes DEF DemandStandsDown
    <3> QED BY <2>1, <3>1 DEF Wakes, Settles
  <2>4. CASE QueueBusy \/ RecheckRefuses \/ RestoreEnds
    BY <2>2, <2>4 DEF QueueBusy, RecheckRefuses, RestoreEnds
  <2>5. CASE \E o \in Ops : RestoreLlm(o)
    BY <2>5 DEF RestoreLlm
  <2>6. CASE \E p \in Restorers : RestoreAsks(p)
    BY <2>6 DEF RestoreAsks
  <2>7. CASE QueueAnswers \/ RecheckPasses \/ FreeModels \/ TickStartsClock
    BY <2>7 DEF QueueAnswers, RecheckPasses, FreeModels, TickStartsClock
  <2> QED BY <1>3, <2>3, <2>4, <2>5, <2>6, <2>7 DEF Restore
<1>4. ASSUME ImageWork PROVE FALSE
  BY <1>4 DEF ImageWork, JobOpens, PromptComes, GateReads, GateHolds, GateAsks, GateRefuses,
       PromptArrives, RenderEnds, Closes
<1>5. ASSUME Restart PROVE FALSE
  <2>1. c \in DOMAIN pc /\ c \notin Prompts
    OBVIOUS
  <2> QED BY <1>5, <2>1 DEF Restart
<1>6. ASSUME Reload \/ Operator \/ World PROVE FALSE
  BY <1>6 DEF Reload, ReloadNothing, ReloadStarts, ReloadEnds, Operator, SwitchoverAsks,
       SwitchoverReads, SetPin, World, LoadEnds, StopEnds, EngineWarms, EngineCrashes,
       GracePasses, HandoffExpires
<1>7. CASE UNCHANGED vars
  BY <1>7 DEF vars
<1> QED BY <1>1, <1>2, <1>3, <1>4, <1>5, <1>6, <1>7 DEF Next

\* A request that a demand restore woke is never refused by a switch queued
\* behind that restore: the switch waits for it in the lease loop.
THEOREM ServedFirst == Spec => ServedNotRefused
<1>1. ASSUME IInv, [Next]_vars
      PROVE  [\A c \in Chats : pc[c] # "refused" /\ pc'[c] = "refused" => c \notin promised]_vars
  BY <1>1, RefusedInImageMode DEF IInv, Served
<1> QED BY <1>1, Inductive, PTL DEF Spec, ServedNotRefused

\* Only _unload_for_img stops a slot.
LEMMA OnlyUnloadStops ==
    ASSUME IInv, [Next]_vars, NEW s \in Slots, slot[s] # "stop", slot'[s] = "stop"
    PROVE  UnloadStarts(s)
<1> USE DEF IInv, TypeOK, ValuesOK
<1>1. CASE Ensure
  <2>1. ASSUME NEW t \in Slots, UnloadStarts(t) PROVE t = s
    BY <2>1 DEF UnloadStarts
  <2>2. ASSUME NEW t \in Slots, UnloadEnds(t) \/ UnloadNothing(t) \/ UnloadFails(t) PROVE FALSE
    BY <2>2 DEF UnloadEnds, UnloadNothing, UnloadFails
  <2>3. ASSUME EnsureBegins \/ LeasesOver \/ SwitchRefused \/ Snapshot \/ DrainOver \/ LoadsOver
        PROVE FALSE
    BY <2>3 DEF EnsureBegins, EnsureEnter, LeasesOver, SwitchRefused, Snapshot, DrainOver, LoadsOver
  <2>4. ASSUME \/ UnloadsOver \/ EngineUp \/ EngineStarts \/ EngineReady \/ EngineFails
               \/ RollbackEnds
        PROVE  FALSE
    BY <2>4 DEF UnloadsOver, EngineUp, EngineStarts, EngineReady, EngineFails, RollbackEnds
  <2> QED BY <1>1, <2>1, <2>2, <2>3, <2>4 DEF Ensure
<1>2. ASSUME Restore PROVE FALSE
  BY <1>2 DEF Restore, RestoreAsks, QueueAnswers, QueueBusy, RecheckRefuses, RecheckPasses,
       RestoreLlm, FreeModels, RestoreEnds, TickStartsClock, DemandStandsDown
<1>3. ASSUME ImageWork PROVE FALSE
  BY <1>3 DEF ImageWork, JobOpens, PromptComes, GateReads, GateHolds, GateAsks, GateRefuses,
       PromptArrives, RenderEnds, Closes
<1>4. ASSUME ChatWork PROVE FALSE
  BY <1>4 DEF ChatWork, MakeRoom, WaitOver, ChatLeaves, ChatLoads, ChatLoaded, ChatDispatches,
       ChatServed, LeaseExpires
<1>5. ASSUME Reload \/ Operator PROVE FALSE
  BY <1>5 DEF Reload, ReloadNothing, ReloadStarts, ReloadEnds, Operator, SwitchoverAsks,
       SwitchoverReads, SetPin
<1>6. ASSUME World \/ Restart PROVE FALSE
  BY <1>6 DEF World, LoadEnds, StopEnds, EngineWarms, EngineCrashes, GracePasses,
       HandoffExpires, Restart
<1>7. ASSUME UNCHANGED vars PROVE FALSE
  BY <1>7 DEF vars
<1> QED BY <1>1, <1>2, <1>3, <1>4, <1>5, <1>6, <1>7 DEF Next

\* The switch stops no slot that a request holds a ticket on, is loading or is
\* served by, unless the drain gave up at its bound.
THEOREM DrainedBeforeUnload == Spec => NoUnloadUnderRequest
<1>1. ASSUME IInv, [Next]_vars
      PROVE  [\A s \in Slots : slot[s] # "stop" /\ slot'[s] = "stop" /\ ~hurried
                                   => InFlight(s) = {}]_vars
  BY <1>1, OnlyUnloadStops DEF IInv, Stages, Emptied, UnloadStarts
<1> QED BY <1>1, Inductive, PTL DEF Spec, NoUnloadUnderRequest

-----------------------------------------------------------------------------
(* The arbiter keeps the promise of GpuExclusion *)

\* A step that leaves the mode, the saved set and what is owed alone stutters.
LEMMA Stutter == ASSUME UNCHANGED <<mode, saved, owed>> PROVE UNCHANGED Promise!vars
  BY DEF Promise!vars

\* Every step of the arbiter enters image mode, takes promised slots, hands slots
\* back to a load, leaves image mode with nothing owed, or stutters.
LEMMA StepsRefine == ASSUME IInv, [Next]_vars PROVE [Promise!Next]_(Promise!vars)
<1> USE DEF IInv, TypeOK
<1>1. CASE Ensure
  <2>1. CASE Snapshot
    <3>1. Promise!Enter
      BY <2>1 DEF Snapshot, Promise!Enter, Stages, Owing, ValuesOK
    <3> QED BY <3>1 DEF Promise!Next
  <2>2. ASSUME NEW s \in Slots, UnloadEnds(s) PROVE Promise!Take
    BY <2>2 DEF UnloadEnds, Promise!Take, Stages, Owing, ValuesOK
  <2>3. CASE RollbackEnds
    <3>1. Promise!Leave
      BY <2>3 DEF RollbackEnds, LlmMode, Promise!Leave, Stages, Owing
    <3> QED BY <3>1 DEF Promise!Next
  <2>4. ASSUME EnsureBegins \/ LeasesOver \/ SwitchRefused \/ DrainOver \/ LoadsOver
        PROVE  UNCHANGED <<mode, saved, owed>>
    BY <2>4 DEF EnsureBegins, EnsureEnter, LeasesOver, SwitchRefused, DrainOver, LoadsOver
  <2>5. ASSUME NEW s \in Slots, UnloadStarts(s) \/ UnloadNothing(s) \/ UnloadFails(s)
        PROVE  UNCHANGED <<mode, saved, owed>>
    BY <2>5 DEF UnloadStarts, UnloadNothing, UnloadFails
  <2>6. ASSUME UnloadsOver \/ EngineUp \/ EngineStarts \/ EngineReady \/ EngineFails
        PROVE  UNCHANGED <<mode, saved, owed>>
    BY <2>6 DEF UnloadsOver, EngineUp, EngineStarts, EngineReady, EngineFails
  <2> QED BY <1>1, <2>1, <2>2, <2>3, <2>4, <2>5, <2>6, Stutter DEF Ensure, Promise!Next
<1>2. CASE Reload
  <2>1. PICK s \in Slots : ReloadNothing(s) \/ ReloadStarts(s) \/ ReloadEnds(s)
    BY <1>2 DEF Reload
  <2>2. Promise!GiveBack
    BY <2>1 DEF ReloadNothing, ReloadStarts, ReloadEnds, Promise!GiveBack
  <2> QED BY <2>2 DEF Promise!Next
<1>3. CASE Restore
  <2>1. CASE RestoreEnds
    <3>1. Promise!Leave
      BY <2>1 DEF RestoreEnds, LlmMode, Promise!Leave, Stages, Owing
    <3> QED BY <3>1 DEF Promise!Next
  <2>2. CASE Restore /\ ~RestoreEnds
    <3>1. UNCHANGED <<mode, saved, owed>>
      BY <2>2 DEF Restore, RestoreAsks, QueueAnswers, QueueBusy, RecheckRefuses, RecheckPasses,
           RestoreLlm, FreeModels, TickStartsClock, DemandStandsDown
    <3> QED BY <3>1, Stutter
  <2> QED BY <1>3, <2>1, <2>2
<1>4. CASE ImageWork
  <2>1. UNCHANGED <<mode, saved, owed>>
    BY <1>4 DEF ImageWork, JobOpens, PromptComes, GateReads, GateHolds, GateAsks, GateRefuses,
         PromptArrives, RenderEnds
  <2> QED BY <2>1, Stutter
<1>5. CASE ChatWork
  <2>1. Promise!GiveBack
    BY <1>5 DEF ChatWork, MakeRoom, WaitOver, ChatLeaves, ChatLoads, ChatLoaded,
         ChatDispatches, ChatServed, LeaseExpires, Promise!GiveBack
  <2> QED BY <2>1 DEF Promise!Next
<1>6. CASE Operator \/ World
  <2>1. UNCHANGED <<mode, saved, owed>>
    BY <1>6 DEF Operator, SwitchoverAsks, SwitchoverReads, SetPin, World, LoadEnds, StopEnds,
         EngineWarms, EngineCrashes, GracePasses, HandoffExpires
  <2> QED BY <2>1, Stutter
<1>7. CASE Restart
  <2>1. CASE step = "unload" /\ now # Nobody
    <3>1. Promise!Take
      BY <1>7, <2>1 DEF Restart, Promise!Take, Stages, Owing, ValuesOK
    <3> QED BY <3>1 DEF Promise!Next
  <2>2. CASE ~(step = "unload" /\ now # Nobody)
    <3>1. UNCHANGED <<mode, saved, owed>>
      BY <1>7, <2>2 DEF Restart
    <3> QED BY <3>1, Stutter
  <2> QED BY <2>1, <2>2
<1>8. CASE UNCHANGED vars
  BY <1>8, Stutter DEF vars
<1> QED BY <1>1, <1>2, <1>3, <1>4, <1>5, <1>6, <1>7, <1>8 DEF Next

\* The arbiter implements GpuExclusion: a slot leaves the GPU only while it is
\* recorded in the saved set, and LLM mode is recorded again only when a load was
\* tried for every slot taken, across failed unloads, rollbacks and restarts.
THEOREM Refinement == Spec => Exclusion
<1>1. ASSUME Init PROVE Promise!Init
  BY <1>1 DEF Init, Promise!Init
<1> QED BY <1>1, StepsRefine, Inductive, PTL DEF Spec, Exclusion, Promise!Spec
=============================================================================
