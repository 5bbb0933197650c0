----------------------------- MODULE GpuArbiter -----------------------------
(***************************************************************************)
(* The exclusive llm/img GPU switch (slots/arbiter.py), with the requests  *)
(* that drive it: chats (dispatcher/router.py forward, api/routes/v1.py),  *)
(* /v1 image jobs, editor prompts through ComfyUI's gate node              *)
(* (comfyui/assets/hal0_gpu_gate.py), the operator's switchover and pin    *)
(* (api/routes/comfyui.py), the restore loop, LLM demand and the omni tool *)
(* loop's restore.                                                         *)
(*                                                                         *)
(* One asyncio event loop: an action is the code between two awaits.       *)
(* Everything that holds the switch lock runs through `lock`, `step` and   *)
(* `todo`. Waits with a bound (drain, loads, lease, engine readiness) end  *)
(* by their condition or by a fault of that name.                          *)
(***************************************************************************)
EXTENDS Naturals, FiniteSets

CONSTANTS
    Slots,        \* the llm-group GPU container slots
    Cold,         \* those that are OFFLINE when the model starts
    Chats,        \* LLM requests
    RouteChats,   \* the ones whose route loads the slot before dispatching
    Target,       \* the slot each chat is resolved to
    Jobs,         \* /v1/images/generations requests
    Prompts,      \* prompts queued in ComfyUI's editor
    Ops,          \* the operator's switchovers, a subset of OpKinds
    Restorers,    \* automatic restores: "loop", "demand", "omni"
    Faults,       \* what may go wrong, a subset of FaultKinds
    MaxPosts,     \* _SWITCH_MAX_POSTS: switches one prompt may ask for at the gate
    MaxFaults, MaxPins, MaxRestarts,
    Nobody        \* the switch lock is free

OpKinds == {"generation", "generation_pin", "inference", "force"}
FaultKinds == {"unload", "load", "park", "drain", "loadwait", "lease",
               "refused", "imgload", "imgready", "imgcrash", "queue"}

ASSUME ArbiterConstants ==
    /\ Cold \subseteq Slots /\ RouteChats \subseteq Chats
    /\ Target \in [Chats -> Slots]
    /\ Ops \subseteq OpKinds /\ Restorers \subseteq {"loop", "demand", "omni"}
    /\ Faults \subseteq FaultKinds
    /\ MaxPosts \in Nat /\ MaxFaults \in Nat /\ MaxPins \in Nat /\ MaxRestarts \in Nat
    /\ Nobody \notin Slots \cup Jobs \cup Prompts \cup OpKinds \cup {"loop", "demand", "omni"}
    /\ \A c \in Chats : c \notin Jobs \cup Prompts \cup OpKinds
    /\ \A p \in Jobs \cup Prompts : p \notin OpKinds \cup {"loop", "demand", "omni"}

Images == Jobs \cup Prompts
Procs == Images \cup Ops \cup Restorers

VARIABLES
    \* gpu_arbiter.json and its copy in memory, written in one step
    mode, saved, pinned,
    \* the slots and the ComfyUI container, as the slot manager reports them
    slot,         \* "off" | "load" | "parked" | "ready" | "stop" | "stuck"
    img,          \* "off" | "warming" | "up"
    rendering,    \* ComfyUI's own queue: outlives the API
    \* the switch lock and the operation that holds it
    lock, step, todo, pin,
    now,          \* the slot whose unload or load the operation awaits
    seen,         \* the queue read of a restore decision: "none" | "empty" | "busy"
    \* in memory only
    quiet,        \* "none" | "running" | "passed"
    handoff,      \* the editor hand-off is open
    demand,       \* the shared demand task runs
    lease,        \* chats holding a demand lease
    active,       \* _switch["active"]: the route's flag of a running switchover
    pc,
    posts,        \* the switches each prompt asked for at the gate
    \* bounds
    faults, pins, restarts,
    \* history: slots the arbiter took off the GPU and has not handed to a
    \* load; a drain that gave up; image mode inherited by a new process; the
    \* chats a finished restore woke
    owed, hurried, healing, promised

persisted == <<mode, saved, pinned>>
outside   == <<slot, img, rendering>>
holder    == <<lock, step, todo, pin, now, seen>>
memory    == <<quiet, handoff, demand, lease, active>>
bounds    == <<faults, pins, restarts, posts>>
history   == <<owed, hurried, healing, promised>>
vars == <<persisted, outside, holder, memory, pc, bounds, history>>

-----------------------------------------------------------------------------
(* What the code reads *)

\* _on_gpu: ready for dispatch, or in a loading state (PULLING, STARTING, WARMING).
OnGpu(s) == slot[s] \in {"ready", "load", "parked"}

\* in_flight_count: dispatch tickets and serving() contexts of a slot.
InFlight(s) == {c \in Chats : Target[c] = s
                              /\ pc[c] \in {"ticket", "toload", "loading", "serving"}}

\* _image_jobs: /v1 image requests between image_job()'s entry and its exit.
JobsOpen == {j \in Jobs : pc[j] \notin {"new", "done"}}

\* The requests that wait on the demand task, and those its end has woken.
Waiting == {c \in Chats : pc[c] \in {"wait_route", "wait"}}
Woken   == {c \in Chats : pc[c] \in {"woken_route", "woken"}}

\* _served_requests_pending: a live lease, or a waiter of a finished demand task.
ServedPending == lease # {} \/ Woken # {}

\* An ensure_img holds the lock (_entering_img).
EnsureSteps == {"leases", "configs", "drain", "loads", "unload", "engine",
                "cold", "rollback"}

Fault(f) == f \in Faults /\ faults < MaxFaults /\ faults' = faults + 1

Init ==
    /\ mode = "llm" /\ saved = {} /\ pinned = FALSE
    /\ slot = [s \in Slots |-> IF s \in Cold THEN "off" ELSE "ready"]
    /\ img \in {"off", "up"} /\ rendering = {}
    /\ lock = Nobody /\ step = "idle" /\ todo = {} /\ pin = FALSE
    /\ now = Nobody /\ seen = "none"
    /\ quiet = "none" /\ handoff = FALSE /\ demand = FALSE /\ lease = {}
    /\ active = FALSE
    /\ pc = [p \in Chats \cup Images \cup Ops |-> "new"]
    /\ posts = [p \in Images |-> 0]
    /\ faults = 0 /\ pins = 0 /\ restarts = 0
    /\ owed = {} /\ hurried = FALSE /\ healing = FALSE /\ promised = {}

-----------------------------------------------------------------------------
(* ensure_img *)

\* The lock is taken. In image mode a pin is added and what a restart left
\* unfinished is picked up; in LLM mode the switch first waits for leases.
EnsureEnter(p, wantPin) ==
    /\ lock = Nobody /\ lock' = p /\ pin' = wantPin
    /\ IF mode = "img"
       THEN LET loaded == {s \in saved : OnGpu(s)} IN
            /\ pinned' = (pinned \/ wantPin)
            /\ todo' = loaded
            /\ step' = IF loaded = {} THEN "engine" ELSE "loads"
       ELSE step' = "leases" /\ todo' = {} /\ UNCHANGED pinned
    /\ UNCHANGED <<mode, saved, outside, now, seen, memory, pc, bounds, history>>

EnsureBegins ==
    \/ \E j \in Jobs : pc[j] = "open" /\ EnsureEnter(j, FALSE)
    \/ \E p \in Images : pc[p] = "switch" /\ EnsureEnter(p, FALSE)
    \/ \E o \in Ops : /\ o \in {"generation", "generation_pin"} /\ pc[o] = "switch"
                      /\ EnsureEnter(o, o = "generation_pin")

\* The finally of ensure_img: the quiet clock starts, and image mode opens the
\* editor hand-off. A switch the gate asked for is read from the status again;
\* a /v1 job whose own switch failed closes.
EnsureEnds(ok) ==
    LET p == lock IN
    /\ lock' = Nobody /\ step' = "idle" /\ todo' = {} /\ pin' = FALSE
    /\ quiet' = "running" /\ active' = (active /\ pc[p] # "switch")
    /\ handoff' = (handoff \/ mode' = "img")
    /\ pc' = [pc EXCEPT ![p] = IF p \in Images /\ (ok \/ pc[p] = "switch")
                               THEN "gate" ELSE "done"]
    /\ healing' = FALSE

\* Mutant: the switch goes ahead of the requests a restore just woke.
LeasesIgnored ==
    /\ step = "leases" /\ step' = "configs"
    /\ UNCHANGED <<persisted, outside, lock, todo, pin, now, seen, memory, pc, bounds,
                   history>>

\* _let_served_requests_dispatch: bounded by the lease.
LeasesOver ==
    /\ step = "leases"
    /\ \/ ~ServedPending /\ UNCHANGED <<faults, promised>>
       \/ ServedPending /\ Fault("lease") /\ promised' = {}
    /\ step' = "configs"
    /\ UNCHANGED <<persisted, outside, lock, todo, pin, now, seen, memory, pc, pins,
                   restarts, posts, owed, hurried, healing>>

\* The crash-loop breaker would refuse the img load: the switch never starts.
SwitchRefused ==
    /\ step = "configs" /\ Fault("refused")
    /\ UNCHANGED <<persisted, outside, now, seen, demand, lease, pins, restarts, posts,
                   owed, hurried, promised>>
    /\ EnsureEnds(FALSE)

\* The snapshot of the llm slots on the GPU, persisted with the mode before
\* the first unload; a pin is taken from this call only.
Snapshot ==
    /\ step = "configs"
    /\ mode' = "img" /\ saved' = {s \in Slots : OnGpu(s)} /\ pinned' = pin
    /\ todo' = saved' /\ step' = "drain"
    /\ UNCHANGED <<outside, lock, pin, now, seen, memory, pc, bounds, history>>

\* Mutant: the unloads follow the snapshot at once.
DrainSkipped ==
    /\ step = "drain" /\ step' = "loads"
    /\ UNCHANGED <<persisted, outside, lock, todo, pin, now, seen, memory, pc, bounds,
                   history>>

\* The drain polls in_flight_count over the snapshot and gives up at its bound.
DrainOver ==
    /\ step = "drain"
    /\ \/ (\A s \in todo : InFlight(s) = {}) /\ UNCHANGED <<faults, hurried>>
       \/ /\ \E s \in todo : InFlight(s) # {}
          /\ Fault("drain") /\ hurried' = TRUE
    /\ step' = "loads"
    /\ UNCHANGED <<persisted, outside, lock, todo, pin, now, seen, memory, pc, pins,
                   restarts, posts, owed, healing, promised>>

\* _reload_after_abort: the saved slots that are no longer on the GPU.
ReloadAfterAbort(skip) == {s \in saved \ skip : ~OnGpu(s)}

\* Mutant: a slot still loading at the bound is skipped.
LoadsSkipped ==
    LET loading == {s \in todo : slot[s] = "load"} IN
    /\ step = "loads" /\ step' = "unload"
    /\ \/ loading = {} /\ UNCHANGED <<todo, faults>>
       \/ loading # {} /\ Fault("loadwait") /\ todo' = todo \ loading
    /\ UNCHANGED <<persisted, outside, lock, pin, now, seen, memory, pc, pins,
                   restarts, posts, history>>

\* _await_loads: a load in progress is waited for, up to its bound; past it
\* the switch rolls back and leaves the loading slots alone.
LoadsOver ==
    LET loading == {s \in todo : slot[s] = "load"} IN
    /\ step = "loads"
    /\ \/ /\ loading = {} /\ step' = "unload"
          /\ UNCHANGED <<todo, faults>>
       \/ /\ loading # {} /\ Fault("loadwait")
          /\ step' = "rollback" /\ todo' = ReloadAfterAbort(loading)
    /\ UNCHANGED <<persisted, outside, lock, pin, now, seen, memory, pc, pins,
                   restarts, posts, history>>

\* Loads queued on the slot's lock before image mode was persisted go first.
SlotLockFree(s) ==
    /\ slot[s] \notin {"load", "stop"}
    /\ \A c \in Chats : Target[c] = s => pc[c] \notin {"toload_route", "toload"}

\* _unload_for_img: one slot at a time; SlotManager.unload waits for its lock.
UnloadStarts(s) ==
    /\ step = "unload" /\ now = Nobody /\ s \in todo
    /\ slot[s] \in {"ready", "parked"} /\ SlotLockFree(s)
    /\ slot' = [slot EXCEPT ![s] = "stop"] /\ now' = s
    /\ UNCHANGED <<persisted, img, rendering, lock, step, todo, pin, seen, memory,
                   pc, bounds, history>>

UnloadEnds(s) ==
    /\ step = "unload" /\ now = s
    /\ slot' = [slot EXCEPT ![s] = "off"]
    /\ now' = Nobody /\ todo' = todo \ {s} /\ owed' = owed \cup {s}
    /\ UNCHANGED <<persisted, img, rendering, lock, step, pin, seen, memory, pc,
                   bounds, hurried, healing, promised>>

\* A slot that went down by itself: its unload has nothing to stop.
UnloadNothing(s) ==
    /\ step = "unload" /\ now = Nobody /\ s \in todo
    /\ slot[s] \in {"off", "stuck"}
    /\ SlotLockFree(s)
    /\ todo' = todo \ {s}
    /\ UNCHANGED <<persisted, outside, lock, step, pin, now, seen, memory, pc, bounds,
                   history>>

\* Mutant: a failed unload puts the mode back and reloads nothing.
UnloadFailsAlone(s) ==
    /\ step = "unload" /\ now = s /\ Fault("unload")
    /\ slot' = [slot EXCEPT ![s] = "stuck"] /\ now' = Nobody
    /\ step' = "rollback" /\ todo' = {}
    /\ UNCHANGED <<persisted, img, rendering, lock, pin, seen, memory, pc, pins,
                   restarts, posts, history>>

\* A stop that outlives its budget raises: the slots taken so far come back,
\* the failed one is left to the slot layer.
UnloadFails(s) ==
    /\ step = "unload" /\ now = s /\ Fault("unload")
    /\ slot' = [slot EXCEPT ![s] = "stuck"] /\ now' = Nobody
    /\ step' = "rollback" /\ todo' = ReloadAfterAbort({s})
    /\ UNCHANGED <<persisted, img, rendering, lock, pin, seen, memory, pc, pins,
                   restarts, posts, history>>

UnloadsOver ==
    /\ step = "unload" /\ todo = {} /\ step' = "engine"
    /\ UNCHANGED <<persisted, outside, lock, todo, pin, now, seen, memory, pc, bounds,
                   history>>

\* The resident engine is already up: the switch is done.
EngineUp ==
    /\ step = "engine" /\ img = "up"
    /\ UNCHANGED <<persisted, outside, now, seen, demand, lease, bounds, owed,
                   hurried, promised>>
    /\ EnsureEnds(TRUE)

\* _cold_start_img: a load that raises rolls back without touching the engine.
EngineStarts ==
    /\ step = "engine" /\ img # "up"
    /\ \/ /\ img' = "warming" /\ step' = "cold"
          /\ UNCHANGED <<todo, faults>>
       \/ /\ Fault("imgload") /\ step' = "rollback" /\ todo' = saved
          /\ UNCHANGED img
    /\ UNCHANGED <<persisted, slot, rendering, lock, pin, now, seen, memory, pc, pins,
                   restarts, posts, history>>

\* The readiness poll ends well.
EngineReady ==
    /\ step = "cold" /\ img = "up"
    /\ UNCHANGED <<persisted, outside, now, seen, demand, lease, bounds, owed,
                   hurried, promised>>
    /\ EnsureEnds(TRUE)

\* A terminal state, or the readiness bound: the engine is unloaded and the
\* saved set reloaded.
EngineFails ==
    /\ step = "cold"
    /\ \/ img = "off" /\ UNCHANGED faults
       \/ img = "warming" /\ Fault("imgready")
    /\ img' = "off" /\ step' = "rollback" /\ todo' = saved
    /\ UNCHANGED <<persisted, slot, rendering, lock, pin, now, seen, memory, pc, pins,
                   restarts, posts, history>>

-----------------------------------------------------------------------------
(* Reloads, of a rollback and of a restore: one slot at a time, best effort *)

Reloading == step \in {"rollback", "reload"}

\* manager.load of a slot that is up returns at once.
ReloadNothing(s) ==
    /\ Reloading /\ now = Nobody /\ s \in todo /\ slot[s] = "ready"
    /\ SlotLockFree(s)
    /\ todo' = todo \ {s} /\ owed' = owed \ {s}
    /\ UNCHANGED <<persisted, outside, lock, step, pin, now, seen, memory, pc,
                   bounds, hurried, healing, promised>>

ReloadStarts(s) ==
    /\ Reloading /\ now = Nobody /\ s \in todo /\ slot[s] \in {"off", "parked"}
    /\ SlotLockFree(s)
    /\ slot' = [slot EXCEPT ![s] = "load"] /\ now' = s /\ owed' = owed \ {s}
    /\ UNCHANGED <<persisted, img, rendering, lock, step, todo, pin, seen, memory,
                   pc, bounds, hurried, healing, promised>>

\* The load returned or raised; either way the loop goes on to the next slot.
ReloadEnds(s) ==
    /\ Reloading /\ now = s /\ slot[s] # "load"
    /\ now' = Nobody /\ todo' = todo \ {s}
    /\ UNCHANGED <<persisted, outside, lock, step, pin, seen, memory, pc, bounds,
                   history>>

\* LLM mode is recorded last, with no saved set and no pin.
LlmMode == mode' = "llm" /\ saved' = {} /\ pinned' = FALSE

RollbackEnds ==
    /\ step = "rollback" /\ todo = {} /\ now = Nobody
    /\ LlmMode /\ hurried' = FALSE
    /\ UNCHANGED <<outside, now, seen, demand, lease, bounds, owed, promised>>
    /\ EnsureEnds(FALSE)

-----------------------------------------------------------------------------
(* Restores *)

\* The demand task ends: the requests that wait on it are woken.
WakeWaiters == [c \in DOMAIN pc |-> CASE c \in Chats /\ pc[c] = "wait_route" -> "woken_route"
                                      [] c \in Chats /\ pc[c] = "wait" -> "woken"
                                      [] OTHER -> pc[c]]

\* A restore lets go of the lock; `over` says whether its caller is done too.
RestoreLeaves(over) ==
    /\ lock' = Nobody /\ step' = "idle" /\ todo' = {} /\ seen' = "none"
    /\ CASE lock = "demand" /\ over -> demand' = FALSE /\ pc' = WakeWaiters
         [] lock \in Ops -> pc' = [pc EXCEPT ![lock] = "done"] /\ UNCHANGED demand
         [] OTHER -> UNCHANGED <<pc, demand>>
    /\ active' = (active /\ lock \notin Ops)
    /\ UNCHANGED <<pin, now, lease>>

\* What the callers look at before they ask for the decision.
RestoreWanted(p) ==
    CASE p = "loop" -> quiet = "passed"
      [] p = "demand" -> demand /\ Waiting # {}
      [] OTHER -> TRUE

\* Mutant: the decision does not look at the editor hand-off.
RestoreIgnoresHandoff(p) ==
    /\ p \in Restorers /\ RestoreWanted(p)
    /\ lock = Nobody /\ mode = "img" /\ ~pinned /\ JobsOpen = {}
    /\ lock' = p /\ step' = "read"
    /\ UNCHANGED <<persisted, outside, todo, pin, now, seen, memory, pc, bounds,
                   history>>

\* _restore_decision up to its first await: image mode, no pin, no hand-off,
\* the grace when it is honoured, no image request of hal0's own.
RestoreAsks(p) ==
    /\ p \in Restorers /\ RestoreWanted(p)
    /\ lock = Nobody /\ mode = "img" /\ ~pinned /\ ~handoff /\ JobsOpen = {}
    /\ lock' = p /\ step' = "read"
    /\ UNCHANGED <<persisted, outside, todo, pin, now, seen, memory, pc, bounds,
                   history>>

\* ComfyUI answers GET /queue; the answer is a snapshot when it is used.
QueueAnswers ==
    /\ step = "read" /\ seen = "none"
    /\ seen' = IF rendering = {} THEN "empty" ELSE "busy"
    /\ UNCHANGED <<persisted, outside, lock, step, todo, pin, now, memory, pc,
                   bounds, history>>

\* A busy queue restarts the quiet clock, and so does one that could not be read.
QueueBusy ==
    /\ step = "read"
    /\ \/ seen = "busy" /\ UNCHANGED faults /\ RestoreLeaves(FALSE)
       \/ seen # "none" /\ Fault("queue") /\ RestoreLeaves(TRUE)
    /\ quiet' = "running"
    /\ UNCHANGED <<persisted, outside, handoff, pins, restarts, posts, history>>

\* An image request opened, or a pin was set, during the reads.
RecheckRefuses ==
    /\ step = "read" /\ seen = "empty" /\ (JobsOpen # {} \/ pinned)
    /\ RestoreLeaves(JobsOpen = {})
    /\ UNCHANGED <<persisted, outside, quiet, handoff, bounds, history>>

RecheckPasses ==
    /\ step = "read" /\ seen = "empty" /\ JobsOpen = {} /\ ~pinned
    /\ step' = "free"
    /\ UNCHANGED <<persisted, outside, lock, todo, pin, now, seen, memory, pc,
                   bounds, history>>

\* restore_llm: a no-op in LLM mode, refused by a pin or by hal0's own image
\* work unless forced.
RestoreLlm(o) ==
    /\ o \in Ops \cap {"inference", "force"} /\ pc[o] = "switch" /\ lock = Nobody
    /\ IF mode = "img" /\ (o = "force" \/ (~pinned /\ JobsOpen = {}))
       THEN lock' = o /\ step' = "free" /\ UNCHANGED <<pc, active>>
       ELSE /\ pc' = [pc EXCEPT ![o] = "done"] /\ active' = FALSE
            /\ UNCHANGED <<lock, step>>
    /\ UNCHANGED <<persisted, outside, todo, pin, now, seen, quiet, handoff, demand,
                   lease, bounds, history>>

\* POST /free, then the saved set is reloaded.
FreeModels ==
    /\ step = "free" /\ step' = "reload" /\ todo' = saved
    /\ UNCHANGED <<persisted, outside, lock, pin, now, seen, memory, pc, bounds,
                   history>>

RestoreEnds ==
    /\ step = "reload" /\ todo = {} /\ now = Nobody
    /\ LlmMode /\ quiet' = "none" /\ handoff' = FALSE
    /\ RestoreLeaves(TRUE)
    /\ healing' = FALSE /\ hurried' = FALSE
    /\ promised' = IF lock = "demand" THEN promised \cup Waiting ELSE promised
    /\ UNCHANGED <<outside, bounds, owed>>

\* Mutant: without a clock the tick returns, as it does before the grace.
TickNeedsClock ==
    /\ "loop" \in Restorers /\ mode = "img" /\ quiet = "running"
    /\ UNCHANGED vars

\* _restore_tick starts the clock of an image mode this process has not seen end.
TickStartsClock ==
    /\ "loop" \in Restorers /\ mode = "img" /\ ~pinned /\ JobsOpen = {} /\ quiet = "none"
    /\ quiet' = "running"
    /\ UNCHANGED <<persisted, outside, holder, handoff, demand, lease, active, pc, bounds,
                   history>>

\* _restore_on_demand stands down: nobody waits, or the mode answers for itself.
DemandStandsDown ==
    /\ demand /\ lock # "demand"
    /\ Waiting = {} \/ mode # "img" \/ pinned
    /\ demand' = FALSE /\ pc' = WakeWaiters
    /\ UNCHANGED <<persisted, outside, holder, quiet, handoff, lease, active, bounds, history>>

-----------------------------------------------------------------------------
(* Image work *)

\* image_job() is entered before the first await of the request's switch.
JobOpens(j) ==
    /\ pc[j] = "new" /\ pc' = [pc EXCEPT ![j] = "open"] /\ quiet' = "none"
    /\ UNCHANGED <<persisted, outside, holder, handoff, demand, lease, active, bounds, history>>

PromptComes(p) ==
    /\ p \in Prompts /\ pc[p] = "new" /\ pc' = [pc EXCEPT ![p] = "gate"]
    /\ UNCHANGED <<persisted, outside, holder, memory, bounds, history>>

\* The gate node reads the status until no switch is running.
GateReads(p) ==
    /\ pc[p] = "gate" /\ lock = Nobody /\ ~active
    /\ pc' = [pc EXCEPT ![p] = IF mode = "img" THEN "hold" ELSE "ask"]
    /\ UNCHANGED <<persisted, outside, holder, memory, bounds, history>>

\* In image mode it announces the prompt: hold_for_prompt opens the hand-off
\* under the lock, and answers no when a restore was first. The route gives up
\* on a lock that is held.
GateHolds(p) ==
    /\ pc[p] = "hold"
    /\ IF lock = Nobody /\ mode = "img"
       THEN handoff' = TRUE /\ pc' = [pc EXCEPT ![p] = "transit"]
       ELSE UNCHANGED handoff /\ pc' = [pc EXCEPT ![p] = "gate"]
    /\ UNCHANGED <<persisted, outside, holder, quiet, demand, lease, active, bounds,
                   history>>

\* In LLM mode it asks for the switch, _SWITCH_MAX_POSTS times in all: accepted
\* (and run in the background), refused while one runs, or already done.
GateAsks(p) ==
    /\ pc[p] = "ask"
    /\ posts[p] < MaxPosts /\ posts' = [posts EXCEPT ![p] = @ + 1]
    /\ IF active \/ (mode = "img" /\ lock = Nobody)
       THEN pc' = [pc EXCEPT ![p] = "gate"] /\ UNCHANGED active
       ELSE pc' = [pc EXCEPT ![p] = "switch"] /\ active' = TRUE
    /\ UNCHANGED <<persisted, outside, holder, quiet, handoff, demand, lease, faults,
                   pins, restarts, history>>

\* A request leaves image_job(): the last one starts the quiet clock.
Closes(j) ==
    /\ pc' = [pc EXCEPT ![j] = "done"]
    /\ quiet' = IF JobsOpen = {j} THEN "running" ELSE quiet

\* The gate refuses at its deadline or after its last switch request.
GateRefuses(p) ==
    /\ pc[p] \in {"gate", "hold", "ask"} /\ Closes(p)
    /\ UNCHANGED <<persisted, outside, holder, handoff, demand, lease, active, bounds, history>>

\* The prompt reaches ComfyUI's queue; an engine that is down refuses it.
PromptArrives(p) ==
    /\ pc[p] = "transit"
    /\ IF img = "up"
       THEN /\ rendering' = rendering \cup {p}
            /\ pc' = [pc EXCEPT ![p] = "render"] /\ UNCHANGED quiet
       ELSE Closes(p) /\ UNCHANGED rendering
    /\ UNCHANGED <<persisted, slot, img, holder, handoff, demand, lease, active, bounds, history>>

\* The render returns, or the engine it ran in is gone.
RenderEnds(p) ==
    /\ p \in rendering \/ pc[p] = "render"
    /\ rendering' = rendering \ {p}
    /\ IF pc[p] = "render" THEN Closes(p) ELSE UNCHANGED <<pc, quiet>>
    /\ UNCHANGED <<persisted, slot, img, holder, handoff, demand, lease, active, bounds, history>>

-----------------------------------------------------------------------------
(* LLM requests *)

\* guard_dispatch in front of the route's own load: the lease is kept.
RouteGuard(c, leases) ==
    /\ lease' = leases
    /\ pc' = [pc EXCEPT ![c] = IF mode = "img" THEN "refused" ELSE "toload_route"]
    /\ UNCHANGED promised

\* guard_dispatch, release_demand_lease and enter_dispatch in one step.
DispatchGuard(c) ==
    /\ lease' = lease \ {c}
    /\ pc' = [pc EXCEPT ![c] = IF mode = "img" THEN "refused" ELSE "ticket"]
    /\ promised' = IF mode = "img" THEN promised ELSE promised \ {c}

\* make_room_for_llm: in an unpinned image mode the request waits on the
\* shared demand task; otherwise the guard answers in the same step.
MakeRoom(c) ==
    /\ \/ /\ mode = "img" /\ ~pinned /\ demand' = TRUE
          /\ pc' = [pc EXCEPT ![c] = IF pc[c] = "new" /\ c \in RouteChats
                                     THEN "wait_route" ELSE "wait"]
          /\ UNCHANGED <<lease, promised>>
       \/ /\ mode = "llm" \/ pinned
          /\ IF pc[c] = "new" /\ c \in RouteChats
             THEN RouteGuard(c, lease) ELSE DispatchGuard(c)
          /\ UNCHANGED demand
    /\ pc[c] \in {"new", "forward"}
    /\ UNCHANGED <<persisted, outside, holder, quiet, handoff, active, bounds, owed,
                   hurried, healing>>

\* The wait is over: the demand task ended, or the request's own cap ran out.
\* In LLM mode the request takes its lease in the step it wakes in.
WaitOver(c) ==
    /\ \/ /\ pc[c] \in {"woken_route", "wait_route"}
          /\ RouteGuard(c, IF mode = "llm" THEN lease \cup {c} ELSE lease)
       \/ /\ pc[c] \in {"woken", "wait"}
          /\ DispatchGuard(c)
    /\ UNCHANGED <<persisted, outside, holder, quiet, handoff, demand, active, bounds, owed,
                   hurried, healing>>

\* The client goes away while it waits.
ChatLeaves(c) ==
    /\ pc[c] \in {"wait", "wait_route"} /\ pc' = [pc EXCEPT ![c] = "done"]
    /\ UNCHANGED <<persisted, outside, holder, memory, bounds, history>>

\* SlotManager.load on the slot's lock: a slot that is up is left alone.
ChatLoads(c) ==
    LET s == Target[c]
        route == pc[c] = "toload_route"
    IN /\ pc[c] \in {"toload_route", "toload"}
       /\ \/ /\ slot[s] = "ready" /\ UNCHANGED <<slot, owed>>
             /\ pc' = [pc EXCEPT ![c] = IF route THEN "forward" ELSE "serving"]
          \/ /\ slot[s] \in {"off", "parked"}
             /\ slot' = [slot EXCEPT ![s] = "load"] /\ owed' = owed \ {s}
             /\ pc' = [pc EXCEPT ![c] = IF route THEN "loading_route" ELSE "loading"]
       /\ UNCHANGED <<persisted, img, rendering, holder, memory, bounds, hurried,
                      healing, promised>>

\* Mutant: the request polls for READY and does not look at a failed load.
ChatAwaitsReady(c) ==
    /\ pc[c] \in {"loading_route", "loading"} /\ slot[Target[c]] = "ready"
    /\ pc' = [pc EXCEPT ![c] = IF pc[c] = "loading_route" THEN "forward" ELSE "serving"]
    /\ UNCHANGED <<persisted, outside, holder, memory, bounds, history>>

\* The route swallows a failed load; the dispatcher answers 503 for a slot not up.
ChatLoaded(c) ==
    /\ pc[c] \in {"loading_route", "loading"} /\ slot[Target[c]] # "load"
    /\ pc' = [pc EXCEPT ![c] = IF pc[c] = "loading_route" THEN "forward"
                               ELSE IF slot[Target[c]] = "ready" THEN "serving" ELSE "done"]
    /\ UNCHANGED <<persisted, outside, holder, memory, bounds, history>>

\* With its ticket, past the admission gate: serve, or load the slot first.
ChatDispatches(c) ==
    /\ pc[c] = "ticket"
    /\ pc' = [pc EXCEPT ![c] = IF slot[Target[c]] = "ready" THEN "serving" ELSE "toload"]
    /\ UNCHANGED <<persisted, outside, holder, memory, bounds, history>>

\* exit_dispatch on every path out of forward().
ChatServed(c) ==
    /\ pc[c] = "serving" /\ pc' = [pc EXCEPT ![c] = "done"]
    /\ UNCHANGED <<persisted, outside, holder, memory, bounds, history>>

\* A lease lapses: at once when its request is gone, else it was too slow.
LeaseExpires(c) ==
    /\ c \in lease /\ lease' = lease \ {c} /\ promised' = promised \ {c}
    /\ IF pc[c] \in {"refused", "done"} THEN UNCHANGED faults ELSE Fault("lease")
    /\ UNCHANGED <<persisted, outside, holder, quiet, handoff, demand, active, pc, pins,
                   restarts, posts, owed, hurried, healing>>

-----------------------------------------------------------------------------
(* The operator *)

\* POST /switchover: refused while one runs, done at once in the target mode.
\* Unforced inference reads ComfyUI's queue first, and looks at nothing else again.
SwitchoverAsks(o) ==
    LET there == IF o \in {"inference", "force"} THEN mode = "llm"
                 ELSE mode = "img" /\ lock = Nobody
        accept == ~active /\ ~there
    IN /\ o \in Ops /\ pc[o] = "new"
       /\ active' = (active \/ (accept /\ o # "inference"))
       /\ pc' = [pc EXCEPT ![o] = IF ~accept THEN "done"
                                  ELSE IF o = "inference" THEN "ask" ELSE "switch"]
       /\ UNCHANGED <<persisted, outside, holder, quiet, handoff, demand, lease,
                      bounds, history>>

\* It is refused while renders run.
SwitchoverReads(o) ==
    /\ pc[o] = "ask"
    /\ IF rendering # {} \/ JobsOpen # {}
       THEN pc' = [pc EXCEPT ![o] = "done"] /\ UNCHANGED active
       ELSE pc' = [pc EXCEPT ![o] = "switch"] /\ active' = TRUE
    /\ UNCHANGED <<persisted, outside, holder, quiet, handoff, demand, lease, bounds,
                   history>>

\* POST /pin, lock free: pinning needs image mode, unpinning starts the clock.
SetPin(on) ==
    /\ pins < MaxPins /\ pins' = pins + 1
    /\ on => mode = "img"
    /\ pinned' = on /\ quiet' = IF on THEN quiet ELSE "running"
    /\ UNCHANGED <<mode, saved, outside, holder, handoff, demand, lease, active, pc, faults,
                   restarts, posts, history>>

-----------------------------------------------------------------------------
(* Slots, engine, clocks *)

LoadEnds(s) ==
    /\ slot[s] = "load"
    /\ \/ slot' = [slot EXCEPT ![s] = "ready"] /\ UNCHANGED faults
       \/ slot' = [slot EXCEPT ![s] = "off"] /\ Fault("load")
       \/ slot' = [slot EXCEPT ![s] = "parked"] /\ Fault("park")
    /\ UNCHANGED <<persisted, img, rendering, holder, memory, pc, pins, restarts, posts, history>>

\* A stop whose caller is gone, or gave up, ends.
StopEnds(s) ==
    /\ slot[s] = "stuck" /\ slot' = [slot EXCEPT ![s] = "off"]
    /\ UNCHANGED <<persisted, img, rendering, holder, memory, pc, bounds, history>>

EngineWarms ==
    /\ img = "warming" /\ img' = "up"
    /\ UNCHANGED <<persisted, slot, rendering, holder, memory, pc, bounds, history>>

EngineCrashes ==
    /\ img # "off" /\ Fault("imgcrash") /\ img' = "off" /\ rendering' = {}
    /\ UNCHANGED <<persisted, slot, holder, memory, pc, pins, restarts, posts, history>>

GracePasses ==
    /\ quiet = "running" /\ quiet' = "passed"
    /\ UNCHANGED <<persisted, outside, holder, handoff, demand, lease, active, pc, bounds, history>>

\* The hand-off is sized so that a prompt let through reaches the queue in it.
HandoffExpires ==
    /\ handoff /\ \A p \in Images : pc[p] # "transit"
    /\ handoff' = FALSE
    /\ UNCHANGED <<persisted, outside, holder, quiet, demand, lease, active, pc, bounds, history>>

\* The API process dies and comes back with what is on disk. ComfyUI, its
\* queue, the gate's prompts and the units keep going without it.
Restart ==
    LET cut(p) == CASE pc[p] \in {"new", "done", "refused"} -> pc[p]
                    [] p \in Prompts /\ pc[p] \in {"gate", "hold", "ask", "switch"} -> "gate"
                    [] p \in Prompts /\ pc[p] \in {"transit", "render"} ->
                           IF img = "up" THEN "render" ELSE "done"
                    [] OTHER -> "done"
    IN /\ restarts < MaxRestarts /\ restarts' = restarts + 1
       /\ lock' = Nobody /\ step' = "idle" /\ todo' = {} /\ pin' = FALSE
       /\ now' = Nobody /\ seen' = "none"
       /\ quiet' = "none" /\ handoff' = FALSE /\ demand' = FALSE /\ lease' = {}
       /\ active' = FALSE
       /\ pc' = [p \in DOMAIN pc |-> cut(p)]
       /\ rendering' = IF img = "up"
                       THEN rendering \cup {p \in Images : pc[p] = "transit"}
                       ELSE rendering
       /\ slot' = [s \in Slots |-> CASE slot[s] = "load" -> "parked"
                                     [] slot[s] = "stop" -> "stuck"
                                     [] OTHER -> slot[s]]
       /\ owed' = IF step = "unload" /\ now # Nobody THEN owed \cup {now} ELSE owed
       /\ healing' = (mode = "img") /\ hurried' = FALSE /\ promised' = {}
       /\ UNCHANGED <<persisted, img, faults, pins, posts>>

-----------------------------------------------------------------------------
Ensure ==
    \/ EnsureBegins \/ LeasesOver \/ SwitchRefused \/ Snapshot \/ DrainOver
    \/ LoadsOver
    \/ \E s \in Slots : UnloadStarts(s) \/ UnloadEnds(s) \/ UnloadNothing(s) \/ UnloadFails(s)
    \/ UnloadsOver \/ EngineUp \/ EngineStarts \/ EngineReady \/ EngineFails
    \/ RollbackEnds

Reload == \E s \in Slots : ReloadNothing(s) \/ ReloadStarts(s) \/ ReloadEnds(s)

Restore ==
    \/ \E p \in Restorers : RestoreAsks(p)
    \/ QueueAnswers \/ QueueBusy \/ RecheckRefuses \/ RecheckPasses
    \/ \E o \in Ops : RestoreLlm(o)
    \/ FreeModels \/ RestoreEnds \/ TickStartsClock \/ DemandStandsDown

ImageWork ==
    \/ \E j \in Jobs : JobOpens(j)
    \/ \E p \in Images : \/ PromptComes(p) \/ GateReads(p) \/ GateHolds(p) \/ GateAsks(p)
                         \/ GateRefuses(p) \/ PromptArrives(p) \/ RenderEnds(p)

ChatWork ==
    \E c \in Chats : \/ MakeRoom(c) \/ WaitOver(c) \/ ChatLeaves(c) \/ ChatLoads(c)
                     \/ ChatLoaded(c) \/ ChatDispatches(c) \/ ChatServed(c)
                     \/ LeaseExpires(c)

Operator == (\E o \in Ops : SwitchoverAsks(o) \/ SwitchoverReads(o)) \/ (\E on \in BOOLEAN : SetPin(on))

World ==
    \/ \E s \in Slots : LoadEnds(s) \/ StopEnds(s)
    \/ EngineWarms \/ EngineCrashes \/ GracePasses \/ HandoffExpires

Next == Ensure \/ Reload \/ Restore \/ ImageWork \/ ChatWork \/ Operator \/ World \/ Restart

Spec == Init /\ [][Next]_vars

(* The event loop runs what is runnable; stops, loads and renders end; the
   polls, the restore loop and the request's own cap keep firing; asyncio.Lock
   is first come, first served. New work, faults, pins and restarts are not
   owed to anyone. *)
Progress ==
    /\ WF_vars(Ensure) /\ WF_vars(EnsureBegins) /\ WF_vars(Reload)
    /\ \A p \in Restorers \ {"omni"} : WF_vars(RestoreAsks(p))
    /\ WF_vars(QueueAnswers) /\ WF_vars(QueueBusy) /\ WF_vars(RecheckRefuses)
    /\ WF_vars(RecheckPasses) /\ WF_vars(FreeModels) /\ WF_vars(RestoreEnds)
    /\ \A o \in Ops : WF_vars(RestoreLlm(o)) /\ WF_vars(SwitchoverReads(o))
    /\ WF_vars(TickStartsClock) /\ WF_vars(DemandStandsDown)
    /\ \A p \in Images : /\ WF_vars(GateReads(p) \/ GateHolds(p) \/ GateAsks(p) \/ GateRefuses(p))
                          /\ WF_vars(PromptArrives(p)) /\ WF_vars(RenderEnds(p))
    /\ \A c \in Chats : /\ WF_vars(MakeRoom(c) /\ pc[c] = "forward")
                         /\ WF_vars(WaitOver(c)) /\ WF_vars(ChatLoads(c))
                         /\ WF_vars(ChatLoaded(c)) /\ WF_vars(ChatDispatches(c))
                         /\ WF_vars(ChatServed(c))
                         /\ WF_vars(LeaseExpires(c) /\ pc[c] \in {"refused", "done"})
    /\ \A s \in Slots : WF_vars(LoadEnds(s)) /\ WF_vars(StopEnds(s))
    /\ WF_vars(EngineWarms) /\ WF_vars(GracePasses) /\ WF_vars(HandoffExpires)

LiveSpec == Spec /\ Progress

-----------------------------------------------------------------------------
(* Properties *)

Steps == EnsureSteps \cup {"idle", "read", "free", "reload"}
ChatPcs == {"new", "wait_route", "woken_route", "toload_route", "loading_route",
            "forward", "wait", "woken", "ticket", "toload", "loading", "serving",
            "refused", "done"}
ImagePcs == {"new", "open", "switch", "gate", "hold", "ask", "transit", "render", "done"}

FlagsOK ==
    /\ pinned \in BOOLEAN /\ pin \in BOOLEAN /\ handoff \in BOOLEAN /\ demand \in BOOLEAN
    /\ active \in BOOLEAN /\ hurried \in BOOLEAN /\ healing \in BOOLEAN

PlacesOK ==
    /\ DOMAIN pc = Chats \cup Images \cup Ops
    /\ \A c \in Chats : pc[c] \in ChatPcs
    /\ \A p \in Images \cup Ops : pc[p] \in ImagePcs

ValuesOK ==
    /\ mode \in {"llm", "img"} /\ saved \subseteq Slots
    /\ slot \in [Slots -> {"off", "load", "parked", "ready", "stop", "stuck"}]
    /\ img \in {"off", "warming", "up"} /\ rendering \subseteq Images
    /\ lock \in Procs \cup {Nobody} /\ step \in Steps /\ todo \subseteq Slots
    /\ now \in Slots \cup {Nobody} /\ seen \in {"none", "empty", "busy"}
    /\ quiet \in {"none", "running", "passed"} /\ lease \subseteq Chats
    /\ posts \in [Images -> 0 .. MaxPosts]
    /\ faults \in Nat /\ pins \in Nat /\ restarts \in Nat
    /\ owed \subseteq Slots /\ promised \subseteq Chats
    /\ (lock = Nobody) = (step = "idle")

\* Every variable stays in its type; an operation in progress holds the lock.
TypeOK == FlagsOK /\ PlacesOK /\ ValuesOK

\* Between switches, image mode never stands with a slot of its saved set on
\* the GPU, whatever unload failed, timed out or was rolled back (#3059); a
\* drain that gave up and a restart in the middle of a switch are set apart.
SavedOff ==
    lock = Nobody /\ mode = "img" /\ ~healing /\ ~hurried
        => \A s \in saved : ~OnGpu(s)

\* Between switches no slot of the saved set is on the GPU in image mode,
\* whatever an unload, a load or a rollback of the switch did (SavedOff), and
\* the arbiter's critical section is entered exactly while its lock is held.
Safety == TypeOK /\ SavedOff

\* The same for every llm slot, as the dispatcher's guard is said to ensure:
\* no lazy load pulls an LLM back while image mode holds the GPU.
LlmOffGpu ==
    lock = Nobody /\ mode = "img" /\ ~healing /\ ~hurried
        => \A s \in Slots : ~OnGpu(s)

\* What the arbiter took is in the persisted set until a load was tried for
\* it, across failures and restarts.
Promise == INSTANCE GpuExclusion WITH owner <- mode, promised <- saved, away <- owed
Exclusion == Promise!Spec

\* An automatic restore that frees ComfyUI's models has no render or announced
\* prompt under it, whatever arrived while it read the queue.
RenderNotCut ==
    step = "free" /\ lock \in Restorers
        => rendering = {} /\ \A p \in Images : pc[p] # "transit"

\* A request that a demand restore woke is not refused by a switch that was
\* queued behind that restore.
ServedNotRefused ==
    [][\A c \in Chats : pc[c] # "refused" /\ pc'[c] = "refused" => c \notin promised]_vars

\* The switch stops no slot that a request is using, unless the drain gave up.
NoUnloadUnderRequest ==
    [][\A s \in Slots : slot[s] # "stop" /\ slot'[s] = "stop" /\ ~hurried
            => InFlight(s) = {}]_vars

\* No render starts beside a slot of the saved set (#3059).
RendersAlone ==
    [][\A p \in Images : p \in rendering' \ rendering => \A s \in saved : ~OnGpu(s)]_vars

\* Image mode does not outlive image work: once no new work comes it ends, or
\* an operator's pin holds it, also after a restart and a failed switch.
ImageModeEnds == <>[](mode = "llm" \/ pinned)

\* A request that found image mode, or is loading its slot, gets its answer.
ChatsAnswered ==
    \A c \in Chats : (pc[c] # "new") ~> (pc[c] \in {"refused", "done"})
=============================================================================
