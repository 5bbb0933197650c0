--------------------------- MODULE SlotLifecycle ---------------------------
(***************************************************************************)
(* One slot of SlotManager (slots/manager.py): load, unload, restart and   *)
(* swap under the slot's asyncio lock, and everything that touches the     *)
(* slot's record without it or beside it: status() and the adoption it     *)
(* does, the fail-watcher (slots/watchdog.py), the adopted-WARMING poll,   *)
(* serving(), the idle sweep (slots/reaper.py), the executor threads that  *)
(* outlive terminate(), and a restart of the API process.                  *)
(*                                                                         *)
(* A step runs from one suspension of a coroutine to the next.             *)
(* _transition writes the record at once, then suspends in the event       *)
(* sink; what it does afterwards is the step Tail.                         *)
(***************************************************************************)
EXTENDS Integers, FiniteSets

CONSTANTS
    Loads, Unloads, Restarts, Swaps,  \* one call of that method each
    Sweeps,      \* passes of the idle sweep over this slot
    Recoveries,  \* unload-then-load runs the fail-watcher may start
    Polls,       \* status() callers: GET /api/slots, the metrics sampler, list()
    Requests,    \* inference requests forwarded to the slot
    Base,        \* the model configured at first; swap s asks for the model s
    Nobody,      \* not a task
    Faults,      \* what may befall the unit and the TOML: a subset of FaultKinds
    MaxFaults,   \* how often
    SlowStops,   \* the calls whose stop may outlive terminate()'s budget
    FailedStops, \* the calls whose stop may raise
    MaxRestarts  \* how often the API process is restarted

Calls == Loads \union Unloads \union Restarts \union Swaps \union Sweeps \union Recoveries

Watchdog == "watchdog"   \* the task of _fail_watch_loop
Promoter == "promoter"   \* the task of _promote_adopted_warming_loop
Boot == "boot"           \* the API's lifespan startup

Procs == Calls \union Polls \union Requests \union {Watchdog, Promoter, Boot}

FaultKinds == {"sick", "hang", "fail", "stop", "revive", "unassign", "unwritable"}

ASSUME LifecycleAssumption ==
    /\ IsFiniteSet(Calls)
    /\ Faults \subseteq FaultKinds
    /\ MaxFaults \in Nat
    /\ MaxRestarts \in Nat
    /\ SlowStops \subseteq Calls /\ FailedStops \subseteq Calls
    /\ Nobody \notin Procs
    /\ IsFiniteSet(Requests)
    /\ Calls \cap (Polls \union Requests \union {Watchdog, Promoter, Boot}) = {}
    /\ Requests \cap (Polls \union {Watchdog, Promoter, Boot}) = {}
    /\ Polls \cap {Watchdog, Promoter, Boot} = {}
    /\ Calls \cap {"sanity", "stall"} = {}

VARIABLES
    state,     \* the record's state, in memory and in state.json
    marks,     \* the record's extra: "sanity", "stall", and c for the slow_stop token of c
    default,   \* [model].default in the slot's TOML
    unit,      \* what systemd and /health would say of the container unit
    runs,      \* the model the unit was rendered with
    sane,      \* whether that unit produces language
    upstream,  \* whether the dispatcher has a route to the slot
    lock,      \* who holds the slot's lock
    pc,        \* where each task is
    tail,      \* tail[p]: the state p's _transition wrote, until its Tail has run
    leg,       \* leg[c]: whether c still has its load to do after this leg
    cfg,       \* cfg[c]: the default model that _load read
    seen,      \* seen[p]: the record that status() read
    late,      \* calls whose stop runs on in the executor
    overtaken, \* those of them during whose stop a new unit was started
    ended,     \* calls whose _watch_slow_stop task awaits the lock
    failures,  \* _load_failures: consecutive failed loads
    cooling,   \* the crash-loop backoff since the last one has not elapsed
    serving,   \* _serving_count
    faults,    \* faults left
    restarts   \* API restarts left

record == <<state, marks>>
world == <<unit, runs, sane, faults>>
stops == <<late, overtaken, ended>>
breaker == <<failures, cooling>>
tasks == <<pc, tail, lock, leg, cfg, seen>>
vars == <<record, world, stops, breaker, tasks, default, upstream, serving, restarts>>

None == "none"
NoModel == "no model"
Models == {Base} \union Swaps

States == {"offline", "pulling", "starting", "warming", "ready", "serving", "idle",
           "unloading", "error"}
Dispatchable == {"ready", "serving", "idle"}
Live == Dispatchable \union {"warming"}          \* _FAIL_WATCH_LIVE_STATES
Inflight == {"pulling", "starting", "warming"}

\* up: /health answers ok;  silent: active, /health refuses;  hung: active, /health stalls;
\* failed: systemd gave up;  stopped: ended cleanly;  gone: no unit file
Active == {"up", "silent", "hung"}
Units == Active \union {"failed", "stopped", "gone"}

Final == {"done", "raised", "refused"}
Strikes == {"strike_health", "strike_stall", "strike_warming", "strike_dead"}

Places == Final \union Strikes \union
    {"idle", "load", "stallcheck", "drift", "reload_stop", "prepare", "pulling", "preflight",
     "spawning", "await_ready", "persist", "sanity_stop", "failing", "failing_sanity",
     "illegal", "crashline", "crashline_sanity", "raise", "refuse", "unload", "unload_stop", "reset", "reset_stop",
     "status", "probe", "reason", "clean", "removed", "drop", "adopt", "restall", "health",
     "adopted_ready", "adopted_warming", "return", "boot", "checked", "inference",
     "off", "sleep", "polling", "answered", "promoting"}

\* A call is none of the values that stand beside it, and a swap no other call.
ASSUME NamesAssumption ==
    /\ Calls \cap (Places \union {NoModel}) = {}
    /\ Swaps \cap (Loads \union Unloads \union Restarts \union Sweeps \union Recoveries) = {}

-----------------------------------------------------------------------------
(* The state machine and _transition.                                      *)

LegalTransitions ==
    [s \in States |->
        CASE s = "offline" -> {"pulling", "starting"}
          [] s = "pulling" -> {"starting", "error", "offline"}
          [] s = "starting" -> {"warming", "error", "offline"}
          [] s = "warming" -> {"ready", "idle", "error", "offline"}
          [] s = "ready" -> {"serving", "idle", "unloading", "error"}
          [] s = "serving" -> {"ready", "idle", "error"}
          [] s = "idle" -> {"serving", "unloading", "ready"}
          [] s = "unloading" -> {"offline", "error"}
          [] s = "error" -> {"offline", "pulling", "starting"}]

Legal(to) == to = state \/ to \in LegalTransitions[state]

Init ==
    /\ state = "offline" /\ marks = {}
    /\ default = Base
    /\ unit = "gone" /\ runs = NoModel /\ sane = TRUE
    /\ upstream = FALSE
    /\ lock = Nobody
    /\ pc = [p \in Procs |-> IF p \in {Watchdog, Promoter} THEN "off" ELSE "idle"]
    /\ tail = [p \in Procs |-> None]
    /\ leg = [c \in Calls |-> IF c \in Restarts \union Swaps \union Recoveries
                              THEN "first" ELSE "last"]
    /\ cfg = [c \in Calls |-> NoModel]
    /\ seen = [p \in Procs |-> [state |-> "offline", marks |-> {}]]
    /\ late = {} /\ overtaken = {} /\ ended = {}
    /\ failures = 0 /\ cooling = FALSE
    /\ serving = 0
    /\ faults = MaxFaults /\ restarts = MaxRestarts

\* The marks a new record carries: stall and slow_stop only if this very
\* transition supplies them, sanity until READY or IDLE.
Carry(to, extra) ==
    LET kept == (marks \ ({"stall"} \union Calls)) \union extra
    IN  IF to \in {"ready", "idle"} THEN kept \ {"sanity"} ELSE kept

\* Mutant: the force flag is ignored, and an illegal transition dropped.
StampUnforced(p, to, extra) ==
    /\ IF Legal(to) THEN state' = to /\ marks' = Carry(to, extra) ELSE UNCHANGED record
    /\ failures' = IF to \in {"ready", "idle"} THEN 0 ELSE failures
    /\ tail' = [tail EXCEPT ![p] = IF Legal(to) THEN to ELSE state]

\* _transition up to its first suspension, for a transition that is legal or forced.
Stamp(p, to, extra) ==
    /\ state' = to
    /\ marks' = Carry(to, extra)
    /\ failures' = IF to \in {"ready", "idle"} THEN 0 ELSE failures
    /\ tail' = [tail EXCEPT ![p] = to]

\* p is not inside a _transition.
Runs(p) == tail[p] = None

Go(p, place) == pc' = [pc EXCEPT ![p] = place]
Acquire(p) == lock = Nobody /\ lock' = p
Release(p) == lock' = IF lock = p THEN Nobody ELSE lock

\* The rest of _transition: SlotWatchdog.update arms a watcher for a live
\* state and cancels it otherwise, and any transition ends the adopted-WARMING
\* poll.  Neither cancels the task it runs in.  A cancelled watcher takes the
\* recovery it is running with it.
Tail(p) ==
    LET live == tail[p] \in Live
        victims == IF live \/ pc[Watchdog] = p THEN {}
                   ELSE {v \in Recoveries : pc[Watchdog] = v}
        over == victims \union (IF live THEN {} ELSE {Watchdog})
                        \union (IF p = Promoter THEN {Promoter} ELSE {})
    IN  /\ tail[p] # None
        /\ pc' = [q \in Procs |->
                    CASE q \in victims -> "raised"
                      [] q = Watchdog /\ ~live -> "off"
                      [] q = Watchdog /\ live /\ pc[q] = "off" -> "sleep"
                      [] q = Promoter /\ (p = Promoter \/ pc[q] # "promoting") -> "off"
                      [] OTHER -> pc[q]]
        /\ tail' = [q \in Procs |-> IF q \in {p} \union over THEN None ELSE tail[q]]
        /\ lock' = IF lock \in over THEN Nobody ELSE lock
        /\ UNCHANGED <<record, world, stops, breaker, leg, cfg, seen, default, upstream,
                       serving, restarts>>

-----------------------------------------------------------------------------
(* terminate().                                                            *)

\* The stop of the unit, as its caller sees it end: it returns, it raises
\* (the quadlet could not be removed), or the budget runs out first and the
\* executor thread goes on by itself.
StopUnit(c, how) ==
    /\ \/ how = "ok" /\ unit' = "gone" /\ UNCHANGED late
       \/ /\ how = "error" /\ c \in FailedStops /\ unit # "gone"
          /\ unit' \in {unit} \union (IF unit \in Active THEN {"stopped"} ELSE {})
          /\ UNCHANGED late
       \/ /\ how = "slow" /\ c \in SlowStops \ late
          /\ late' = late \union {c}
          /\ UNCHANGED unit
    /\ UNCHANGED <<runs, sane, faults, overtaken, ended>>

\* Only a stop that returned takes the route away.
terminate(c, how) == StopUnit(c, how) /\ upstream' = (upstream /\ how # "ok")

HowStopEnds == {"ok", "error", "slow"}

\* The abandoned thread finishes: _late_deregister drops the route.  Whether
\* it still takes the unit down if a new one was started meanwhile is systemd's.
LateStopReturns(c) ==
    /\ c \in late
    /\ late' = late \ {c} /\ overtaken' = overtaken \ {c} /\ ended' = ended \union {c}
    /\ unit' \in {"gone"} \union (IF c \in overtaken THEN {unit} ELSE {})
    /\ upstream' = FALSE
    /\ UNCHANGED <<record, runs, sane, faults, breaker, tasks, default, serving, restarts>>

LateStopRaises(c) ==
    /\ c \in late
    /\ late' = late \ {c} /\ overtaken' = overtaken \ {c}
    /\ UNCHANGED <<record, world, ended, breaker, tasks, default, upstream, serving, restarts>>

\* Mutant: any ERROR is retired, not only the one with this stop's token.
SlowStopEndsAny(c) ==
    /\ c \in ended
    /\ lock = Nobody
    /\ ended' = ended \ {c}
    /\ IF state = "error"
       THEN state' = "offline" /\ marks' = Carry("offline", {})
       ELSE UNCHANGED record
    /\ UNCHANGED <<world, late, overtaken, breaker, tasks, default, upstream, serving, restarts>>

\* _watch_slow_stop: the ERROR that this very stop left behind is retired.
\* The transition is the last thing done under the lock, and an ERROR slot has
\* neither watcher nor poll, so its tail is part of the step.
SlowStopEnds(c) ==
    /\ c \in ended
    /\ lock = Nobody
    /\ ended' = ended \ {c}
    /\ IF state = "error" /\ c \in marks
       THEN state' = "offline" /\ marks' = Carry("offline", {})
       ELSE UNCHANGED record
    /\ UNCHANGED <<world, late, overtaken, breaker, tasks, default, upstream, serving, restarts>>

-----------------------------------------------------------------------------
(* load().                                                                 *)

Model(c) == IF c \in Swaps THEN c ELSE cfg[c]

\* _check_crash_loop_gate
GateRefuses == failures > 0 /\ cooling

\* The first steps of _load under the lock, up to its first suspension.
LoadBegin(c) ==
    /\ pc[c] = "load" /\ Runs(c)
    /\ Acquire(c)
    /\ cfg' = [cfg EXCEPT ![c] = default]
    /\ upstream' = (upstream \/ state \in Dispatchable)
    /\ Go(c, CASE state \in Dispatchable -> "drift"
               [] state = "error" /\ "stall" \in marks -> "stallcheck"
               [] state \in Inflight \/ (state = "error" /\ "stall" \notin marks) ->
                    IF GateRefuses THEN "refuse" ELSE "reload_stop"
               [] OTHER -> "prepare")
    /\ UNCHANGED <<record, world, stops, breaker, tail, leg, seen, default, serving, restarts>>

\* The client left while the call queued for the lock: nothing is started.
LoadAbandoned(c) ==
    /\ c \in Loads
    /\ pc[c] = "load"
    /\ Acquire(c)
    /\ state \notin Dispatchable
    /\ Go(c, "status")
    /\ UNCHANGED <<record, world, stops, breaker, tail, leg, cfg, seen, default, upstream,
                   serving, restarts>>

\* A unit at the stall ceiling is left alone while it lives.
StallCheck(c) ==
    /\ pc[c] = "stallcheck"
    /\ Go(c, CASE unit \in Active -> "raise"
               [] unit \notin Active /\ GateRefuses -> "refuse"
               [] OTHER -> "reload_stop")
    /\ UNCHANGED <<record, world, stops, breaker, tail, lock, leg, cfg, seen, default,
                   upstream, serving, restarts>>

\* _should_converge: the running unit against what the TOML would render.
DriftCheck(c) ==
    /\ pc[c] = "drift"
    /\ Go(c, IF unit \in Active /\ cfg[c] # NoModel /\ runs # cfg[c]
             THEN "reload_stop" ELSE "status")
    /\ UNCHANGED <<record, world, stops, breaker, tail, lock, leg, cfg, seen, default,
                   upstream, serving, restarts>>

\* The best-effort terminate of a reload, and the forced OFFLINE after it.
ReloadStopped(c, how) ==
    /\ pc[c] = "reload_stop"
    /\ terminate(c, how)
    /\ Stamp(c, "offline", {})
    /\ Go(c, "prepare")
    /\ UNCHANGED <<cooling, lock, leg, cfg, seen, default, serving, restarts>>

\* From here to READY transitions are not forced: an illegal one raises.
Advance(c, to, place) ==
    IF Legal(to)
    THEN Stamp(c, to, {}) /\ Go(c, place)
    ELSE Go(c, "illegal") /\ UNCHANGED <<record, failures, tail>>

\* No model configured: OFFLINE.  Otherwise pull the model if it is not on disk.
Prepare(c) ==
    /\ pc[c] = "prepare" /\ Runs(c)
    /\ \/ Model(c) = NoModel /\ Stamp(c, "offline", {}) /\ Go(c, "status")
       \/ Model(c) # NoModel /\ Advance(c, "pulling", "pulling")
       \/ /\ Model(c) # NoModel
          /\ Go(c, "preflight")
          /\ UNCHANGED <<record, failures, tail>>
    /\ UNCHANGED <<world, stops, cooling, lock, leg, cfg, seen, default, upstream, serving,
                   restarts>>

Pulled(c) ==
    /\ pc[c] = "pulling" /\ Runs(c)
    /\ \E place \in {"preflight", "failing"} : Go(c, place)
    /\ UNCHANGED <<record, world, stops, breaker, tail, lock, leg, cfg, seen, default,
                   upstream, serving, restarts>>

\* _check_load, the fabric-clock guard and pre-load eviction: STARTING, a
\* failure, or the guard's refusal, which is OFFLINE and no failure.
Preflight(c) ==
    /\ pc[c] = "preflight" /\ Runs(c)
    /\ \/ Advance(c, "starting", "spawning")
       \/ Go(c, "failing") /\ UNCHANGED <<record, failures, tail>>
       \/ Stamp(c, "offline", {}) /\ Go(c, "raise")
    /\ UNCHANGED <<world, stops, cooling, lock, leg, cfg, seen, default, upstream, serving,
                   restarts>>

\* _spawn_locked: the unit is written and started, and its route registered.
Spawned(c) ==
    /\ pc[c] = "spawning" /\ Runs(c)
    /\ unit' = "silent" /\ runs' = Model(c) /\ sane' \in BOOLEAN
    /\ upstream' = TRUE
    /\ overtaken' = late
    /\ Advance(c, "warming", "await_ready")
    /\ UNCHANGED <<faults, late, ended, cooling, lock, leg, cfg, seen, default, serving, restarts>>

SpawnRaises(c) ==
    /\ pc[c] = "spawning" /\ Runs(c)
    /\ unit' \in {unit, "failed"}
    /\ Go(c, "failing")
    /\ UNCHANGED <<record, runs, sane, faults, stops, breaker, tail, lock, leg, cfg, seen,
                   default, upstream, serving, restarts>>

\* _await_ready and what load makes of its answer.
AwaitReady(c) ==
    /\ pc[c] = "await_ready" /\ Runs(c)
    /\ \/ unit = "up" /\ sane /\ Advance(c, "ready", "persist")
       \/ /\ unit = "up" /\ ~sane
          /\ Go(c, "sanity_stop")
          /\ UNCHANGED <<record, failures, tail>>
       \/ \* the wait, or the probe, ran out of time
          unit \notin {"failed", "gone"} /\ Advance(c, "warming", "persist")
       \/ /\ unit \in {"failed", "gone"}
          /\ Go(c, "failing")
          /\ UNCHANGED <<record, failures, tail>>
    /\ UNCHANGED <<world, stops, cooling, lock, leg, cfg, seen, default, upstream, serving,
                   restarts>>

\* _persist_model_default: a write that fails is logged.
Written(m) == {m} \union (IF "unwritable" \in Faults THEN {default} ELSE {})

\* A swap's model becomes the default unless it is already.
Persist(c) ==
    /\ pc[c] = "persist" /\ Runs(c)
    /\ default' \in IF c \in Swaps /\ cfg[c] # c THEN Written(c) ELSE {default}
    /\ Go(c, "status")
    /\ UNCHANGED <<record, world, stops, breaker, tail, lock, leg, cfg, seen, upstream,
                   serving, restarts>>

\* The unit talks nonsense: stop it, and drop its route even if that fails.
SanityStopped(c, how) ==
    /\ pc[c] = "sanity_stop"
    /\ StopUnit(c, how)
    /\ upstream' = FALSE
    /\ Go(c, "failing_sanity")
    /\ UNCHANGED <<record, breaker, tail, lock, leg, cfg, seen, default, serving, restarts>>

\* load's except branch: the failure is counted, the journal read, ERROR
\* stamped.  illegal is an IllegalSlotTransition among the exceptions.
CountFailure(c) ==
    /\ pc[c] \in {"failing", "failing_sanity", "illegal"}
    /\ failures' = failures + 1 /\ cooling' = TRUE
    /\ Go(c, IF pc[c] = "failing_sanity" THEN "crashline_sanity" ELSE "crashline")
    /\ UNCHANGED <<record, world, stops, tail, lock, leg, cfg, seen, default, upstream,
                   serving, restarts>>

StampError(c) ==
    /\ pc[c] \in {"crashline", "crashline_sanity"}
    /\ Stamp(c, "error", IF pc[c] = "crashline_sanity" THEN {"sanity"} ELSE {})
    /\ Go(c, "raise")
    /\ UNCHANGED <<world, stops, cooling, lock, leg, cfg, seen, default, upstream, serving,
                   restarts>>

\* The end of a task: a recovery was run by the watcher, which ends with it.
End(c, place) ==
    pc' = [pc EXCEPT ![c] = place, ![Watchdog] = IF @ = c THEN "off" ELSE @]

\* The locals of a coroutine that is over.
Blank == [state |-> "offline", marks |-> {}]

Forget(p) ==
    /\ cfg' = [c \in Calls |-> IF c = p THEN NoModel ELSE cfg[c]]
    /\ seen' = [seen EXCEPT ![p] = Blank]

\* Mutant: an exception does not give the lock back.
RaiseKeepsLock(c) ==
    /\ pc[c] \in {"raise", "refuse"} /\ Runs(c)
    /\ End(c, IF pc[c] = "raise" THEN "raised" ELSE "refused")
    /\ Forget(c)
    /\ UNCHANGED <<record, world, stops, breaker, tail, lock, leg, default, upstream, serving,
                   restarts>>

\* An exception leaves the lock and ends the whole call, restart and swap included.
Raise(c) ==
    /\ pc[c] \in {"raise", "refuse"} /\ Runs(c)
    /\ Release(c)
    /\ End(c, IF pc[c] = "raise" THEN "raised" ELSE "refused")
    /\ Forget(c)
    /\ UNCHANGED <<record, world, stops, breaker, tail, leg, default, upstream, serving,
                   restarts>>

-----------------------------------------------------------------------------
(* unload(), restart(), swap() and the idle sweep.                         *)

\* unload under the lock, up to its first suspension.
EnterUnload(c) ==
    /\ Acquire(c)
    /\ \/ /\ state = "offline"
          /\ Go(c, "status")
          /\ UNCHANGED <<record, failures, tail>>
       \/ state # "offline" /\ Stamp(c, "unloading", {}) /\ Go(c, "unload_stop")
    /\ UNCHANGED <<world, stops, cooling, leg, cfg, seen, default, upstream, serving, restarts>>

UnloadBegin(c) == pc[c] = "unload" /\ EnterUnload(c)

\* ERROR if the stop did not return; provisional (slow_stop) if it is only late.
UnloadStopped(c, how) ==
    /\ pc[c] = "unload_stop" /\ Runs(c)
    /\ terminate(c, how)
    /\ \/ how = "ok" /\ Stamp(c, "offline", {}) /\ Go(c, "status")
       \/ /\ how # "ok"
          /\ Stamp(c, "error", IF how = "slow" THEN {c} ELSE {})
          /\ Go(c, "raise")
    /\ UNCHANGED <<cooling, lock, leg, cfg, seen, default, serving, restarts>>

\* The first leg of a restart or a swap of a slot that is not cleanly live.
ResetBegin(c) ==
    /\ pc[c] = "reset"
    /\ Acquire(c)
    /\ Go(c, "reset_stop")
    /\ UNCHANGED <<record, world, stops, breaker, tail, leg, cfg, seen, default, upstream,
                   serving, restarts>>

ResetStopped(c, how) ==
    /\ pc[c] = "reset_stop"
    /\ terminate(c, how)
    /\ Stamp(c, "offline", {})
    /\ Go(c, "return")
    /\ UNCHANGED <<cooling, lock, leg, cfg, seen, default, serving, restarts>>

\* A call starts; none does before the lifespan startup is over.
Starts(c) == pc[c] = "idle" /\ pc[Boot] = "idle"

\* POST /load resets the breaker first; the dispatcher's lazy load does not.
CallLoad(c) ==
    /\ c \in Loads /\ Starts(c)
    /\ failures' \in {failures, 0}
    /\ Go(c, "load")
    /\ UNCHANGED <<record, world, stops, cooling, tail, lock, leg, cfg, seen, default,
                   upstream, serving, restarts>>

CallUnload(c) ==
    /\ c \in Unloads /\ Starts(c)
    /\ Go(c, "unload")
    /\ UNCHANGED <<record, world, stops, breaker, tail, lock, leg, cfg, seen, default,
                   upstream, serving, restarts>>

\* restart(): the breaker is reset, and the state read, before the lock.
CallRestart(c) ==
    /\ c \in Restarts /\ Starts(c)
    /\ failures' = 0
    /\ Go(c, IF state = "error" THEN "reset" ELSE "unload")
    /\ UNCHANGED <<record, world, stops, cooling, tail, lock, leg, cfg, seen, default,
                   upstream, serving, restarts>>

\* Mutant: the new default is left to the end of the load.
SwapPersistsLast(c) ==
    /\ c \in Swaps /\ Starts(c)
    /\ IF state \in Inflight \union {"error"}
       THEN failures' = 0 /\ Go(c, "reset")
       ELSE Go(c, "unload") /\ UNCHANGED failures
    /\ UNCHANGED <<record, world, stops, cooling, tail, lock, leg, cfg, seen, default,
                   upstream, serving, restarts>>

\* swap(): the new default is written first.
CallSwap(c) ==
    /\ c \in Swaps /\ Starts(c)
    /\ default' \in Written(c)
    /\ IF state \in Inflight \union {"error"}
       THEN failures' = 0 /\ Go(c, "reset")
       ELSE Go(c, "unload") /\ UNCHANGED failures
    /\ UNCHANGED <<record, world, stops, cooling, tail, lock, leg, cfg, seen, upstream,
                   serving, restarts>>

\* Tasks queued for the slot's lock.
Waiting == {p \in Procs : pc[p] \in {"load", "unload", "reset", "answered"} \union Strikes}

\* sweep_idle_once, hard TTL: the checks and unload's own first steps run
\* without a suspension between them unless the lock must be waited for.
SweepEvicts(c) ==
    /\ c \in Sweeps /\ Starts(c)
    /\ serving = 0 /\ state \in {"ready", "idle"}
    /\ \/ Waiting = {} /\ EnterUnload(c)
       \/ /\ lock # Nobody \/ Waiting # {}
          /\ Go(c, "unload")
          /\ UNCHANGED <<record, world, stops, breaker, tail, lock, leg, cfg, seen, default,
                         upstream, serving, restarts>>

\* Its soft demotion, READY -> IDLE, without the lock.  It does not change
\* which watcher or poll a READY slot has, so its tail is part of the step.
SweepDemotes ==
    /\ Sweeps # {}
    /\ serving = 0 /\ state = "ready"
    /\ state' = "idle" /\ marks' = Carry("idle", {}) /\ failures' = 0
    /\ pc' = [pc EXCEPT ![Watchdog] = IF @ = "off" THEN "sleep" ELSE @]
    /\ UNCHANGED <<world, stops, cooling, tail, lock, leg, cfg, seen, default, upstream,
                   serving, restarts>>

-----------------------------------------------------------------------------
(* status(): it never takes the lock, though a call may hold it.           *)

Poll(p) ==
    /\ p \in Polls /\ Starts(p)
    /\ Go(p, "status")
    /\ UNCHANGED <<record, world, stops, breaker, tail, lock, leg, cfg, seen, default,
                   upstream, serving, restarts>>

\* The record is read, then systemd is asked about the unit.
ReadRecord(p) ==
    /\ pc[p] = "status" /\ Runs(p)
    /\ seen' = [seen EXCEPT ![p] = [state |-> state, marks |-> marks]]
    /\ Go(p, "probe")
    /\ UNCHANGED <<record, world, stops, breaker, tail, lock, leg, cfg, default, upstream,
                   serving, restarts>>

\* The answer is compared with the record read before.
Reconcile(p) ==
    /\ pc[p] = "probe"
    /\ Go(p, CASE seen[p].state \in Dispatchable /\ unit \notin Active -> "reason"
               [] seen[p].state = "error" /\ unit \notin Active -> "clean"
               [] /\ seen[p].state \in {"offline", "error"} /\ unit \in Active
                  /\ default # NoModel -> "adopt"
               [] OTHER -> "return")
    /\ UNCHANGED <<record, world, stops, breaker, tail, lock, leg, cfg, seen, default,
                   upstream, serving, restarts>>

\* unit_failure_reason: ERROR if systemd gave up on the unit, OFFLINE otherwise.
StampDead(p) ==
    /\ pc[p] = "reason"
    /\ Stamp(p, IF unit \in {"failed", "gone"} THEN "error" ELSE "offline", {})
    /\ Go(p, "return")
    /\ UNCHANGED <<world, stops, cooling, lock, leg, cfg, seen, default, upstream, serving,
                   restarts>>

\* An ERROR whose unit ended on purpose becomes OFFLINE; a stall mark does
\* not outlive the unit.
StampClean(p) ==
    /\ pc[p] = "clean"
    /\ \/ unit = "stopped" /\ Stamp(p, "offline", {}) /\ Go(p, "return")
       \/ /\ unit # "stopped" /\ seen[p].marks \cap Calls # {}
          /\ Go(p, "removed")
          /\ UNCHANGED <<record, failures, tail>>
       \/ /\ unit # "stopped" /\ seen[p].marks \cap Calls = {} /\ "stall" \in seen[p].marks
          /\ Stamp(p, "error", {}) /\ Go(p, "return")
       \/ /\ unit # "stopped" /\ seen[p].marks \cap (Calls \union {"stall"}) = {}
          /\ Go(p, "return")
          /\ UNCHANGED <<record, failures, tail>>
    /\ UNCHANGED <<world, stops, cooling, lock, leg, cfg, seen, default, upstream, serving,
                   restarts>>

\* A slow_stop ERROR whose unit has been removed: OFFLINE, then the route goes.
StampRemoved(p) ==
    /\ pc[p] = "removed"
    /\ \/ unit = "gone" /\ Stamp(p, "offline", {}) /\ Go(p, "drop")
       \/ unit # "gone" /\ Go(p, "return") /\ UNCHANGED <<record, failures, tail>>
    /\ UNCHANGED <<world, stops, cooling, lock, leg, cfg, seen, default, upstream, serving,
                   restarts>>

DropRoute(p) ==
    /\ pc[p] = "drop" /\ Runs(p)
    /\ upstream' = FALSE
    /\ Go(p, "return")
    /\ UNCHANGED <<record, world, stops, breaker, tail, lock, leg, cfg, seen, default,
                   serving, restarts>>

\* The end of a status(), of a reset, or of the startup pass: a call gives
\* the lock back and goes on to its load, if one is still to come.
Return(p) ==
    /\ pc[p] = "return" /\ Runs(p)
    /\ Release(p)
    /\ IF p \notin Calls THEN Go(p, "idle") /\ UNCHANGED leg
       ELSE IF leg[p] = "first"
       THEN Go(p, "load") /\ leg' = [leg EXCEPT ![p] = "last"]
       ELSE End(p, "done") /\ UNCHANGED leg
    /\ Forget(p)
    /\ UNCHANGED <<record, world, stops, breaker, tail, default, upstream, serving, restarts>>

-----------------------------------------------------------------------------
(* Adoption of a running unit: _maybe_adopt_running_slot.                  *)

\* Mutant: an active unit is adopted whatever the sanity gate said.
AdoptUnverified(p) ==
    /\ pc[p] = "adopt"
    /\ Go(p, CASE unit \notin Active -> "return"
               [] unit \in Active /\ "stall" \in marks -> "restall"
               [] OTHER -> "health")
    /\ UNCHANGED <<record, world, stops, breaker, tail, lock, leg, cfg, seen, default,
                   upstream, serving, restarts>>

\* The unit is probed again, then the marks are read from the current record.
AdoptCheck(p) ==
    /\ pc[p] = "adopt"
    /\ Go(p, CASE unit \notin Active \/ "sanity" \in marks -> "return"
               [] unit \in Active /\ "sanity" \notin marks /\ "stall" \in marks -> "restall"
               [] OTHER -> "health")
    /\ UNCHANGED <<record, world, stops, breaker, tail, lock, leg, cfg, seen, default,
                   upstream, serving, restarts>>

Adopt(p, to) ==
    /\ Stamp(p, to, {})
    /\ Go(p, IF to = "ready" THEN "adopted_ready" ELSE "adopted_warming")

\* /health: READY unless the answer is a definite no; a stall is no such answer.
AdoptHealth(p) ==
    /\ pc[p] = "health"
    /\ Adopt(p, IF unit \in {"up", "hung"} THEN "ready" ELSE "warming")
    /\ UNCHANGED <<world, stops, cooling, lock, leg, cfg, seen, default, upstream, serving,
                   restarts>>

\* stall_ceiling_cleared: only an engine that answers is adopted.
AdoptStalled(p) ==
    /\ pc[p] = "restall"
    /\ IF unit = "up" THEN Adopt(p, "ready")
       ELSE Go(p, "return") /\ UNCHANGED <<record, failures, tail>>
    /\ UNCHANGED <<world, stops, cooling, lock, leg, cfg, seen, default, upstream, serving,
                   restarts>>

\* An adopted WARMING slot gets its poll; the startup pass registers the
\* route of an adopted READY one, a plain status() does not.
Adopted(p) ==
    /\ pc[p] \in {"adopted_ready", "adopted_warming"} /\ Runs(p)
    /\ upstream' = (upstream \/ (p = Boot /\ pc[p] = "adopted_ready"))
    /\ pc' = [pc EXCEPT ![p] = "return",
                        ![Promoter] = IF pc[p] = "adopted_warming" /\ @ = "off"
                                      THEN "polling" ELSE @]
    /\ UNCHANGED <<record, world, stops, breaker, tail, lock, leg, cfg, seen, default, serving,
                   restarts>>

\* Mutant: a slot whose record is already READY is passed over.
BootAdoptsOnly ==
    /\ pc[Boot] = "boot"
    /\ Go(Boot, IF unit \in Active /\ state \in {"offline", "error", "warming"}
                   /\ default # NoModel
                THEN "adopt" ELSE "return")
    /\ UNCHANGED <<record, world, stops, breaker, tail, lock, leg, cfg, seen, default,
                   upstream, serving, restarts>>

\* reconcile_container_upstreams, at startup.
BootReconcile ==
    /\ pc[Boot] = "boot"
    /\ upstream' = (upstream \/ (unit \in Active /\ state \in Dispatchable))
    /\ Go(Boot, IF unit \in Active /\ state \in {"offline", "error", "warming"}
                   /\ default # NoModel
                THEN "adopt" ELSE "return")
    /\ UNCHANGED <<record, world, stops, breaker, tail, lock, leg, cfg, seen, default, serving,
                   restarts>>

\* _promote_adopted_warming_loop: one poll of the unit and of /health.
PromoterPolls ==
    /\ pc[Promoter] = "polling"
    /\ \/ state # "warming" /\ Go(Promoter, "off")
       \/ state = "warming" /\ unit = "up" /\ Go(Promoter, "answered")
       \/ Go(Promoter, "off")  \* _ADOPTED_WARMING_POLL_MAX_S is over
    /\ UNCHANGED <<record, world, stops, breaker, tail, lock, leg, cfg, seen, default,
                   upstream, serving, restarts>>

\* Under the lock, if the slot is still WARMING: the route, then READY.
Promote ==
    /\ pc[Promoter] = "answered"
    /\ lock = Nobody
    /\ \/ /\ state # "warming"
          /\ Go(Promoter, "off")
          /\ UNCHANGED <<record, failures, tail, lock, upstream>>
       \/ /\ state = "warming"
          /\ lock' = Promoter
          /\ upstream' = TRUE
          /\ Stamp(Promoter, "ready", {})
          /\ Go(Promoter, "promoting")
    /\ UNCHANGED <<world, stops, cooling, leg, cfg, seen, default, serving, restarts>>

-----------------------------------------------------------------------------
(* The fail-watcher.  A strike stands for the consecutive probes that make *)
(* it: only the last of them matters to what follows.                      *)

\* 900 s in WARMING; a load leaves WARMING, or parks there, well before that.
WarmingStale == state = "warming" /\ unit \in Active /\ \A c \in Calls : pc[c] # "await_ready"

WatcherPolls ==
    /\ pc[Watchdog] = "sleep"
    /\ \/ state \notin Live /\ Go(Watchdog, "off")
       \/ state \in Dispatchable /\ unit = "silent" /\ Go(Watchdog, "strike_health")
       \/ state \in Dispatchable /\ unit = "hung" /\ serving = 0 /\ Go(Watchdog, "strike_stall")
       \/ state = "warming" /\ unit \notin Active /\ Go(Watchdog, "strike_warming")
       \/ state \in Dispatchable /\ unit \notin Active /\ Go(Watchdog, "strike_dead")
       \/ \E v \in Recoveries :  \* unload() then load(), in the watcher's own task
             /\ WarmingStale /\ pc[v] = "idle"
             /\ pc' = [pc EXCEPT ![Watchdog] = v, ![v] = "unload"]
    /\ UNCHANGED <<record, world, stops, breaker, tail, lock, leg, cfg, seen, default,
                   upstream, serving, restarts>>

\* Mutant: every declined stamp ends the watch.
EndWatch == Go(Watchdog, "off")

\* A stamp that was declined: only the stall branch of the loop goes on watching.
KeepOrEndWatch == Go(Watchdog, IF pc[Watchdog] = "strike_stall" THEN "sleep" ELSE "off")

\* _stamp_locked takes the lock and looks at the state again.
WatcherLocks ==
    /\ pc[Watchdog] \in Strikes /\ Runs(Watchdog)
    /\ lock = Nobody
    /\ \/ state \in Live /\ lock' = Watchdog /\ UNCHANGED pc
       \/ state \notin Live /\ KeepOrEndWatch /\ UNCHANGED lock
    /\ UNCHANGED <<record, world, stops, breaker, tail, leg, cfg, seen, default, upstream,
                   serving, restarts>>

\* Then it probes again; the answer alone decides.
StillFaulted ==
    CASE pc[Watchdog] = "strike_health" -> unit \notin {"up", "hung"}
      [] pc[Watchdog] = "strike_stall" -> unit = "hung" /\ serving = 0
      [] OTHER -> unit \notin Active

\* Mutant: the stamp does not wait for the load that holds the lock.
StampsUnlocked ==
    /\ pc[Watchdog] \in Strikes /\ Runs(Watchdog)
    /\ StillFaulted
    /\ Stamp(Watchdog, IF pc[Watchdog] = "strike_dead" THEN "offline" ELSE "error",
             IF pc[Watchdog] = "strike_stall" THEN {"stall"} ELSE {})
    /\ UNCHANGED <<world, stops, cooling, pc, lock, leg, cfg, seen, default, upstream, serving,
                   restarts>>

\* The stamp; the lock is released by its tail.
WatcherStamps ==
    /\ pc[Watchdog] \in Strikes /\ Runs(Watchdog)
    /\ lock = Watchdog
    /\ StillFaulted
    /\ Stamp(Watchdog, IF pc[Watchdog] = "strike_dead" THEN "offline" ELSE "error",
             IF pc[Watchdog] = "strike_stall" THEN {"stall"} ELSE {})
    /\ UNCHANGED <<world, stops, cooling, pc, lock, leg, cfg, seen, default, upstream, serving,
                   restarts>>

WatcherDeclines ==
    /\ pc[Watchdog] \in Strikes /\ Runs(Watchdog)
    /\ lock = Watchdog
    /\ ~StillFaulted
    /\ KeepOrEndWatch
    /\ Release(Watchdog)
    /\ UNCHANGED <<record, world, stops, breaker, tail, leg, cfg, seen, default, upstream,
                   serving, restarts>>

-----------------------------------------------------------------------------
(* serving().                                                              *)

\* _serving_lock is held through the transition that enter or exit makes.
ServingLockFree == \A r \in Requests : Runs(r)

EnterServing(r) ==
    /\ serving' = serving + 1
    /\ Go(r, "inference")
    /\ IF serving = 0 /\ state \in {"ready", "idle"}
       THEN Stamp(r, "serving", {})
       ELSE UNCHANGED <<record, failures, tail>>
    /\ UNCHANGED <<world, stops, cooling, lock, leg, cfg, seen, default, upstream, restarts>>

\* The readiness check and _serving_enter: one step unless the lock is taken.
RequestArrives(r) ==
    /\ r \in Requests /\ Starts(r)
    /\ upstream /\ state \in Dispatchable
    /\ \/ ServingLockFree /\ EnterServing(r)
       \/ /\ ~ServingLockFree
          /\ Go(r, "checked")
          /\ UNCHANGED <<record, world, stops, breaker, tail, lock, leg, cfg, seen, default,
                         upstream, serving, restarts>>

RequestEnters(r) == pc[r] = "checked" /\ ServingLockFree /\ EnterServing(r)

\* Mutant: the count is compared before it is lowered.
LeavesOneLate(r) ==
    /\ pc[r] = "inference" /\ ServingLockFree
    /\ serving' = serving - 1
    /\ Go(r, "done")
    /\ IF serving = 0 /\ state = "serving"
       THEN Stamp(r, "ready", {})
       ELSE UNCHANGED <<record, failures, tail>>
    /\ UNCHANGED <<world, stops, cooling, lock, leg, cfg, seen, default, upstream, restarts>>

\* _serving_exit: the last request out puts SERVING back to READY.
RequestLeaves(r) ==
    /\ pc[r] = "inference" /\ ServingLockFree
    /\ serving' = serving - 1
    /\ Go(r, "done")
    /\ IF serving = 1 /\ state = "serving"
       THEN Stamp(r, "ready", {})
       ELSE UNCHANGED <<record, failures, tail>>
    /\ UNCHANGED <<world, stops, cooling, lock, leg, cfg, seen, default, upstream, restarts>>

-----------------------------------------------------------------------------
(* The environment.                                                        *)

\* The model server comes up, or answers again.
UnitAnswers ==
    /\ unit \in {"silent", "hung"}
    /\ unit' = "up"
    /\ UNCHANGED <<record, runs, sane, faults, stops, breaker, tasks, default, upstream,
                   serving, restarts>>

UnitFault ==
    /\ faults > 0 /\ faults' = faults - 1
    /\ \/ "sick" \in Faults /\ unit = "up" /\ unit' = "silent"
       \/ "hang" \in Faults /\ unit = "up" /\ unit' = "hung"
       \/ "fail" \in Faults /\ unit \in Active /\ unit' = "failed"
       \/ "stop" \in Faults /\ unit \in Active \union {"failed"} /\ unit' = "stopped"
       \/ "revive" \in Faults /\ unit \in {"failed", "stopped"} /\ unit' = "silent"
    /\ UNCHANGED <<record, runs, sane, stops, breaker, tasks, default, upstream, serving,
                   restarts>>

\* The operator empties [model].default.
Unassign ==
    /\ "unassign" \in Faults
    /\ faults > 0 /\ faults' = faults - 1
    /\ default' = NoModel
    /\ UNCHANGED <<record, unit, runs, sane, stops, breaker, tasks, upstream, serving, restarts>>

\* The backoff of the last failure elapses.
CoolDown ==
    /\ cooling
    /\ cooling' = FALSE
    /\ UNCHANGED <<record, world, stops, failures, tasks, default, upstream, serving, restarts>>

Stopping == {c \in Calls : pc[c] \in {"reload_stop", "unload_stop", "reset_stop", "sanity_stop"}}

\* The API process dies and starts again: what is on disk and in systemd
\* stays, and a start or stop that systemd was doing may still be done.
ApiRestart ==
    /\ restarts > 0 /\ restarts' = restarts - 1
    /\ \/ UNCHANGED <<unit, runs, sane>>
       \/ \E c \in Calls : /\ pc[c] = "spawning"
                           /\ unit' = "silent" /\ runs' = Model(c) /\ sane' \in BOOLEAN
       \/ Stopping \union late # {} /\ unit' \in {"stopped", "gone"} /\ UNCHANGED <<runs, sane>>
    /\ pc' = [p \in Procs |->
                CASE p = Boot -> "boot"
                  [] p \in {Watchdog, Promoter} -> "off"
                  [] p \in Polls \/ (p \in Calls \union Requests /\ pc[p] = "idle") -> "idle"
                  [] p \in Calls /\ pc[p] \in Final -> pc[p]
                  [] OTHER -> "raised"]
    /\ tail' = [p \in Procs |-> None]
    /\ lock' = Nobody
    /\ late' = {} /\ overtaken' = {} /\ ended' = {}
    /\ failures' = 0 /\ cooling' = FALSE
    /\ upstream' = FALSE
    /\ serving' = 0
    /\ cfg' = [c \in Calls |-> NoModel] /\ seen' = [p \in Procs |-> Blank]
    /\ UNCHANGED <<record, faults, leg, default>>

CallStep(c) ==
    \/ CallLoad(c) \/ CallUnload(c) \/ CallRestart(c) \/ CallSwap(c) \/ SweepEvicts(c)
    \/ LoadAbandoned(c)

LockStep(c) == LoadBegin(c) \/ UnloadBegin(c) \/ ResetBegin(c)

LoadStep(c) ==
    \/ StallCheck(c) \/ DriftCheck(c) \/ Prepare(c) \/ Pulled(c) \/ Preflight(c)
    \/ Spawned(c) \/ SpawnRaises(c) \/ AwaitReady(c) \/ Persist(c)
    \/ CountFailure(c) \/ StampError(c) \/ Raise(c)

StopStep(c) ==
    \E how \in HowStopEnds :
        ReloadStopped(c, how) \/ SanityStopped(c, how) \/ UnloadStopped(c, how)
            \/ ResetStopped(c, how)

StatusStep(p) ==
    \/ ReadRecord(p) \/ Reconcile(p) \/ StampDead(p) \/ StampClean(p) \/ StampRemoved(p)
    \/ DropRoute(p) \/ Return(p)
    \/ AdoptCheck(p) \/ AdoptHealth(p) \/ AdoptStalled(p) \/ Adopted(p)

LateStep(c) == LateStopReturns(c) \/ LateStopRaises(c) \/ SlowStopEnds(c)

WatcherStep == WatcherPolls \/ WatcherLocks \/ WatcherStamps \/ WatcherDeclines
PromoterStep == PromoterPolls \/ Promote

Next ==
    \/ \E p \in Procs : Tail(p)
    \/ \E c \in Calls : CallStep(c) \/ LockStep(c) \/ LoadStep(c) \/ StopStep(c) \/ LateStep(c)
    \/ \E p \in Calls \union Polls \union {Boot} : StatusStep(p)
    \/ \E p \in Polls : Poll(p)
    \/ \E r \in Requests : RequestArrives(r) \/ RequestEnters(r) \/ RequestLeaves(r)
    \/ BootReconcile \/ WatcherStep \/ PromoterStep \/ SweepDemotes
    \/ UnitAnswers \/ UnitFault \/ Unassign \/ CoolDown \/ ApiRestart

Spec == Init /\ [][Next]_vars

\* The event loop runs every task that can run; asyncio.Lock is first come,
\* first served, hence strong fairness for what waits for it; the stop, the
\* readiness wait and every probe are bounded; status() is polled for ever.
Fairness ==
    /\ \A p \in Procs : WF_vars(Tail(p))
    /\ \A c \in Calls : SF_vars(LockStep(c)) /\ WF_vars(LoadStep(c)) /\ WF_vars(StopStep(c))
    /\ \A p \in Calls \union Polls \union {Boot} : WF_vars(StatusStep(p))
    /\ \A p \in Polls : WF_vars(Poll(p))
    /\ \A r \in Requests : SF_vars(RequestEnters(r)) /\ SF_vars(RequestLeaves(r))
    /\ WF_vars(BootReconcile) /\ WF_vars(WatcherPolls) /\ SF_vars(WatcherLocks)
    /\ WF_vars(WatcherStamps \/ WatcherDeclines)

LiveSpec == Spec /\ Fairness

-----------------------------------------------------------------------------
(* Properties.                                                             *)

\* Every variable keeps its type; in particular only a stop that still runs
\* can have been overtaken by a new unit.
TypeOK ==
    /\ state \in States
    /\ marks \subseteq {"sanity", "stall"} \union Calls
    /\ default \in Models \union {NoModel}
    /\ unit \in Units /\ runs \in Models \union {NoModel} /\ sane \in BOOLEAN
    /\ upstream \in BOOLEAN
    /\ lock \in Procs \union {Nobody}
    /\ pc \in [Procs -> Places \union Recoveries]
    /\ tail \in [Procs -> States \union {None}]
    /\ leg \in [Calls -> {"first", "last"}]
    /\ cfg \in [Calls -> Models \union {NoModel}]
    /\ seen \in [Procs -> [state : States, marks : SUBSET ({"sanity", "stall"} \union Calls)]]
    /\ late \subseteq Calls /\ overtaken \subseteq late /\ ended \subseteq Calls
    /\ failures \in Nat /\ cooling \in BOOLEAN
    /\ serving \in Nat
    /\ faults \in Nat /\ restarts \in Nat

\* Calls in these places have taken the lock and not given it back.
Locked == Places \ (Final \union {"idle", "load", "unload", "reset"})

\* Between taking the slot's lock and its return or exception, a load, unload,
\* restart, swap or recovery is the holder: no two of them are ever inside,
\* and no status(), cancellation or watcher frees the lock under one.
LockDiscipline == \A c \in Calls : pc[c] \in Locked => lock = c

AtRest == lock = Nobody /\ pc[Boot] = "idle" /\ \A p \in Procs : Runs(p)

\* With no lifecycle step under way, a slot that is READY, SERVING or IDLE over
\* an active unit has its upstream registered (load, the promotion poll and
\* the startup pass each register it; #732 is what happens otherwise).
ReadyIsRoutable == AtRest /\ state \in Dispatchable /\ unit \in Active => upstream

\* With no lifecycle step under way, a slot in a state of _FAIL_WATCH_LIVE_STATES
\* has a running _fail_watch_loop.
WatcherArmed == AtRest /\ state \in Live => pc[Watchdog] # "off"

InFlight == {r \in Requests : pc[r] = "inference"}

\* _serving_count is the number of requests between _serving_enter and
\* _serving_exit, whatever happens to the slot meanwhile.
ServingCounts == serving = Cardinality(InFlight)

\* A SERVING record means that a request is in flight, across unloads, adoptions
\* and ERROR stamps that happen during the requests (slot-lifecycle.mdx).
ServingIsBusy == state = "serving" /\ pc[Boot] = "idle" => InFlight # {}

\* A swap that returns with the slot READY has its own model in the unit, even
\* if a load ran between its unload and its load (SWAP ATOMICITY, #1791).
SwapDelivers ==
    [][\A c \in Swaps : pc[c] # "done" /\ pc'[c] = "done" /\ state = "ready" => runs = c]_vars

\* The model a swap made durable yields only to a newer swap, or to an operator
\* who unassigns it: an older swap that is still loading does not write it back.
SwapStands ==
    [][\A c \in Swaps : default = c /\ default' # c =>
           default' = NoModel \/ \E d \in Swaps : pc[d] = "idle" /\ pc'[d] # "idle"]_vars

\* Every lifecycle call returns or raises: no one waits for the lock for ever.
CallsEnd == \A c \in Calls : pc[c] # "idle" ~> pc[c] \in Final

\* A slot that advertises itself as dispatchable over a dead unit is found out,
\* by the watcher or by a status() poll, or comes back.
DeadIsNoticed ==
    state \in Dispatchable /\ unit \notin Active ~> ~(state \in Dispatchable /\ unit \notin Active)

\* What others see of a record: several states are one phase, and an UNLOADING that
\* nobody is stopping any more is what a broken-off unload left behind.
Phase ==
    CASE state = "offline" -> "down"
      [] state \in Inflight -> "starting"
      [] state \in Dispatchable -> "up"
      [] state = "unloading" /\ \E c \in Calls : pc[c] = "unload_stop" -> "stopping"
      [] OTHER -> "failed"

\* How far a status(), or the startup pass, is with the unit.
LookOf(place) ==
    CASE place \in {"probe", "boot"} -> "looking"
      [] place \in {"reason", "clean", "removed"} -> "dead"
      [] place \in {"adopt", "restall", "health"} -> "alive"
      [] OTHER -> "no"

Promise == INSTANCE SlotPromise WITH
    Tasks <- Procs, Revives <- "revive" \in Faults,
    holder <- lock, phase <- Phase, running <- unit \in Active,
    look <- [p \in Procs |-> LookOf(pc[p])]

\* The slot keeps its promise (SlotPromise): whatever loads, unloads, stops that come
\* late, recoveries, requests, polls and API restarts do to one record, its phase is moved
\* by the holder of the lock along its arrows or by a status() that saw the unit so, a unit
\* is started only under the lock, and OFFLINE after an unload, or after a slow stop,
\* means that no unit runs.
KeepsPromise == Promise!Spec

\* When _watch_slow_stop retires a provisional ERROR, the unit is really down:
\* a unit started since then is never relabelled OFFLINE.
SlowStopTruthful ==
    [][\A c \in ended : c \notin ended' /\ state # state' => unit \notin Active]_vars

=============================================================================
