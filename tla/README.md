# hal0 in TLA+

hal0 runs local inference on one box. A Python process (`hal0-api`, one asyncio
event loop) owns a set of *slots*; a slot is a model served by a container under
systemd. The API loads, unloads, restarts and swaps slots, watches their units,
adopts units it finds running, evicts idle ones, and forwards OpenAI-style requests
to them through a dispatcher. The same process also arbitrates the one GPU between
language models and ComfyUI, pulls models, and gates agent tool calls.

This directory models the part of that machinery where the order of steps matters:
the life of one slot, the memory and device classes that several slots share, the
switch of the GPU between language models and images, the two gates of the
dispatcher, the pulls of a model, and the runs that clients delegate to an agent. Paths below are relative
to `src/src/hal0/` unless they say otherwise.

## Inventory

| Component | State | Operations | Hard behaviour | What makes it correct |
|---|---|---|---|---|
| Slot manager (`slots/manager.py`, `slots/state.py`) | per slot: record (state, message, extra) in memory and `state.json`, lock, crash-loop counters, serving count, dispatcher route | `load`, `unload`, `restart`, `swap`, `status`, `terminate`, `serving`, `reconcile_container_upstreams` | everything suspends: in the event sink, in systemd calls, in probes; `status()` writes without the lock; a stop can outlive its budget and go on in a thread; the process can die anywhere | one call at a time inside; record, unit and route agree at rest; a failed sanity verdict stays; a swap delivers its model; calls end |
| Fail-watcher (`slots/watchdog.py`) | one task per live slot | `update`, `_fail_watch_loop`, `_stamp_locked`, WARMING recovery | decides before the lock and stamps after; its recovery can be cancelled by a `_transition` while it holds the lock | a live slot is watched; a stamp never clobbers a load |
| Idle reaper (`slots/reaper.py`) | last-used times | idle demotion and eviction, pressure eviction | its check is old when its unload gets the lock | no eviction of a busy slot |
| Admission gate (`dispatcher/admission.py`) | per slot: count, queue of tickets, cap | `acquire`, `release`, `configure` | grant races timeout; cap edits replace the gate; streams | conservation, bound, order, no lost wakeup |
| Single flight (`dispatcher/single_flight.py`) | map from key to shared Future | `do` | leader fails or is cancelled; follower is cancelled | one call at a time, everyone ends with its outcome |
| GPU arbiter (`slots/arbiter.py`) | mode, saved set and pin on disk; image jobs, leases, hand-off | `ensure_img`, `restore_llm`, `make_room_for_llm`, `image_job`, the restore loop | persist-before-unload, drain bound, rollback, restart mid-switch | LLM weights and renders never share the GPU; the saved set comes back |
| Pre-load eviction (`slots/preload_evict.py`) | reservations under an admission lock | `admit` | takes the admission lock inside a slot lock and unloads other slots | no circular wait, reservations released |
| Pull jobs (`registry/pull_jobs.py`, `registry/pull.py`) | jobs in memory, snapshots on disk | enqueue, cancel, delete, reconcile | check, several awaits, insert; restart with live snapshots | one download per model; snapshots end |
| Approval queue (`mcp/approval_queue.py`) | entries, dedup index, subscribers | enqueue, approve, deny, withdraw, prune | in memory only; a decision uses an entry up before it is carried out | what is pending is offered, and nothing else |
| Bridge run watcher (`bridge/watcher.py`, `bridge/service.py`, `bridge/store.py`) | a ledger row per run on disk; tail, delta buffer, timers, stop task in memory | the event loop of a run, `stop_run`, `answer_run`, decisions, `reattach` | replayed and unreplayable events, lost posts, failed writes, a restart anywhere | the output is exact; a waiting run has a row to answer; ended is ended; a run that is over ends in the ledger |
| Background gate (`api/background_gate.py`) | per slot foreground count and condition | `foreground`, `wait_background` | bounded waits, disconnects | nobody waits past the last foreground request or the bound |
| The rest | | | | listed with reasons in `PROJECT.json` |

Interactions. The dispatcher checks the slot's readiness, takes a unit of the
admission gate, enters `serving()` and forwards; a cold slot is lazily loaded through
`load()`. The watcher, the reaper, the arbiter and pre-load eviction all act on a
slot through the same `load`/`unload`, hence through its lock; `status()` callers
(the slot list, the metrics sampler, every lifecycle call at its end) do not take the
lock. The unit belongs to systemd and changes by itself. A chat that finds image mode
asks the arbiter for room and may load its slot; a load asks the fabric guard and the
pre-load eviction before it starts a unit, and the eviction unloads other slots. A
model's delete cancels its pulls and unloads its slots. The run watcher files an
agent's approval requests in the approval queue and carries the operator's decision
back.

## Modules

| Module | Models | |
|---|---|---|
| `SlotAdmission` | `SlotAdmission`, `AdmissionRegistry`, and the part of `Dispatcher.forward` that holds a unit | with `SlotAdmissionProofs` |
| `SingleFlight` | `SingleFlightGroup.do` | with `SingleFlightProofs` |
| `SlotLifecycle` | one slot of `SlotManager`, the watcher, the promotion poll, the idle sweep, abandoned stops, the startup pass, an API restart | implements `SlotPromise`; with `SlotLifecycleProofs` and `SlotOutcomeProofs` |
| `SlotHistory` | `SlotLifecycle` with two history variables, for what is claimed of loads and of sanity verdicts while `status()` writes without the lock | proved in `SlotLifecycleProofs` |
| `SlotPromise` | what a slot promises to the rest: who holds it, its phase, whether its unit runs, and how far each look at the unit is | |
| `LoadAdmission` | several slots: `_load` with the fabric-clock guard and `PreloadEvictor.admit`, `unload`, their locks and their memory | with `LoadAdmissionProofs` |
| `GpuArbiter` | `GpuArbiter`, ComfyUI's gate node, the chats, jobs, prompts and operators that drive it, an API restart | implements `GpuExclusion`; with `GpuArbiterProofs` |
| `GpuExclusion` | what the arbiter promises: one owner, and what is taken is promised back first | |
| `PullJobs` | the pulls of one model: routes, download with resume, install, delete, crash, shutdown, auto-resume | with `PullJobsProofs` |
| `RunWatcher` | one delegated run: `RunWatcher`, the approval queue, `stop_run`, `answer_run`, `reattach` | with `RunWatcherProofs` |
| `MC*` | the finite instances | |

### How a step is cut

All code runs on one event loop, so a step of a model is the code from one suspension
of a coroutine to the next. An `await` that cannot suspend (a lock nobody can hold
across a suspension, a coroutine without an `await` of its own) is no step boundary.
Work in the executor (the stop of a unit, a probe) ends in a step of its own.

### SlotAdmission

A gate is one `SlotAdmission` object; `configure` replaces it when the cap changed and
a request keeps the object that admitted it. `waiters[g]` with `Before` is the sorted
ticket list; `stamp` is the sequence number of the sort key. `expired` and `granted`
are the windows in which a timer or a `release()` has fired and the task has not run.
`Cancel` leaves `acquire`, which catches `TimeoutError` only, with the ticket where it
was.

### SingleFlight

One action per branch of `do`: `Lead`, `Follow`, the end of `fn` with a result, an
error or a cancellation, a follower's cancellation (which cancels the shared Future),
and `Receive`.

### SlotLifecycle

| Variable | Code |
|---|---|
| `state`, `marks` | the record: `SlotState`, and the three entries of `extra` that steer control: `output_sanity`, the stall mark, the `slow_stop` token (here the call that left it) |
| `unit`, `runs`, `sane` | what systemd and `/health` would answer, the model the unit was rendered with, and whether it talks sense |
| `upstream` | the slot's route in the upstream registry |
| `lock`, `pc`, `leg` | the slot's `asyncio.Lock`, where each task is, and whether a restart or swap still has its load to do |
| `tail` | a task inside `_transition`: the record is written, the watcher and the poll not yet updated |
| `cfg`, `seen` | locals that survive a suspension: the default model `_load` read, the record `status()` read |
| `late`, `overtaken`, `ended` | stops abandoned to the executor, those during which a new unit was started, those whose `_watch_slow_stop` waits for the lock |
| `failures`, `cooling` | the crash-loop breaker; `cooling` abstracts the backoff clock |
| `serving` | `_serving_count` |

A call is one member of `Loads`, `Unloads`, `Restarts`, `Swaps`, `Sweeps` or
`Recoveries` and runs once. Its places are named after the code: `drift`,
`reload_stop`, `prepare`, `pulling`, `preflight`, `spawning`, `await_ready`, `persist`
are `_load`; `unload_stop` is `unload`; `reset_stop` the first leg of a restart or swap
of a slot that is not live; `status`, `probe`, `reason`, `clean`, `removed`, `adopt`,
`restall`, `health` are `status()` and `_maybe_adopt_running_slot`.

Abstractions, in the direction of more behaviour: `_transition` may suspend after every
write (in the code only if an event is emitted); the watcher's consecutive probes are
one strike; the 900 s of a stale WARMING and the poll's limit may elapse whenever the
code could be waiting; a pull, a pre-flight check or a spawn may fail at will. In the
direction of less: one slot, so pre-load eviction is only a possible failure; a second
restart or swap by the same caller is a second member of the set.

`KeepsPromise` is the refinement of `SlotPromise`: with `holder <- lock`,
`phase <- Phase` (pulling, starting and warming are "starting"; ready, serving and idle
are "up"; UNLOADING is "stopping" while a call is at its stop, and "failed" once that call
is gone), `running <- unit \in Active` and `look <- LookOf(pc)` (how far a `status()` is
with the unit: not decided, found it dead, found it alive), every step is a step of the
abstract slot or a stutter, with polls, API restarts, revived units and every other fault.
So the phase is moved by the holder of the lock along the arrows of `SlotPromise`, or by a
`status()`, which takes no lock: it writes at most once per look, calls the slot down or
failed only if it found the unit dead, and up only while the unit runs. A unit is started
only by the holder, unless it revives by itself, and the OFFLINE that ends an unload or a
slow stop means that no unit runs.

`SlotHistory` adds `disturbed` (a poll or the startup pass wrote the record since the lock
last changed hands) and `overrun` (the last verdict fell while an adoption was already past
its check of the marks). No step reads them. With them, `NoIllegalLoad` and
`VerdictSticks` can be stated for the system as it runs, polls and restarts included, and
name exactly the two things that break the claims of the code: see below.

### LoadAdmission

`SlotLifecycle` has one slot and all its states; here are several, each with the
states the others look at. `lock`, `fabric` and `admission` are the three kinds of
asyncio lock, `pending` and `reserved` the two tables a load enters
(`_fabric_pending`, `_preload_reserved_mb`), `held` the memory that units really hold,
`plan` what is left of `select_eviction_order`'s result. A load goes through the
guard, `admit`'s reservation, the evictions (each an `unload` under the victim's
lock), the spawn, the wait, and `admit`'s `finally`. The estimate of a model's size is
taken as exact, and `late` marks a unit that its admission does not cover: one that grew
after its load gave up, or one admitted without a look at the memory (`AdmitOpen`, the
fail-open exits of `preload_evict.py:446-459`: no size known, or the feature off).

`probed` is what was in memory at `admit`'s last reading of `free_mb`. The candidates are
gathered after it, one slot at a time (`Gather`, into `eligible`), and the plan is made
from the reading, however old it is by then (`PlanEvictions`). `SelectEvictionOrder` is
the code's loop, a fold over the ranked candidates.

### GpuArbiter and GpuExclusion

`mode`, `saved` and `pinned` are `gpu_arbiter.json`; `lock`, `step` and `todo` say who
holds the switch lock and how far `ensure_img` or `restore_llm` is; `quiet`, `handoff`,
`demand` and `lease` are in memory and vanish in a restart. `owed`, `hurried`,
`healing` and `promised` are history. `Exclusion` is the refinement: with
`owner <- mode`, `promised <- saved`, `away <- owed`, every step of the arbiter, its
three rollbacks and a restart in the middle of a switch included, is a step of
`GpuExclusion` or a stutter. So a slot is only taken after it was written down, and
the LLM group gets the GPU back only when a load has been tried for everything taken.

### PullJobs

A job is named after the call that makes it. `jobs`, `state`, `cancel`, `fresh` and
`deleting` are in memory; `snap`, `row`, `part`, `sidecar` and `final` are on disk. A
file is a sequence of chunks, each of one version of the upstream object, so that "a
whole file" and "a prefix of another object" are told apart; a file keeps its name
when a second worker reopens its path, as an inode does. `Status` is what `status()`
answers: the job, or the reconciled snapshot. `lfs` says whether the upstream advertises
the file's SHA-256: only then is the download verified. Without it, what protects a resumed
prefix is the etag in the sidecar, sent as `If-Range`. Between the installation and the
registration stand the projector, the drafter and the sidecars (the extras), each of which
may fail or be cancelled. `overlap`, `raced` and `guessed` are history: two jobs of the
model were active at once, a job was made while a delete was under way, a prefix was
continued with neither a checksum nor an etag. Versions of the object only grow: an
upstream that goes back to an earlier object is not modelled.

### RunWatcher

`log`, `asking` and `hermes` are Hermes, which is external: it numbers its events,
waits on at most one request, and replays what comes after `Last-Event-ID` unless the
run is over. `row` is the ledger's row, `inbox` and `dedup` the queue, `tail`, `pos`,
`wpc` the watcher, `timer`, `fired` and `stopper` the clarify deadline and the stop it
leads to. `OutputExact` says that the row's output lists the text events up to its last
event, each once and in order. A section under the run's lock that makes one transaction is one action; the
filing of an approval and the end of a run make several, and hold `lock` meanwhile. A
delta is its sequence number; the output is the sequence of the deltas in it. `queued`
is not told apart from `running`.

Every access to the ledger can fail (the fault `ledger`), with what the code does then: a
retry, a log line, or the end of the task. Two histories name what such a failure leaves
behind: `orphans`, the entries in the inbox whose id could not be stored in the row
(`bridge/watcher.py:861`), and `dropped`, the requests that nobody will file or time out
again (`:861`, `:896`, `:996`). A restart clears both, since `attach` files what the row has
pending and arms its timer. A stop of a run that is over is refused or answered with the
run's status, as Hermes likes. Simplified: a read that fails at the start of `_finish` is
not told apart from its write failing, and a flush that fails at the end of a long silent
stream is always retried.

## Runs

Passing:

| Run | Instance | Shows |
|---|---|---|
| `admission` | 4 requests (one decision call, one stream, one cancellable), caps 1, 2 or none, 2 gates | the count is the number of owners, never above the cap; tickets queue only while the gate is full; order; a grant that beats the timeout stands; every ticket settles unless a queued task was cancelled |
| `single_flight` | callers that may be cancelled at any moment | the map holds just the running fetch (so there is one at a time), shared outcome, everyone ends |
| `lifecycle_swap` | a lazy load, a swap whose stop may be slow, the idle sweep, two interchangeable requests, one death, hang or stop of the unit | SERVING means that a request is in flight, whatever is stamped during the requests; a live slot is watched; a swap that returns READY runs its own model though others win the lock between its legs |
| `lifecycle_polls` | a restart whose stop may be slow, a recovery of the watcher whose stop may fail, polls, a unit that sickens, is stopped or revives, a model taken away, one API restart at any moment | a load trips over its own state machine only if a poll wrote under it or it began on UNLOADING; a failed sanity verdict is retired only by a load that passed the gate, or by an adoption that was under way when it fell; the slot implements `SlotPromise` |
| `lifecycle_live` | an unload, a swap, polls, one stop of the unit, one API restart at any moment | under fairness every call ends, and a dispatchable record over a dead unit is found out; after the startup pass a READY slot over a live unit has its route |
| `arbiter` | two LLM slots, a chat, an image job, an editor prompt, an operator's unforced switch back, one of eleven faults, one API restart | the arbiter implements `GpuExclusion`; between switches image mode stands with its saved set off the GPU; no automatic restore frees the models under a render; a request that a restore woke is not refused by a queued switch; the drain sees every request |
| `arbiter_live` | one slot, a chat, a job, a pinned switchover, a pin, one fault, one restart | image mode ends or a pin holds it; every chat is answered |
| `preload` | a GPU, an NPU and a CPU slot that do not fit together, three loads, an unload, two faults | committed memory stays within capacity less headroom; no reservation outlives its load; a victim is taken down, or a load refused, only when memory is short, but for what was given back since the last reading |
| `pulls` | two pulls, a call that deletes, cancels or clears, one fault, a replaced object, a crash or shutdown with its resume | what `status()` shows as running is being run and ends, what is registered is a whole file if a checksum or an etag vouched for each resumed prefix, a deleted model does not come back |
| `bridge` | a decision, a stop or an answer, two events of Hermes beside its reactions, one fault or restart at any moment | the ledger's output is exact; the inbox offers what is pending and nothing else, and an unanswered question ends, but for the entries and requests that a failed ledger access left behind (`orphans`, `dropped`); a terminal row stays; hal0's own stop arrives; a run that is over ends in the ledger |

In `GpuArbiter`, `LoadAdmission`, `PullJobs` and `RunWatcher` the invariant `Safety` is
the type invariant with the module's main state invariant (`SavedOff`,
`ReservationsOwned`, `RegisteredIsWhole`, `OutputExact`). The type invariants of the
other three modules, `LockDiscipline`, `ServingCounts`, `SlowStopTruthful` (which the
`Retire` of `SlotPromise` repeats) and `OneCallPerKey` (a
consequence of `MapHoldsTheRunningFlight`) are proved for every instance, and no run
repeats them.

Violations (each with a finding in `PROJECT.json`):

| Run | Shows |
|---|---|
| `preload_deadlock` | a load that has come up waits for the admission lock under its slot's lock, while the holder of the admission lock waits for that slot's lock to evict it |
| `pulls_twice` | two pulls of one model pass the in-flight check, share the staging file, and the first installs what the second has just begun |

### Bounds

Every instance has the fewest actors with which its question can go wrong: two calls
contend for a lock, a third is what runs between the two legs of a swap; two requests
are what makes "last one out" differ from "one out"; two slots are what a switch can
take one of and fail on the other; three slots and three loads are what makes an
eviction plan longer than one and a victim that is loading itself; two pulls overlap,
and one of them displaces the other; two events are what a request supersedes another
with, or text precedes a request with. A fault budget of one or two lets something
fail before and after the step under test; the kinds of fault are chosen per run, and
together the runs use all of them. Every call runs once and every budget only shrinks,
so no further bound is needed. Symmetry is used only in `lifecycle_swap`, for
requests, which nothing tells apart, and in no run with a liveness property. All
instances but the first two may come to rest when every call has been made, hence
`CHECK_DEADLOCK FALSE`; that nothing rests *early* is what the liveness properties
say.

### Fairness

* The event loop runs every runnable task: weak fairness for the continuation of a
  task, `Tail` included.
* `asyncio.Lock` is first come, first served: strong fairness for a step that takes
  the slot's lock or `_serving_lock`.
* A stop is bounded by `terminate()`'s budget, readiness by `_await_ready`'s, every
  probe by its timeout, `fetch_models` and the forward by their HTTP timeouts: weak
  fairness for the step that ends them. The arbiter's waits, grace and hand-off are
  timers of its own; ComfyUI ends its renders.
* `status()` is called for ever (the metrics sampler and the slot list).
* A download's worker goes on until it ends (`PullJobs`); a load goes on unless it
  waits for a lock (`LoadAdmission`, where the violation is that it waits for ever).
* In `RunWatcher` the watcher, the timers, the stop task, `reattach` and a call under
  way go on. Nothing is assumed of Hermes: `RunSettles` starts when the run is over
  there, and faults are bounded, so a retry succeeds in the end.

Nothing is assumed of timeouts that race an answer, cancellations, faults, operators,
new requests, or an abandoned stop.

## Proofs

Every proof module goes from an inductive invariant with a lemma per action or group of
actions; the last step of each theorem is temporal logic only. Each invariant was checked
with TLC on small instances before it was proved.

`SlotAdmissionProofs`, for every finite set of requests and every set of caps and
gates: `TypeCorrect`, `Conservation` (`GateConserved`), `Bounded` (`GateBounded`),
`NoLostWakeup` (`QueueOnlyWhenFull`), `Ordered` (`PriorityOrder`), `GrantBeatsTimeout`
(`GrantStands`). The count cannot be inductive alone: `QueueInv` says where a request
with a queued ticket can be (so that a grant goes to someone who owned nothing),
`FreshInv` that a gate not yet created is empty. That nobody is admitted past a queue
follows from the queue being there only while the gate is full. Cardinalities come from
`FiniteSetTheorems`.

`SlotLifecycleProofs`, for every set of calls, polls and requests, every fault and any
number of API restarts:

* `TypesKept`: the types. They split into four parts (tasks, record, locals, world)
  that a step disturbs separately; that `serving` stays a natural number needs the
  serving count.
* `LockHeld` (`LockDiscipline`): a call between taking the lock and leaving it is the
  holder. Four lemmas carry it (the holder moves, an outsider moves, someone who is
  not a call moves, the end of a `_transition` with its cancelled recoveries).
* `CountExact` (`ServingCounts`): the count is the number of requests in flight.
* `ServingBusy` (`ServingIsBusy`), while the API process is not restarted
  (`MaxRestarts = 0`): only a request writes SERVING, and the last one out removes it.
  With a restart the property is false, see below.
* `RetiredTruthfully` (`SlowStopTruthful`), from `ITokens`: a token marks an ERROR during
  whose stop no unit was started, and whose unit is gone once that stop has returned
  (`TokenTrue`); a load about to start a unit has cleared every token (`TokenCleared`);
  a call leaves its token before anything of it was abandoned (`TokenFresh`).
* `LoadsAreLegal` (`NoIllegalLoad`), of `SlotHistory`. `IPath`: unless `disturbed`, the
  call that holds the lock finds, at each of its transitions, one of the states from which
  that transition is legal; UNLOADING stays among them only where `load()` began on it.
* `VerdictStands` (`VerdictSticks`), of `SlotHistory`. `IVerdict`: a condemned slot is not
  dispatchable; unless `overrun`, nobody is past the check of the marks with READY still
  to come, and a promotion poll that is left is ended by the very `_transition` that
  condemns the slot, before the lock is free.

`SlotOutcomeProofs`, about how calls leave the slot. `PromiseKept` holds for every
instance. The other two hold for the actors and faults of their theorem and not for all, and
each names what it needs in terms of the constants; for every kind of actor and fault that
one excludes TLC has a behaviour of the model that breaks the property with it.

* `SwapDelivered` (`SwapDelivers`), for one swap (of two, the older may win) whose model
  the TOML takes and keeps, while dead units stay dead; with any other calls, polls, stops
  and API restarts. `ISwap`: from where the swap's second leg has the lock, the unit has
  its model, or is dead and the `status()` that ends the swap will find that out
  (`Delivered`).
* `RoutesKept` (`ReadyIsRoutable`), where every stop returns in time and dead units stay
  dead. While the API process lives, an active unit has its route (`Routed`), since only a
  spawn starts a unit and only a stop that took it down drops the route (`IPrompt`: no
  token of a slow stop exists). A restart takes every route; `Restored` follows
  the startup pass, and says what is left after it: a slot without a route is not
  dispatchable and will not be made so, since its record is not one that `status()` adopts
  and every call stops the unit first (`Unrouted`). That needs instances without a `load()`
  that meets an interrupted record, without stalled units and with a model (`Restartable`).
* `PromiseKept` (`KeepsPromise`), for every set of calls, polls and requests, every fault
  and any number of restarts. From `LockDiscipline` (who writes as the holder is the
  holder, and UNLOADING is left by the unload that wrote it), `ITokens` (an ERROR that is
  retired has no unit) and `ILoops` (the watcher and the promotion poll never are where a
  `status()` looks). Lemmas for each kind of step (`Stays`, `Hidden`, `Takes`, `Leaves`,
  `Moves`, `Falls`, `Rises`, `Looks`, `Finds`, `Reports`) map it to the abstract one.

`SingleFlightProofs`, for every set of callers: `FlightTypes` (`TypeOK`), `OneCall`
(`OneCallPerKey`), `MapIsCurrent` (`MapHoldsTheRunningFlight`), `OutcomeShared`
(`SharedOutcome`). The invariant says whose Future each caller joined (`Joined`), what
a Future holds at each place of its leader (`FuturesHold`), and what a caller that has
returned got from it (`Received`).

`GpuArbiterProofs`, for every set of slots, chats, jobs, prompts and operators, every
fault and any number of API restarts: `SavedSetOff` (`Safety`), `NoRenderCut`
(`RenderNotCut`), `ServedFirst` (`ServedNotRefused`), `DrainedBeforeUnload`
(`NoUnloadUnderRequest`) and `Refinement` (`Exclusion`), that is all that the two
arbiter runs check but liveness. One invariant carries them, `Inductive`; its parts are

* `Stages`: the mode that each step of an operation implies, and that what it has left
  to do is part of the persisted set;
* `Owing`: what was taken is recorded and down, and a reload or a rollback still has it
  on its list. This and `Stages` are what the refinement needs: the recorded owner
  changes back only when nothing is owed;
* `Emptied`: after a drain that did not give up no request uses a saved slot, and a slot
  that the unload loop has passed is off the GPU *and nobody is about to load it* on the
  strength of a guard that it passed in LLM mode. Without the second half a chat that
  decided before the switch loads a saved slot after it;
* `Served`: a request promised room is woken or holds a lease, and no snapshot of a
  switch is taken until it has dispatched;
* `Unhurt`: when a restore could begin, a prompt on its way has its hand-off open, so a
  restore that read an empty queue frees the models with nothing coming.

`LoadAdmissionProofs`, for every finite set of slots of any sizes and every set of loads
and unloads:

* `ReservationsSafe` (`Safety`, that is `ReservationsOwned` and who holds the two global
  locks). An entry has an owner only as long as nobody else can free that owner's slot
  lock, so the invariant adds what each call holds: a load its own slot's lock
  (`LoadsLock`), an evicting load also its victim's, which is not its own
  (`VictimsLock`).
* `MemoryBounded` (`NoOvercommit`): what units hold and what is reserved leave the
  headroom free. A load past its admission has its reservation, and a unit that starts
  has such a load (`Covered`), so a step enlarges the committed set only by an admission
  that has just measured it. The measure is a sum over a set of slots, a recursive
  function; that it is monotone and splits over unions is proved first. No theorem of
  the library with an operator parameter is needed for that: two functions that add up
  and differ would differ at a set of which no proper subset is one
  (`SmallestSet`, from the well-foundedness of strict inclusion), and that set yields the
  contradiction.
* `EvictionsNeeded` (`EvictsOnlyWhenShort`): from `ReadShort`, that from its first probe
  on, the last reading of the load that holds the admission lock was short, since a good
  one ends the evictions at once and nobody else reserves or releases in the meantime. If
  all that was read then is still held, there is no more memory now than was read
  (`StaysShort`, from the monotony of the sum), whatever came up besides.

`PullJobsProofs`, for every set of pulls, resumes, cancels, clears and deletes, files of
any length, and any number of upstream versions, faults and restarts:

* `ShownAlive` (`ShownIsAlive`) and `DeletedStays` (`DeletedStaysDeleted`), from an
  invariant `Inv` that leaves the files out: it relates a job's state to its worker's
  place (`Workers`), the map and the snapshot to the jobs (`Mapped`), and says that a job
  that was running at a delete is older than the deletion mark for good (`Outdated`).
* `RegisteredWhole` (`Safety`), from `Inv` and an invariant on the files, `FInv`. No file
  is named after a job that has not opened one (`Named`). Where no two jobs overlapped
  and none was made under a delete: a delete past its wait has no active job beside it,
  and no registered row until its files are gone (`Stopped`); the worker that streams
  writes the staging file, which is not the installed one, and what its hash covered is
  of one version, the resumed prefix included (`Staged`); the installed file is whole,
  and there if the row says so (`Kept`). All this only where no prefix was continued with
  nothing to vouch for it (`~guessed`). For a file without a checksum a second invariant,
  `KInv`, takes the place of the comparison: what the etag of a sidecar names, while the
  upstream still serves it, is what the partial holds up to the sidecar's length, and the
  same of what a worker asks for, hashes and streams (`Known`). That a sidecar's length is one of the file's
  needs the maximum of a bounded set of naturals, again by a least element.

  The proof made the property stronger than what the run used to check (the file of a
  *completed* pull): it now holds of every registered model, deletes included. What
  stands in the way of dropping `raced` is the second delete described below.

`RunWatcherProofs`, for any number of events, decisions, stops, answers, faults and
restarts: `OutputIsExact` (`Safety`), `OffersAreCurrent` (`RowIsCurrent`), `EndedForGood`
(`TerminalSticks`), from one invariant, `Inductive`:

* the output: the watcher's copy of the row is the row; its buffer is the run of text
  events right after the row's last one; the stream has not run ahead of the buffer
  unless Hermes has nothing left to send (`TailOK`). So a replay after a reconnect is
  recognised, a failed flush keeps the buffer, and a flush extends the output by exactly
  the events between (`Stored`);
* the offers: at most one entry is pending, it is the one in the dedup map, and it is the
  row's, being filed for the row, about to be withdrawn, or an orphan, whose id could not
  be stored (`Excused`); the row moves on only when its entry is being withdrawn or is an
  orphan (`Offered`). A decision under way has used its entry up
  and no other decision is about the same request (`Decided`), so a refiled entry is
  again the only one;
* the end: the watcher writes its events without a look at the status they overwrite;
  what protects a terminal row is that no watcher is left, across reattach (`Ended`).

The assumptions are the named `ASSUME`s of the modules: sets of requests, calls and slots
are finite where they are counted or summed over, the kinds of task (chats, image work,
operators, restores) are disjoint, the "nobody" values are not tasks, the
slot's other marks are not tokens of calls, a call is not one of the places or values
that stand beside it, a swap is no other kind of call, the bounds are natural numbers.

Only model-checked: liveness (`EveryTicketSettles`, `EveryCallEnds`, `CallsEnd`,
`DeadIsNoticed`, `ImageModeEnds`, `ChatsAnswered`, `StatusSettles`, `RowToAnswer`,
`QuestionEnds`, `StopDelivered`, `RunSettles`), which is out of the prover's reach, and
`WatcherArmed`, which is a statement about the instance of `lifecycle_swap`: polls, API
restarts and units that fall silent each break it, see below. Every other invariant, action
property and refinement that a passing run checks is also a theorem; `ServingBusy`,
`SwapDelivered` and `RoutesKept` for fewer actors than the model has, as said above. The
liveness properties of `bridge` are checked with one fault in all.

## Disagreements met and not kept as runs

Where a property speaks of what the code breaks, it names the case as an exception; the
rest are outside the instance of their run or outside what is claimed.

* A task cancelled in `acquire` leaves its ticket queued, and the unit it is granted
  later is lost (`dispatcher/admission.py:113`). `GateConserved` counts such a request as an
  owner: it says that the count is right, not that a cancelled task's unit comes back.
* A cap edit replaces the gate by an empty one while the old one's requests run
  (`dispatcher/admission.py:162`, against `:153`).
* Cancelling a follower cancels the Future it shares (`dispatcher/single_flight.py:78`,
  against `:44`).
* After an API restart a READY slot gets its route back and no watcher
  (`slots/manager.py:699`).
* UNLOADING left on disk by a dead API makes the next load raise
  `IllegalSlotTransition` (`slots/manager.py:730`, `:2023`).
* The idle sweep unloads under a request that arrived while it queued for the lock
  (`slots/reaper.py:432`, against `:413`).
* A restart is refused by the breaker if a load fails between its reset and its own
  load (`slots/manager.py:2450`).
* The breaker guards loads that find ERROR or a half-finished load, and no others: after
  an unload, or a `status()` that found the unit stopped cleanly, the record is OFFLINE
  with the count and the backoff intact, and the next lazy load starts the unit at once
  (`slots/manager.py:2014`, `:2042`; `src/docs/reference/slot-lifecycle.mdx:149` speaks of
  "further `load()` calls" and names a manual load, a restart and a config edit as what
  resets it). No property is stated of the breaker: of the loads it does guard it would
  repeat the guard.
* SERVING survives an API restart with no request in flight
  (`src/docs/reference/slot-lifecycle.mdx:22`).
* A `status()` that adopts during a load can make the load's WARMING illegal (`disturbed`,
  the exception of `NoIllegalLoad`), and one that adopts READY registers no route (`slots/manager.py:5062`).
* A streamed answer gives its unit back when the headers are out, so a cap of one does
  not serialise the backend (`dispatcher/admission.py:15`, against
  `dispatcher/router.py:1127`).
* A `status()` suspended in its `/health` probe stamps READY over a sanity verdict given
  meanwhile (`slots/manager.py:5062`, against `:1494` "Adoption can never clear it by
  accident" and `src/docs/reference/slot-lifecycle.mdx:119`). It is the exception
  `overrun` of `VerdictSticks`; every `status()` and startup pass that looks at the marks
  after the verdict leaves it alone.
* A watcher whose stamp is declined ends, and leaves a READY slot unwatched
  (`slots/watchdog.py:413`, against `:260`).
* An abandoned stop that returns late takes the route of the new unit
  (`slots/manager.py:3375`, against `:3369`).
* Of two swaps, the older one writes its model back over the newer one
  (`slots/manager.py:2218`, against `:2490`). A TOML that cannot be written makes a swap
  return with the old model; the code concedes it (`slots/manager.py:2517`).
* A slot that was cold at the switch can be loaded beside image mode by a chat that
  passed its guard before it (`LlmOffGpu`; `api/routes/v1.py:845`).
* After a restart in the middle of a switch the gate lets a prompt render beside saved
  slots that are still loaded (`RendersAlone`; `slots/arbiter.py:1134`).
* The fabric guard's `list()` can miss a slot that comes up while it reads
  (`FabricExclusive`; `slots/manager.py:3216`), and a load that gives up waiting releases
  its reservation while its unit still grows (`slots/manager.py:2205`).
* After a crash during a re-pull, the old row and file make the interrupted pull read
  "completed" (`registry/pull_jobs.py:139`). A displaced job that starts after a delete
  gets a new `started_at` and may register the model again (`registry/pull.py:579`). The
  second snapshot of `run_pull_with_events` comes after an await and can bring a cleared
  job's back.
* A file without an LFS checksum is not verified (`registry/pull.py:1153`), and a
  connection that breaks before it answered leaves a sidecar without an etag (`:1212`). The
  next retry has neither to go by and may stitch two objects together, although "any doubt
  about the prefix (size mismatch, changed object, server ignoring the Range) triggers a
  clean full restart" (`:784-786`). It is the
  exception `guessed` of `RegisteredIsWhole`.
* An eviction is planned from a `free_mb` older than the awaits of `_gather_candidates`
  (`slots/preload_evict.py:467`, used at `:473`): what an operator's unload or a late stop
  gave back meanwhile still costs a victim. It is the exception of `EvictsOnlyWhenShort`.
* Of two concurrent deletes of one model, the first to end lifts the deleting mark
  (`_DELETING` is a set) while the other is still in its cascade: a pull made then
  registers the model, and the second delete removes its files under the row
  (`services/models_service.py:946`, against `registry/pull.py:579` "A model delete marks
  the id as 'deleting' for its whole cascade"). With two deletes TLC finds it at depth
  16 when `raced` is left out of `RegisteredIsWhole`.
* A ledger write that fails in the flush of `_follow`'s exception handlers is outside
  its `try`: the watcher's task dies and the run is unwatched until a restart
  (`bridge/watcher.py:486`, `:496`, against `:455` "Only a failure to record the end of a
  watch gets here (_follow retries everything else)"). With `MaxFaults = 2` and the
  faults `stream` and `ledger`, TLC reaches `wpc = "dead"` in six states.
* If the approval id cannot be stored after the entry was filed, nothing can withdraw
  the entry, an ended run still holds it, and it swallows the run's next request
  (`bridge/watcher.py:861`, against `:767`, "a run they see as ended must not still hold a
  pending approval"): the exception `orphans` of `RowIsCurrent`, and `dropped` of
  `RowToAnswer`. A decision that fails to read the ledger uses its entry up and nobody
  files it again (`:896`, against `:36` "the operator must always have a row to answer"):
  `dropped`. A decision that is cancelled while it waits for the run's lock does the same
  and is not modelled.
* If the write of `_clarify_deadline` fails, the exception ends the timer's task with
  `clarify_timer` already None: nothing arms it again until a restart, and the question
  waits (`bridge/watcher.py:996`): the exception `dropped` of `QuestionEnds`.
* A re-attach slower than `BRIDGE_REATTACH_WAIT_S` works from the row it read first, and
  files the request of a run that `stop_run` has cleared meanwhile
  (`bridge/service.py:1081`).

## Not modelled

`PROJECT.json` lists every part with its reason. Of the parts that are modelled, a
cancellation of a lifecycle call from outside is not: a `CancelledError` passes the
`except Exception` of `slots/manager.py:2250`. In short: installers, provisioning,
the updater and the providers are subprocesses, unit files and file moves whose order
is fixed by one sequential caller; the CLI, the UI, health reports and most routes
decode and render; route resolution, port allocation and configuration validation are
searches and checks without state of their own; memory, brain, tool loop and realtime
sessions are conversations with external services. `BackgroundGate`, the slot
configuration's change sets, file locks and blob refcounts have state worth a module
and are not done.

## Plan

1. `BackgroundGate`: bounded waits behind foreground requests; small enough to prove.
2. `SlotPromise` as the slot that `LoadAdmission` and `GpuArbiter` use, in place of the
   slot states each of them has.
3. Later, if the code still warrants it: the slot configuration's change sets, file
   locks, blob refcounts, the updater's stages.

The list of runs is kept short: new questions replace weaker ones.
