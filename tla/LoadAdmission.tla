--------------------------- MODULE LoadAdmission ---------------------------
(***************************************************************************)
(* What a load asks of the other slots before it starts a unit             *)
(* (slots/manager.py _load, from its lock to its return): the fabric-clock *)
(* guard between GPU and NPU slots (_guard_fabric_clock) and the pre-load  *)
(* eviction (slots/preload_evict.py admit), with the memory both are       *)
(* about. SlotLifecycle has one slot and all of its states; here there are *)
(* several, each with the states that the others look at.                  *)
(*                                                                         *)
(* One event loop: an action is the code between two awaits. Three kinds   *)
(* of asyncio lock: one per slot, the fabric lock, the admission lock.     *)
(***************************************************************************)
EXTENDS Integers, Sequences, FiniteSetsExt, SequencesExt

CONSTANTS
    Slots, Npu, Gpu,      \* the slots, and those on the NPU and on the iGPU
    Pinned,               \* never evicted
    Size,                 \* memory of each slot's model; an estimate, if there is one, is exact
    Rank,                 \* eviction order: priority, then least recently used
    Resident,             \* READY when the model starts
    Capacity, Headroom,
    Loads, Unloads,       \* load() and the operator's unload() calls
    Of,                   \* the slot of each call
    Faults, MaxFaults,    \* "registry", "spawn", "park", "stop" and "drift"
    Nobody

Calls == Loads \cup Unloads
SizeOf(S) == MapThenSumSet(LAMBDA s : Size[s], S)

ASSUME AdmissionConstants ==
    /\ IsFiniteSet(Slots)
    /\ Npu \subseteq Slots /\ Gpu \subseteq Slots /\ Npu \cap Gpu = {}
    /\ Pinned \subseteq Slots /\ Resident \subseteq Slots
    /\ Size \in [Slots -> Nat \ {0}] /\ Rank \in [Slots -> Nat]
    /\ \A s, t \in Slots : Rank[s] = Rank[t] => s = t
    /\ Capacity \in Nat /\ Headroom \in Nat
    /\ SizeOf(Resident) + Headroom <= Capacity
    /\ Of \in [Calls -> Slots] /\ Loads \cap Unloads = {} /\ Nobody \notin Calls
    /\ Faults \subseteq {"registry", "spawn", "park", "stop", "drift"} /\ MaxFaults \in Nat

VARIABLES
    slot,         \* "off" | "starting" | "ready" | "parked" (left WARMING) | "stop" |
                  \* "error" | "slow" (ERROR, its stop still running)
    held,         \* the slots whose unit holds its memory
    lock,         \* the call that holds each slot's lock
    fabric,       \* _fabric_admission_lock
    pending,      \* _fabric_pending
    admission,    \* _admission_lock
    reserved,     \* _preload_reserved_mb, by slot
    clock,        \* the clock is held (or unreadable, or the policy only warns)
    late,         \* slots whose unit grows outside any reservation
    seen,         \* the opposite slots that the guard's list() found live
    probed,       \* the units in memory at admit's last probe: its free_mb, see FreeMb
    eligible,     \* the candidates gathered so far
    plan,         \* the victims the admission still has to unload
    pc, faults

locks == <<lock, fabric, admission>>
snapshot == <<probed, eligible, plan>>
vars == <<slot, held, locks, pending, reserved, clock, late, seen, snapshot, pc, faults>>

-----------------------------------------------------------------------------
\* _probe_host_free_mb with these units in memory, less what other loads have
\* reserved: the probe does not know of them, and they change only under the
\* admission lock.
FreeMb(s, units) == Capacity - SizeOf(units) - SizeOf(reserved \ {s})
Target(s) == Size[s] + Headroom
Fits(s) == FreeMb(s, held) >= Target(s)

\* The other device class, and the states in which a slot occupies it.
Opposite(s) == CASE s \in Npu -> Gpu [] s \in Gpu -> Npu [] OTHER -> {}
Live(s) == slot[s] \in {"starting", "parked", "ready", "stop"}
           \/ (slot[s] \in {"error", "slow"} /\ s \in held)

Fault(f) == f \in Faults /\ faults < MaxFaults /\ faults' = faults + 1

\* select_eviction_order: lowest rank first, until the projected free memory
\* covers the target or nobody is left.
ByRank(S) ==
    CHOOSE q \in [1 .. Cardinality(S) -> S] :
        \A i, j \in DOMAIN q : i < j => Rank[q[i]] < Rank[q[j]]
SelectEvictionOrder(candidates, target, free) ==
    LET Consider(sofar, t) ==
            IF sofar.projected >= target THEN sofar
            ELSE [selected |-> Append(sofar.selected, t), projected |-> sofar.projected + Size[t]]
    IN  FoldLeft(Consider, [selected |-> <<>>, projected |-> free], ByRank(candidates)).selected

Init ==
    /\ slot = [s \in Slots |-> IF s \in Resident THEN "ready" ELSE "off"]
    /\ held = Resident
    /\ lock = [s \in Slots |-> Nobody] /\ fabric = Nobody /\ admission = Nobody
    /\ pending = {} /\ reserved = {} /\ clock \in BOOLEAN /\ late = {}
    /\ seen = {} /\ probed = {} /\ eligible = {} /\ plan = <<>>
    /\ pc = [c \in Calls |-> "new"] /\ faults = 0

-----------------------------------------------------------------------------
(* load() up to the admission *)

\* Only GPU and NPU slots go through the clock guard.
Cold(s) == IF s \in Npu \cup Gpu THEN "guard" ELSE "admit"

\* The slot's lock. A slot that is up and runs what its TOML says is left
\* alone; one in ERROR or left in WARMING may be refused, by the crash-loop
\* gate or the stall ceiling; any other that is not down is taken down first.
LoadBegins(l) ==
    LET s == Of[l] IN
    /\ pc[l] = "new" /\ lock[s] = Nobody
    /\ \/ /\ slot[s] = "ready" /\ pc' = [pc EXCEPT ![l] = "done"]
          /\ UNCHANGED <<lock, faults>>
       \/ /\ slot[s] \in {"error", "slow", "parked"} /\ pc' = [pc EXCEPT ![l] = "failed"]
          /\ UNCHANGED <<lock, faults>>
       \/ /\ IF slot[s] = "ready" THEN Fault("drift") ELSE UNCHANGED faults
          /\ lock' = [lock EXCEPT ![s] = l]
          /\ pc' = [pc EXCEPT ![l] = IF slot[s] = "off" THEN Cold(s) ELSE "clear"]
    /\ UNCHANGED <<slot, held, fabric, pending, admission, reserved, clock, late, seen, snapshot>>

\* terminate(), with its failure suppressed, and OFFLINE.
LoadClears(l) ==
    LET s == Of[l] IN
    /\ pc[l] = "clear"
    /\ \/ held' = held \ {s} /\ UNCHANGED faults
       \/ s \in held /\ Fault("stop") /\ UNCHANGED held
    /\ slot' = [slot EXCEPT ![s] = "off"] /\ pc' = [pc EXCEPT ![l] = Cold(s)]
    /\ UNCHANGED <<locks, pending, reserved, clock, late, seen, snapshot>>

\* list(): the states of the others, read while they go on.
GuardLists(l) ==
    /\ pc[l] = "guard" /\ fabric = Nobody
    /\ fabric' = l /\ seen' = {t \in Opposite(Of[l]) : Live(t)}
    /\ pc' = [pc EXCEPT ![l] = "listed"]
    /\ UNCHANGED <<slot, held, lock, pending, admission, reserved, clock, late, snapshot, faults>>

\* No counterpart in the list and none pending, or the clock is held: the slot
\* is pending until its own state shows.
GuardPasses(l) ==
    /\ pc[l] = "listed"
    /\ seen \cup (pending \cap Opposite(Of[l])) = {} \/ clock
    /\ pending' = pending \cup {Of[l]} /\ fabric' = Nobody /\ seen' = {}
    /\ pc' = [pc EXCEPT ![l] = "admit"]
    /\ UNCHANGED <<slot, held, lock, admission, reserved, clock, late, snapshot, faults>>

\* Under the policy "refuse" the load ends, and the slot is OFFLINE again.
GuardRefuses(l) ==
    LET s == Of[l] IN
    /\ pc[l] = "listed"
    /\ seen \cup (pending \cap Opposite(s)) # {} /\ ~clock
    /\ fabric' = Nobody /\ seen' = {} /\ pending' = pending \ {s}
    /\ slot' = [slot EXCEPT ![s] = "off"] /\ lock' = [lock EXCEPT ![s] = Nobody]
    /\ pc' = [pc EXCEPT ![l] = "failed"]
    /\ UNCHANGED <<held, admission, reserved, clock, late, snapshot, faults>>

-----------------------------------------------------------------------------
(* admit *)

\* It fits: the footprint is reserved and the lock released.
Admitted(l) ==
    /\ reserved' = reserved \cup {Of[l]} /\ late' = late \ {Of[l]} /\ admission' = Nobody
    /\ probed' = {} /\ eligible' = {} /\ plan' = <<>>
    /\ pc' = [pc EXCEPT ![l] = "spawn"]

\* The first probe; short of memory, the load keeps the lock and what it read.
Short(l) ==
    /\ admission' = l /\ probed' = held
    /\ pc' = [pc EXCEPT ![l] = "gather"]
    /\ UNCHANGED <<reserved, late, eligible, plan>>

\* Mutant: each load looks at the host's free memory alone.
AdmitUnaware(l) ==
    /\ pc[l] = "admit" /\ admission = Nobody
    /\ IF Capacity - SizeOf(held) >= Target(Of[l]) THEN Admitted(l) ELSE Short(l)
    /\ UNCHANGED <<slot, held, lock, fabric, pending, clock, seen, faults>>

AdmitBegins(l) ==
    /\ pc[l] = "admit" /\ admission = Nobody
    /\ IF Fits(Of[l]) THEN Admitted(l) ELSE Short(l)
    /\ UNCHANGED <<slot, held, lock, fabric, pending, clock, seen, faults>>

\* Pre-load eviction is off, or the registry has no size for the model: the load
\* goes on with no lock, no check and no reservation.
AdmitOpen(l) ==
    /\ pc[l] = "admit" /\ Fault("registry")
    /\ late' = late \cup {Of[l]}
    /\ pc' = [pc EXCEPT ![l] = "spawn"]
    /\ UNCHANGED <<slot, held, locks, pending, reserved, clock, seen, snapshot>>

\* _gather_candidates, one slot after the other, with awaits between: resident,
\* not pinned, not this slot, and not serving (any of them may be).
Gather(l) ==
    /\ pc[l] = "gather"
    /\ \E t \in Slots \ (Pinned \cup eligible \cup {Of[l]}) :
           slot[t] = "ready" /\ eligible' = eligible \cup {t}
    /\ UNCHANGED <<slot, held, locks, pending, reserved, clock, late, seen, probed, plan, pc,
                   faults>>

\* The plan, from the candidates and from the free memory read before them.
PlanEvictions(l) ==
    LET s == Of[l] IN
    /\ pc[l] = "gather"
    /\ plan' = SelectEvictionOrder(eligible, Target(s), FreeMb(s, probed))
    /\ eligible' = {}
    /\ pc' = [pc EXCEPT ![l] = "evict"]
    /\ UNCHANGED <<slot, held, locks, pending, reserved, clock, late, seen, probed, faults>>

\* unload() of the next victim waits for that slot's lock, under this slot's
\* lock and the admission lock. A victim that is down already is passed over.
EvictBegins(l) ==
    LET v == Head(plan) IN
    /\ pc[l] = "evict" /\ plan # <<>> /\ lock[v] = Nobody
    /\ lock' = [lock EXCEPT ![v] = l]
    /\ slot' = [slot EXCEPT ![v] = IF @ = "off" THEN "off" ELSE "stop"]
    /\ pc' = [pc EXCEPT ![l] = "evicting"]
    /\ UNCHANGED <<held, fabric, pending, admission, reserved, clock, late, seen, snapshot, faults>>

\* Mutant: the free memory is not read again, and every victim of the plan goes.
EvictEndsBlind(l) ==
    LET v == Head(plan) IN
    /\ pc[l] = "evicting"
    /\ slot' = [slot EXCEPT ![v] = "off"] /\ held' = held \ {v}
    /\ lock' = [lock EXCEPT ![v] = Nobody]
    /\ probed' = held' /\ plan' = Tail(plan) /\ pc' = [pc EXCEPT ![l] = "evict"]
    /\ UNCHANGED <<fabric, pending, admission, reserved, clock, late, seen, eligible, faults>>

\* The victim is down: probe again, and stop as soon as the model fits.
EvictEnds(l) ==
    LET v == Head(plan)
        s == Of[l]
    IN /\ pc[l] = "evicting"
       /\ slot' = [slot EXCEPT ![v] = "off"] /\ held' = held \ {v}
       /\ lock' = [lock EXCEPT ![v] = Nobody]
       /\ IF FreeMb(s, held') >= Target(s)
          THEN Admitted(l)
          ELSE /\ probed' = held' /\ plan' = Tail(plan) /\ pc' = [pc EXCEPT ![l] = "evict"]
               /\ UNCHANGED <<reserved, late, eligible, admission>>
       /\ UNCHANGED <<fabric, pending, clock, seen, faults>>

\* A stop that raises is logged, and the next victim tried without a new probe.
EvictFails(l) ==
    LET v == Head(plan) IN
    /\ pc[l] = "evicting" /\ slot[v] = "stop" /\ Fault("stop")
    /\ slot' \in {[slot EXCEPT ![v] = "error"], [slot EXCEPT ![v] = "slow"]}
    /\ lock' = [lock EXCEPT ![v] = Nobody]
    /\ plan' = Tail(plan) /\ pc' = [pc EXCEPT ![l] = "evict"]
    /\ UNCHANGED <<held, fabric, pending, admission, reserved, clock, late, seen, probed, eligible>>

\* Mutant: the refused load forgets that it was pending.
AdmitRefusesPending(l) ==
    LET s == Of[l] IN
    /\ pc[l] = "evict" /\ plan = <<>>
    /\ admission' = Nobody /\ probed' = {} /\ UNCHANGED pending
    /\ slot' = [slot EXCEPT ![s] = "error"] /\ lock' = [lock EXCEPT ![s] = Nobody]
    /\ pc' = [pc EXCEPT ![l] = "failed"]
    /\ UNCHANGED <<held, fabric, reserved, clock, late, seen, eligible, plan, faults>>

\* Nothing is left to evict, and the last reading was short: PreloadEvictionFailed,
\* and the load ends in ERROR.
AdmitRefuses(l) ==
    LET s == Of[l] IN
    /\ pc[l] = "evict" /\ plan = <<>>
    /\ admission' = Nobody /\ probed' = {} /\ pending' = pending \ {s}
    /\ slot' = [slot EXCEPT ![s] = "error"] /\ lock' = [lock EXCEPT ![s] = Nobody]
    /\ pc' = [pc EXCEPT ![l] = "failed"]
    /\ UNCHANGED <<held, fabric, reserved, clock, late, seen, eligible, plan, faults>>

-----------------------------------------------------------------------------
(* The unit, and the end of load() *)

\* STARTING is visible to list(): the fabric reservation is dropped.
Spawn(l) ==
    LET s == Of[l] IN
    /\ pc[l] = "spawn"
    /\ slot' = [slot EXCEPT ![s] = "starting"] /\ pending' = pending \ {s}
    /\ pc' = [pc EXCEPT ![l] = "warm"]
    /\ UNCHANGED <<held, locks, reserved, clock, late, seen, snapshot, faults>>

\* The model is read into memory, at the unit's own pace.
Allocate(s) ==
    /\ slot[s] \in {"starting", "parked"} /\ s \notin held /\ held' = held \cup {s}
    /\ late' = IF slot[s] = "parked" THEN late \cup {s} ELSE late
    /\ UNCHANGED <<slot, locks, pending, reserved, clock, seen, snapshot, pc, faults>>

\* READY; or the readiness wait gave up and the slot is left WARMING; or the
\* unit failed. The reservation is released after it.
Warmed(l) ==
    LET s == Of[l] IN
    /\ pc[l] = "warm"
    /\ \/ /\ s \in held /\ slot' = [slot EXCEPT ![s] = "ready"]
          /\ pc' = [pc EXCEPT ![l] = "loaded"] /\ UNCHANGED <<held, faults>>
       \/ /\ Fault("park") /\ slot' = [slot EXCEPT ![s] = "parked"]
          /\ pc' = [pc EXCEPT ![l] = "loaded"] /\ UNCHANGED held
       \/ /\ Fault("spawn") /\ held' = held \ {s} /\ UNCHANGED slot
          /\ pc' = [pc EXCEPT ![l] = "broken"]
    /\ UNCHANGED <<locks, pending, reserved, clock, late, seen, snapshot>>

\* The finally of admit: the reservation, if one was made, goes, under the
\* admission lock; then the load returns, or stamps ERROR and raises, and its slot's lock is free.
LoadEnds(l) ==
    LET s == Of[l] IN
    /\ pc[l] \in {"loaded", "broken"} /\ (s \in reserved => admission = Nobody)
    /\ reserved' = reserved \ {s} /\ lock' = [lock EXCEPT ![s] = Nobody]
    /\ IF pc[l] = "loaded"
       THEN pc' = [pc EXCEPT ![l] = "done"] /\ UNCHANGED slot
       ELSE /\ pc' = [pc EXCEPT ![l] = "failed"]
            /\ slot' = [slot EXCEPT ![s] = "error"]
    /\ UNCHANGED <<held, fabric, pending, admission, clock, late, seen, snapshot, faults>>

-----------------------------------------------------------------------------
(* The operator's unload(), and a stop that outlived its caller *)

UnloadBegins(u) ==
    LET s == Of[u] IN
    /\ pc[u] = "new" /\ lock[s] = Nobody
    /\ IF slot[s] = "off"
       THEN pc' = [pc EXCEPT ![u] = "done"] /\ UNCHANGED <<slot, lock>>
       ELSE /\ lock' = [lock EXCEPT ![s] = u]
            /\ slot' = [slot EXCEPT ![s] = "stop"]
            /\ pc' = [pc EXCEPT ![u] = "evicting"]
    /\ UNCHANGED <<held, fabric, pending, admission, reserved, clock, late, seen, snapshot, faults>>

UnloadEnds(u) ==
    LET s == Of[u] IN
    /\ pc[u] = "evicting" /\ lock' = [lock EXCEPT ![s] = Nobody]
    /\ \/ /\ slot' = [slot EXCEPT ![s] = "off"] /\ held' = held \ {s}
          /\ pc' = [pc EXCEPT ![u] = "done"] /\ UNCHANGED faults
       \/ /\ Fault("stop") /\ pc' = [pc EXCEPT ![u] = "failed"] /\ UNCHANGED held
          /\ slot' \in {[slot EXCEPT ![s] = "error"], [slot EXCEPT ![s] = "slow"]}
    /\ UNCHANGED <<fabric, pending, admission, reserved, clock, late, seen, snapshot>>

\* _watch_slow_stop: the stop that outlived its budget ends, and then the slot
\* is OFFLINE, unless a load has taken its lock. (A late stop that hits the
\* next unit is in SlotLifecycle.)
LateStop(s) ==
    /\ slot[s] = "slow"
    /\ \/ s \in held /\ held' = held \ {s} /\ UNCHANGED slot
       \/ /\ s \notin held /\ lock[s] = Nobody
          /\ slot' = [slot EXCEPT ![s] = "off"] /\ UNCHANGED held
    /\ UNCHANGED <<locks, pending, reserved, clock, late, seen, snapshot, pc, faults>>

-----------------------------------------------------------------------------
Load(l) ==
    \/ LoadBegins(l) \/ LoadClears(l) \/ GuardLists(l) \/ GuardPasses(l) \/ GuardRefuses(l)
    \/ AdmitBegins(l) \/ AdmitOpen(l) \/ Gather(l) \/ PlanEvictions(l)
    \/ EvictBegins(l) \/ EvictEnds(l) \/ EvictFails(l) \/ AdmitRefuses(l)
    \/ Spawn(l) \/ Warmed(l) \/ LoadEnds(l)

Unload(u) == UnloadBegins(u) \/ UnloadEnds(u)

Next ==
    \/ \E l \in Loads : Load(l)
    \/ \E u \in Unloads : Unload(u)
    \/ \E s \in Slots : Allocate(s) \/ LateStop(s)

Spec == Init /\ [][Next]_vars

(* A call that may go on does, and units come up and go down in the end; that
   a call is made at all is nobody's duty. *)
LiveSpec ==
    /\ Spec
    /\ \A l \in Loads : WF_vars(Load(l) /\ pc[l] # "new")
    /\ \A u \in Unloads : WF_vars(UnloadEnds(u))
    /\ \A s \in Slots : WF_vars(Allocate(s))

-----------------------------------------------------------------------------
(* Properties *)

Reserving == {"spawn", "warm", "loaded", "broken"}
Pcs == Reserving \cup {"new", "clear", "guard", "listed", "admit", "gather", "evict", "evicting",
                       "done", "failed"}

\* Every variable stays in its type, and each of the two global locks is held
\* by the call that is inside its section.
TypeOK ==
    /\ slot \in [Slots -> {"off", "starting", "ready", "parked", "stop", "error", "slow"}]
    /\ held \subseteq Slots /\ lock \in [Slots -> Calls \cup {Nobody}]
    /\ fabric \in Loads \cup {Nobody} /\ admission \in Loads \cup {Nobody}
    /\ pending \subseteq Npu \cup Gpu /\ reserved \subseteq Slots
    /\ clock \in BOOLEAN /\ late \subseteq Slots /\ seen \subseteq Slots
    /\ pc \in [Calls -> Pcs] /\ faults \in Nat
    /\ \A l \in Loads : /\ pc[l] = "listed" <=> fabric = l
                        /\ pc[l] \in {"gather", "evict", "evicting"} <=> admission = l

\* Loads that race each other, evictions that fail and stops that come late
\* never commit more memory than there is: what units hold and what is reserved
\* leave the headroom free. Not counted is what the code does not count: a unit
\* started with no estimate of its size, and one that goes on growing after its
\* load gave up waiting and released the reservation.
NoOvercommit ==
    SizeOf((held \ late) \cup reserved) + Headroom <= Capacity

\* Neither reservation outlives its load: whoever is in one of the two tables
\* has a load under way that will take it out, whatever failed on the way.
ReservationsOwned ==
    /\ \A s \in reserved : \E l \in Loads :
           Of[l] = s /\ lock[s] = l /\ pc[l] \in Reserving
    /\ \A s \in pending : \E l \in Loads :
           /\ Of[l] = s /\ lock[s] = l
           /\ pc[l] \in {"admit", "gather", "evict", "evicting", "spawn"}

\* Whatever fails, no entry of the two reservation tables outlives its load
\* (ReservationsOwned), and the fabric and the admission lock are held exactly
\* by the load that is inside the section they guard.
Safety == TypeOK /\ ReservationsOwned

\* A victim is taken down, or the load refused for want of memory, only when the
\* model does not fit at that moment, whatever loads, units and stops have done since
\* the last reading of free_mb. The one exception is the code's: the plan is made from
\* a reading older than the awaits of _gather_candidates, and what a unit gave back
\* since then, an operator's or a late stop, does not spare a victim.
EvictsOnlyWhenShort ==
    [][\A l \in Loads : pc[l] = "evict" /\ pc'[l] \in {"evicting", "failed"} =>
           ~Fits(Of[l]) \/ probed \ held # {}]_vars

\* A GPU slot and an NPU slot are never both live while the fabric clock is not
\* held: _guard_fabric_clock serialises the loads of the two classes.
FabricExclusive == ~clock => \A s \in Npu, t \in Gpu : ~(Live(s) /\ Live(t))

\* The reservation of a load is released, on success and on failure.
ReservationReleased == \A s \in Slots : s \in reserved ~> s \notin reserved
=============================================================================
