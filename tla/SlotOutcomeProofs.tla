------------------------- MODULE SlotOutcomeProofs -------------------------
(***************************************************************************)
(* What TLAPS proves of SlotLifecycle about the outcome of its calls: a    *)
(* dispatchable slot keeps its route, a swap that returns with the slot    *)
(* READY has its own model in the unit, and the slot keeps its promise     *)
(* (SlotPromise), the last for all constants.  The others name the         *)
(* constants they need; outside them the code does not keep the property.  *)
(***************************************************************************)
EXTENDS SlotLifecycleProofs

-----------------------------------------------------------------------------
(* A swap delivers its model.                                              *)

\* Where a call is in its status().
Answering == {"status", "probe", "reason", "clean", "removed", "drop", "adopt", "restall",
              "health", "adopted_ready", "adopted_warming", "return"}

\* The unit has the swap's model, or is dead; then the status() that ends the swap finds
\* that out, unless the record says so already.
Delivered(c) ==
    \/ runs = c
    \/ /\ unit \notin Active
       /\ \/ pc[c] \in {"status", "reason"}
          \/ pc[c] = "probe" /\ seen[c].state \in Dispatchable
          \/ state \notin Dispatchable

\* A swap in its second leg, from where it has the lock.
OnTrack(c) ==
    /\ pc[c] \notin {"idle", "unload", "unload_stop", "reset", "reset_stop"}
    /\ pc[c] = "drift" => cfg[c] = c
    /\ pc[c] \in {"await_ready", "persist"} => runs = c
    /\ pc[c] \in Answering => Delivered(c)

ISwap ==
    \A c \in Swaps : /\ pc[c] # "idle" => default = c
                     /\ leg[c] = "last" => OnTrack(c)

\* One swap, whose model the TOML takes and keeps; units that die stay dead.
OneSwap == \A c, d \in Swaps : c = d
TomlKept == "unassign" \notin Faults /\ "unwritable" \notin Faults
NoRevival == "revive" \notin Faults

\* What a step that is not the swap's leaves to it, if the swap holds the lock.
Settled ==
    /\ runs' = runs
    /\ unit \notin Active => unit' \notin Active
    /\ unit \notin Active /\ state \notin Dispatchable => state' \notin Dispatchable

\* The swap's own data is untouched.
Apart(c) ==
    /\ pc'[c] = pc[c] /\ leg'[c] = leg[c] /\ cfg'[c] = cfg[c] /\ seen'[c] = seen[c]

LEMMA SwapOther ==
    ASSUME LockDiscipline, ISwap, default' = default, \A c \in Swaps : Apart(c),
           Settled \/ lock \notin Swaps
    PROVE  ISwap'
<1> SUFFICES ASSUME NEW c \in Swaps
             PROVE  /\ pc'[c] # "idle" => default' = c
                    /\ leg'[c] = "last" => OnTrack(c)'
  BY DEF ISwap
<1> USE CallKinds
<1>1. pc'[c] # "idle" => default' = c
  BY DEF ISwap, Apart
<1>2. ASSUME leg'[c] = "last" PROVE OnTrack(c)'
  <2>1. OnTrack(c)
    BY <1>2 DEF ISwap, Apart
  <2>2. CASE Settled
    BY <2>1, <2>2 DEF Settled, Apart, OnTrack, Delivered
  <2>3. CASE lock \notin Swaps
    <3>1. pc[c] \notin Locked
      BY <2>3 DEF LockDiscipline
    <3>2. pc[c] \notin Answering \union {"drift", "await_ready", "persist"}
      BY <3>1, LockedPlaces DEF Answering
    <3>3. QED
      BY <2>1, <3>2 DEF Apart, OnTrack
  <2>4. QED
    BY <2>2, <2>3
<1>3. QED
  BY <1>1, <1>2

\* Another call works under the lock itself, or changes nothing that a swap relies on.
LEMMA SwapOtherCall ==
    ASSUME TaskTypes, LocalTypes, LockDiscipline, ISwap, TomlKept, NEW d \in Calls,
           d \notin Swaps, CallStep(d) \/ LockStep(d) \/ LoadStep(d) \/ StopStep(d) \/ LateStep(d)
    PROVE  ISwap'
<1> USE Kinds, CallKinds
<1>1. default' = default
  <2>1. CASE CallStep(d) \/ LockStep(d)
    BY <2>1 DEF CallStep, LockStep, CallLoad, CallUnload, CallRestart, CallSwap, SweepEvicts,
                LoadAbandoned, LoadBegin, UnloadBegin, EnterUnload, ResetBegin
  <2>2. CASE LoadStep(d)
    BY <2>2 DEF LoadStep, StallCheck, DriftCheck, Prepare, Pulled, Preflight, Spawned,
                SpawnRaises, AwaitReady, Persist, CountFailure, StampError, Raise
  <2>3. CASE StopStep(d) \/ LateStep(d)
    BY <2>3 DEF StopStep, ReloadStopped, SanityStopped, UnloadStopped, ResetStopped, LateStep,
                LateStopReturns, LateStopRaises, SlowStopEnds
  <2>4. QED
    BY <2>1, <2>2, <2>3
<1>2. ASSUME NEW c \in Swaps PROVE Apart(c)
  <2>1. CASE CallStep(d) \/ LockStep(d)
    BY <1>2, <2>1 DEF CallStep, LockStep, CallLoad, CallUnload, CallRestart, CallSwap,
                SweepEvicts, LoadAbandoned, LoadBegin, UnloadBegin, EnterUnload, ResetBegin, Go,
                TaskTypes, LocalTypes, Apart
  <2>2. CASE LoadStep(d)
    BY <1>2, <2>2 DEF LoadStep, StallCheck, DriftCheck, Prepare, Pulled, Preflight, Spawned,
                Advance, SpawnRaises, AwaitReady, Persist, CountFailure, StampError, Raise, End,
                Forget, Go, TaskTypes, LocalTypes, Apart
  <2>3. CASE StopStep(d) \/ LateStep(d)
    BY <1>2, <2>3 DEF StopStep, ReloadStopped, SanityStopped, UnloadStopped, ResetStopped,
                LateStep, LateStopReturns, LateStopRaises, SlowStopEnds, Go, TaskTypes,
                LocalTypes, Apart, tasks
  <2>4. QED
    BY <2>1, <2>2, <2>3
<1>3. Settled \/ lock \notin Swaps
  <2>1. CASE CallStep(d) \/ LockStep(d)
    BY <2>1 DEF CallStep, LockStep, CallLoad, CallUnload, CallRestart, CallSwap, SweepEvicts,
                LoadAbandoned, LoadBegin, UnloadBegin, EnterUnload, ResetBegin, Acquire, Settled,
                record, world
  <2>2. CASE LoadStep(d) \/ StopStep(d)
    <3>1. pc[d] \in Locked
      BY <2>2, LockedPlaces
         DEF LoadStep, StallCheck, DriftCheck, Prepare, Pulled, Preflight, Spawned, SpawnRaises,
             AwaitReady, Persist, CountFailure, StampError, Raise, StopStep, ReloadStopped,
             SanityStopped, UnloadStopped, ResetStopped
    <3>2. QED
      BY <3>1 DEF LockDiscipline
  <2>3. CASE LateStep(d)
    BY <2>3 DEF LateStep, LateStopReturns, LateStopRaises, SlowStopEnds, Settled, record, world,
                Active, Dispatchable
  <2>4. QED
    BY <2>1, <2>2, <2>3
<1>4. QED
  BY <1>1, <1>2, <1>3, SwapOther

\* The only swap answers for ISwap.
LEMMA SwapOwn ==
    ASSUME OneSwap, NEW c \in Swaps, pc'[c] # "idle" => default' = c,
           leg'[c] = "last" => OnTrack(c)'
    PROVE  ISwap'
BY DEF OneSwap, ISwap

\* The swap starts, and takes the lock for its legs.
LEMMA SwapCallStep ==
    ASSUME TaskTypes, LocalTypes, ISwap, OneSwap, TomlKept, NEW c \in Swaps,
           CallStep(c) \/ LockStep(c)
    PROVE  ISwap'
<1> USE Kinds, CallKinds, NamesAssumption
<1>1. leg'[c] = leg[c]
  BY DEF CallStep, LockStep, CallLoad, CallUnload, CallRestart, CallSwap, SweepEvicts,
         LoadAbandoned, LoadBegin, UnloadBegin, EnterUnload, ResetBegin
<1>2. CASE CallSwap(c)
  BY <1>1, <1>2, SwapOwn DEF CallSwap, Starts, Written, TomlKept, ISwap, OnTrack
<1>3. CASE LoadBegin(c)
  <2>1. default' = default /\ default = c /\ cfg'[c] = c
    BY <1>3 DEF LoadBegin, ISwap, LocalTypes
  <2>2. pc'[c] \in {"drift", "stallcheck", "refuse", "reload_stop", "prepare"}
    BY <1>3 DEF LoadBegin, Go, TaskTypes
  <2>3. QED
    BY <2>1, <2>2, SwapOwn DEF OnTrack, Answering
<1>4. CASE UnloadBegin(c) \/ ResetBegin(c)
  <2>1. default' = default /\ pc[c] \in {"unload", "reset"}
    BY <1>4 DEF UnloadBegin, EnterUnload, ResetBegin
  <2>2. QED
    BY <1>1, <2>1, SwapOwn DEF ISwap, OnTrack
<1>5. QED
  BY <1>2, <1>3, <1>4 DEF CallStep, LockStep, CallLoad, CallUnload, CallRestart, SweepEvicts,
                          LoadAbandoned

\* Its load starts a unit with its model, or finds one that has it, or finds the unit dead.
LEMMA SwapLoadStep ==
    ASSUME TaskTypes, LocalTypes, ISwap, OneSwap, TomlKept, NEW c \in Swaps, LoadStep(c)
    PROVE  ISwap'
<1> USE Kinds, CallKinds, NamesAssumption
<1>1. leg'[c] = leg[c]
  BY DEF LoadStep, StallCheck, DriftCheck, Prepare, Pulled, Preflight, Spawned, SpawnRaises,
         AwaitReady, Persist, CountFailure, StampError, Raise
<1>2. pc[c] # "idle"
  BY DEF LoadStep, StallCheck, DriftCheck, Prepare, Pulled, Preflight, Spawned, SpawnRaises,
         AwaitReady, Persist, CountFailure, StampError, Raise
<1>3. default' = c
  BY <1>2 DEF LoadStep, StallCheck, DriftCheck, Prepare, Pulled, Preflight, Spawned,
         SpawnRaises, AwaitReady, Persist, CountFailure, StampError, Raise, Written, TomlKept,
         ISwap
<1>4. ASSUME leg[c] = "last" PROVE OnTrack(c)'
  <2>1. OnTrack(c)
    BY <1>4 DEF ISwap
  <2>2. CASE DriftCheck(c)
    BY <2>1, <2>2 DEF DriftCheck, Go, TaskTypes, OnTrack, Delivered, Answering, world
  <2>3. CASE Spawned(c)
    BY <2>3 DEF Spawned, Advance, Go, Model, TaskTypes, OnTrack, Answering
  <2>4. CASE AwaitReady(c) \/ Persist(c)
    BY <2>1, <2>4 DEF AwaitReady, Persist, Advance, Go, TaskTypes, OnTrack, Delivered,
                      Answering, world
  <2>5. CASE StallCheck(c) \/ Prepare(c) \/ Pulled(c) \/ Preflight(c) \/ SpawnRaises(c)
             \/ CountFailure(c) \/ StampError(c) \/ Raise(c)
    <3>1. pc'[c] \in {"raise", "refuse", "reload_stop", "pulling", "preflight", "illegal",
                      "spawning", "failing", "crashline", "crashline_sanity", "raised",
                      "refused"}
      BY <2>5 DEF StallCheck, Prepare, Pulled, Preflight, SpawnRaises, CountFailure, StampError,
                  Raise, Advance, End, Model, Go, TaskTypes
    <3>2. QED
      BY <3>1 DEF OnTrack, Answering
  <2>6. QED
    BY <2>2, <2>3, <2>4, <2>5 DEF LoadStep
<1>5. QED
  BY <1>1, <1>3, <1>4, SwapOwn

\* Its stops come before a load, or after a failed one.
LEMMA SwapStopStep ==
    ASSUME TaskTypes, LocalTypes, LockDiscipline, ISwap, OneSwap, NEW c \in Swaps,
           StopStep(c) \/ LateStep(c)
    PROVE  ISwap'
<1> USE Kinds, CallKinds
<1>1. CASE StopStep(c)
  <2>1. PICK how \in HowStopEnds :
          ReloadStopped(c, how) \/ SanityStopped(c, how) \/ UnloadStopped(c, how)
            \/ ResetStopped(c, how)
    BY <1>1 DEF StopStep
  <2>2. leg'[c] = leg[c] /\ default' = default /\ pc[c] # "idle"
    BY <2>1 DEF ReloadStopped, SanityStopped, UnloadStopped, ResetStopped
  <2>3. leg[c] = "last" => pc'[c] \in {"prepare", "failing_sanity"}
    BY <2>1 DEF ReloadStopped, SanityStopped, UnloadStopped, ResetStopped, Go, TaskTypes, ISwap,
                OnTrack
  <2>4. QED
    BY <2>2, <2>3, SwapOwn DEF ISwap, OnTrack, Answering
<1>2. CASE LateStep(c)
  <2>1. default' = default /\ \A d \in Swaps : Apart(d)
    BY <1>2 DEF LateStep, LateStopReturns, LateStopRaises, SlowStopEnds, Apart, tasks
  <2>2. Settled
    BY <1>2 DEF LateStep, LateStopReturns, LateStopRaises, SlowStopEnds, Settled, record, world,
                Active, Dispatchable
  <2>3. QED
    BY <2>1, <2>2, SwapOther
<1>3. QED
  BY <1>1, <1>2

\* The status() of a second leg: over a dead unit it takes READY back or leaves the slot as
\* it is, and never adopts.
LEMMA SwapStatusStep ==
    ASSUME TaskTypes, RecordTypes, LocalTypes, ISwap, OneSwap, NEW c \in Swaps, StatusStep(c)
    PROVE  ISwap'
<1> USE Kinds, CallKinds
<1>1. pc[c] \in Answering
  BY DEF StatusStep, ReadRecord, Reconcile, StampDead, StampClean, StampRemoved, DropRoute,
         Return, AdoptCheck, AdoptHealth, AdoptStalled, Adopted, Answering
<1>2. default' = c
  BY <1>1 DEF StatusStep, ReadRecord, Reconcile, StampDead, StampClean, StampRemoved, DropRoute,
         Return, AdoptCheck, AdoptHealth, AdoptStalled, Adopted, Answering, ISwap
<1>3. CASE Return(c)
  <2>1. pc'[c] \in {"load", "done"}
    BY <1>3 DEF Return, Go, End, TaskTypes
  <2>2. QED
    BY <1>2, <2>1, SwapOwn DEF OnTrack, Answering
<1>4. CASE ~Return(c)
  <2>1. leg'[c] = leg[c] /\ runs' = runs /\ unit' = unit
    BY <1>4 DEF StatusStep, ReadRecord, Reconcile, StampDead, StampClean, StampRemoved,
         DropRoute, AdoptCheck, AdoptHealth, AdoptStalled, Adopted, world
  <2>2. pc'[c] \in Answering
    BY <1>4 DEF StatusStep, ReadRecord, Reconcile, StampDead, StampClean, StampRemoved,
         DropRoute, AdoptCheck, AdoptHealth, AdoptStalled, Adopted, Adopt, Go, TaskTypes,
         Answering
  <2>3. ASSUME Delivered(c) PROVE Delivered(c)'
    <3>1. CASE runs = c
      BY <2>1, <3>1 DEF Delivered
    <3>2. CASE runs # c
      <4>1. unit \notin Active /\ unit' \notin Active
        BY <2>1, <2>3, <3>2 DEF Delivered
      <4>2. CASE ReadRecord(c)
        <5>1. pc'[c] = "probe" /\ seen'[c].state = state /\ state' = state
          BY <4>2 DEF ReadRecord, Go, TaskTypes, LocalTypes, record
        <5>2. QED
          BY <4>1, <5>1 DEF Delivered
      <4>3. CASE Reconcile(c)
        <5>1. pc[c] = "probe" /\ state' = state
              /\ (seen[c].state \in Dispatchable => pc'[c] = "reason")
          BY <4>1, <4>3 DEF Reconcile, Go, TaskTypes, record, Dispatchable
        <5>2. QED
          BY <2>3, <3>2, <4>1, <5>1 DEF Delivered
      <4>4. CASE StampDead(c)
        BY <4>1, <4>4 DEF StampDead, Stamp, Delivered, Dispatchable
      <4>5. CASE StampClean(c) \/ StampRemoved(c)
        BY <2>3, <3>2, <4>1, <4>5 DEF StampClean, StampRemoved, Stamp, Delivered, Dispatchable,
                                      record
      <4>6. CASE DropRoute(c) \/ AdoptCheck(c) \/ AdoptStalled(c) \/ Adopted(c)
        BY <2>3, <3>2, <4>1, <4>6 DEF DropRoute, AdoptCheck, AdoptStalled, Adopted, Delivered,
                                      Active, record
      <4>7. CASE AdoptHealth(c)
        BY <4>1, <4>7 DEF AdoptHealth, Adopt, Stamp, Delivered, Active, Dispatchable
      <4>8. QED
        BY <1>4, <4>2, <4>3, <4>4, <4>5, <4>6, <4>7 DEF StatusStep
    <3>3. QED
      BY <3>1, <3>2
  <2>4. leg[c] = "last" => Delivered(c)
    BY <1>1 DEF ISwap, OnTrack
  <2>5. leg'[c] = "last" => OnTrack(c)'
    BY <2>1, <2>2, <2>3, <2>4 DEF OnTrack, Answering
  <2>6. QED
    BY <1>2, <2>5, SwapOwn
<1>5. QED
  BY <1>3, <1>4

\* Polls and the startup adopt only a unit that answers; the others need the lock.
LEMMA SwapOthers ==
    ASSUME TaskTypes, RecordTypes, LocalTypes, LockDiscipline, ISwap, TomlKept, NoRevival,
           \/ \E p \in Procs : Tail(p)
           \/ \E p \in Calls \union Polls \union {Boot} : p \notin Swaps /\ StatusStep(p)
           \/ \E p \in Polls : Poll(p)
           \/ \E r \in Requests : RequestArrives(r) \/ RequestEnters(r) \/ RequestLeaves(r)
           \/ BootReconcile \/ WatcherStep \/ PromoterStep \/ SweepDemotes
           \/ UnitAnswers \/ UnitFault \/ Unassign \/ CoolDown
    PROVE  ISwap'
<1> USE Kinds, CallKinds, NamesAssumption
<1>1. ASSUME NEW p \in Procs, Tail(p) PROVE ISwap'
  <2>1. default' = default /\ Settled
    BY <1>1 DEF Tail, Settled, record, world
  <2>2. \A c \in Swaps : Apart(c)
    BY <1>1 DEF Tail, Apart
  <2>3. QED
    BY <2>1, <2>2, SwapOther
<1>2. ASSUME NEW p \in Calls \union Polls \union {Boot}, p \notin Swaps, StatusStep(p)
      PROVE  ISwap'
  <2>1. default' = default /\ runs' = runs /\ unit' = unit
    BY <1>2 DEF StatusStep, ReadRecord, Reconcile, StampDead, StampClean, StampRemoved,
         DropRoute, Return, AdoptCheck, AdoptHealth, AdoptStalled, Adopted, world
  <2>2. unit \notin Active /\ state \notin Dispatchable => state' \notin Dispatchable
    BY <1>2 DEF StatusStep, ReadRecord, Reconcile, StampDead, StampClean, StampRemoved,
         DropRoute, Return, AdoptCheck, AdoptHealth, AdoptStalled, Adopted, Adopt, Stamp, record,
         Active, Dispatchable
  <2>3. ASSUME NEW c \in Swaps PROVE Apart(c)
    BY <1>2, <2>3
       DEF StatusStep, ReadRecord, Reconcile, StampDead, StampClean, StampRemoved,
         DropRoute, Return, AdoptCheck, AdoptHealth, AdoptStalled, Adopted, Adopt, End, Forget,
         Go, TaskTypes, LocalTypes, Apart
  <2>4. QED
    BY <2>1, <2>2, <2>3, SwapOther DEF Settled
<1>3. CASE (\E p \in Polls : Poll(p)) \/ BootReconcile \/ SweepDemotes
  <2>1. default' = default /\ runs' = runs /\ unit' = unit
    BY <1>3 DEF Poll, BootReconcile, SweepDemotes, world
  <2>2. state \notin Dispatchable => state' = state
    BY <1>3 DEF Poll, BootReconcile, SweepDemotes, record, Dispatchable
  <2>3. ASSUME NEW c \in Swaps PROVE Apart(c)
    BY <1>3, <2>3 DEF Poll, BootReconcile, SweepDemotes, Go, TaskTypes, LocalTypes, Apart
  <2>4. QED
    BY <2>1, <2>2, <2>3, SwapOther DEF Settled
<1>4. ASSUME NEW r \in Requests, RequestArrives(r) \/ RequestEnters(r) \/ RequestLeaves(r)
      PROVE  ISwap'
  <2>1. default' = default /\ runs' = runs /\ unit' = unit
    BY <1>4 DEF RequestArrives, RequestEnters, RequestLeaves, EnterServing, world
  <2>2. state \notin Dispatchable => state' = state
    BY <1>4 DEF RequestArrives, RequestEnters, RequestLeaves, EnterServing, Stamp, record,
                Dispatchable
  <2>3. ASSUME NEW c \in Swaps PROVE Apart(c)
    BY <1>4, <2>3 DEF RequestArrives, RequestEnters, RequestLeaves, EnterServing, Go, TaskTypes,
                Apart
  <2>4. QED
    BY <2>1, <2>2, <2>3, SwapOther DEF Settled
<1>5. CASE PromoterStep
  <2>1. default' = default /\ (Settled \/ lock \notin Swaps)
    BY <1>5 DEF PromoterStep, PromoterPolls, Promote, Settled, record, world
  <2>2. ASSUME NEW c \in Swaps PROVE Apart(c)
    BY <1>5, <2>2 DEF PromoterStep, PromoterPolls, Promote, Go, TaskTypes, Apart
  <2>3. QED
    BY <2>1, <2>2, SwapOther
<1>6. CASE WatcherStep
  <2>1. default' = default /\ (Settled \/ lock \notin Swaps)
    BY <1>6 DEF WatcherStep, WatcherPolls, WatcherLocks, WatcherStamps, WatcherDeclines, Settled,
                record, world
  <2>2. ASSUME NEW c \in Swaps PROVE Apart(c)
    BY <1>6, <2>2 DEF WatcherStep, WatcherPolls, WatcherLocks, WatcherStamps, WatcherDeclines,
                KeepOrEndWatch, Go, TaskTypes, Apart
  <2>3. QED
    BY <2>1, <2>2, SwapOther
<1>7. CASE UnitAnswers \/ UnitFault \/ Unassign \/ CoolDown
  <2>1. default' = default /\ Settled /\ \A c \in Swaps : Apart(c)
    BY <1>7 DEF UnitAnswers, UnitFault, Unassign, CoolDown, TomlKept, NoRevival, Settled, Apart,
                record, world, tasks, Active
  <2>2. QED
    BY <2>1, SwapOther
<1>8. QED
  BY <1>1, <1>2, <1>3, <1>4, <1>5, <1>6, <1>7

\* A restart of the API ends every call that was under way.
LEMMA SwapRestart == ASSUME ISwap, ApiRestart PROVE ISwap'
<1> USE Kinds, CallKinds, NamesAssumption
<1>1. default' = default /\ leg' = leg
  BY DEF ApiRestart
<1>2. \A c \in Swaps : \/ pc'[c] = "idle" /\ pc[c] = "idle"
                       \/ pc'[c] \in Final /\ pc[c] # "idle"
  BY DEF ApiRestart, Final
<1>3. QED
  BY <1>1, <1>2 DEF ISwap, OnTrack, Answering, Final

\* A call is over without an exception only at the end of its last status().
LEMMA OnlyReturnIsDone ==
    ASSUME TaskTypes, LocalTypes, Next, NEW c \in Calls, pc[c] # "done", pc'[c] = "done"
    PROVE  Return(c) /\ leg[c] = "last"
<1> USE Kinds, CallKinds
<1>1. ASSUME NEW d \in Calls, CallStep(d) \/ LockStep(d) PROVE FALSE
  BY <1>1 DEF CallStep, LockStep, CallLoad, CallUnload, CallRestart, CallSwap, SweepEvicts,
              LoadAbandoned, LoadBegin, UnloadBegin, EnterUnload, ResetBegin, Go, TaskTypes
<1>2. ASSUME NEW d \in Calls, LoadStep(d) PROVE FALSE
  BY <1>2 DEF LoadStep, StallCheck, DriftCheck, Prepare, Pulled, Preflight, Spawned, Advance,
              SpawnRaises, AwaitReady, Persist, CountFailure, StampError, Raise, End, Go,
              TaskTypes
<1>3. ASSUME NEW d \in Calls, StopStep(d) \/ LateStep(d) PROVE FALSE
  BY <1>3 DEF StopStep, ReloadStopped, SanityStopped, UnloadStopped, ResetStopped, LateStep,
              LateStopReturns, LateStopRaises, SlowStopEnds, Go, TaskTypes, tasks
<1>4. ASSUME NEW p \in Calls \union Polls \union {Boot}, StatusStep(p)
      PROVE  Return(c) /\ leg[c] = "last"
  <2>1. CASE Return(p)
    BY <1>4, <2>1 DEF Return, Go, End, TaskTypes, LocalTypes
  <2>2. CASE ~Return(p)
    BY <1>4, <2>2 DEF StatusStep, ReadRecord, Reconcile, StampDead, StampClean, StampRemoved,
              DropRoute, AdoptCheck, AdoptHealth, AdoptStalled, Adopted, Adopt, Go, TaskTypes
  <2>3. QED
    BY <2>1, <2>2
<1>5. ASSUME NEW p \in Procs, Tail(p) PROVE FALSE
  BY <1>5 DEF Tail
<1>6. ASSUME \/ \E p \in Polls : Poll(p)
             \/ \E r \in Requests : RequestArrives(r) \/ RequestEnters(r) \/ RequestLeaves(r)
             \/ BootReconcile \/ PromoterStep \/ SweepDemotes
             \/ UnitAnswers \/ UnitFault \/ Unassign \/ CoolDown \/ ApiRestart
      PROVE  FALSE
  BY <1>6 DEF Poll, RequestArrives, RequestEnters, RequestLeaves, EnterServing, BootReconcile,
              PromoterStep, PromoterPolls, Promote, SweepDemotes, UnitAnswers, UnitFault,
              Unassign, CoolDown, ApiRestart, Go, TaskTypes, tasks
<1>7. ASSUME WatcherStep PROVE FALSE
  BY <1>7 DEF WatcherStep, WatcherPolls, WatcherLocks, WatcherStamps, WatcherDeclines,
              KeepOrEndWatch, Go, TaskTypes
<1>8. QED
  BY <1>1, <1>2, <1>3, <1>4, <1>5, <1>6, <1>7 DEF Next

\* A swap that is not overtaken by another one, and whose model the TOML takes and keeps,
\* returns READY only over a unit with its model: whatever loads, unloads and polls do in
\* its gaps, whichever stop fails or is late, and across restarts of the API, as long as no
\* dead unit comes back by itself.
THEOREM SwapDelivered == OneSwap /\ TomlKept /\ NoRevival => (Spec => SwapDelivers)
<1> SUFFICES ASSUME OneSwap, TomlKept, NoRevival PROVE Spec => SwapDelivers
  OBVIOUS
<1>1. Init => ISwap
  BY Kinds, CallKinds DEF Init, ISwap
<1>2. IInv /\ ISwap /\ [Next]_vars => ISwap'
  <2> SUFFICES ASSUME IInv, ISwap, [Next]_vars PROVE ISwap'
    OBVIOUS
  <2>1. TaskTypes /\ RecordTypes /\ LocalTypes /\ LockDiscipline
    BY TypeParts DEF IInv
  <2>2. CASE UNCHANGED vars
    BY <2>2 DEF vars, record, world, tasks, ISwap, OnTrack, Delivered
  <2>3. CASE Next
    BY <2>1, <2>3, SwapOtherCall, SwapCallStep, SwapLoadStep, SwapStopStep, SwapStatusStep,
       SwapOthers, SwapRestart DEF Next
  <2>4. QED
    BY <2>2, <2>3
<1>3. IInv /\ ISwap /\ [Next]_vars =>
        \A c \in Swaps : pc[c] # "done" /\ pc'[c] = "done" /\ state = "ready" => runs = c
  <2> SUFFICES ASSUME IInv, ISwap, [Next]_vars, NEW c \in Swaps, pc[c] # "done",
                      pc'[c] = "done", state = "ready"
               PROVE  runs = c
    OBVIOUS
  <2>1. TaskTypes /\ LocalTypes
    BY TypeParts DEF IInv
  <2>2. Return(c) /\ leg[c] = "last"
    BY <2>1, CallKinds, OnlyReturnIsDone DEF vars, tasks
  <2>3. pc[c] = "return" /\ Delivered(c)
    BY <2>2 DEF Return, ISwap, OnTrack, Answering
  <2>4. QED
    BY <2>3 DEF Delivered, Dispatchable
<1>4. QED
  BY <1>1, <1>2, <1>3, Invariance, PTL DEF Spec, SwapDelivers

-----------------------------------------------------------------------------
(* A dispatchable slot has its route.                                      *)

Routed == unit \in Active => upstream

\* Every stop returns within its budget.
Punctual == SlowStops = {} /\ FailedStops = {}

\* Then no record, and no copy of one that a status() has, names a slow stop.
IPrompt ==
    /\ late = {} /\ ended = {} /\ Tokens = {}
    /\ \A p \in Procs : seen[p].marks \cap Calls = {} /\ pc[p] \notin {"removed", "drop"}

\* A task outside status() supplies no token and stays outside.
LEMMA PromptKept ==
    ASSUME IPrompt, late' = late, ended' = ended, marks' = marks \/ Tokens' = {},
           \A p \in Procs : seen'[p] = seen[p] \/ seen'[p].marks \cap Calls = {},
           \A p \in Procs : pc'[p] = pc[p] \/ pc'[p] \notin {"removed", "drop"}
    PROVE  IPrompt'
BY DEF IPrompt, Tokens

LEMMA PromptCallStep ==
    ASSUME Punctual, TaskTypes, LocalTypes, IPrompt, NEW c \in Calls,
           CallStep(c) \/ LockStep(c) \/ LoadStep(c) \/ StopStep(c) \/ LateStep(c)
    PROVE  IPrompt'
<1> USE Kinds, CallKinds, NotTokens
<1>1. CASE CallStep(c) \/ LockStep(c)
  <2>1. late' = late /\ ended' = ended /\ seen' = seen
    BY <1>1 DEF CallStep, LockStep, CallLoad, CallUnload, CallRestart, CallSwap, SweepEvicts,
                LoadAbandoned, LoadBegin, UnloadBegin, EnterUnload, ResetBegin, stops
  <2>2. marks' = marks \/ Tokens' = {}
    BY <1>1, StampClears
       DEF CallStep, LockStep, CallLoad, CallUnload, CallRestart, CallSwap, SweepEvicts,
           LoadAbandoned, LoadBegin, UnloadBegin, EnterUnload, ResetBegin, record
  <2>3. \A p \in Procs : pc'[p] = pc[p] \/ pc'[p] \notin {"removed", "drop"}
    BY <1>1 DEF CallStep, LockStep, CallLoad, CallUnload, CallRestart, CallSwap, SweepEvicts,
                LoadAbandoned, LoadBegin, UnloadBegin, EnterUnload, ResetBegin, Go, TaskTypes
  <2>4. QED
    BY <2>1, <2>2, <2>3, PromptKept
<1>2. CASE LoadStep(c)
  <2>1. late' = late /\ ended' = ended
    BY <1>2 DEF LoadStep, StallCheck, DriftCheck, Prepare, Pulled, Preflight, Spawned,
                SpawnRaises, AwaitReady, Persist, CountFailure, StampError, Raise, stops
  <2>2. marks' = marks \/ Tokens' = {}
    BY <1>2, StampClears
       DEF LoadStep, StallCheck, DriftCheck, Prepare, Pulled, Preflight, Spawned, Advance,
           SpawnRaises, AwaitReady, Persist, CountFailure, StampError, Raise, record
  <2>3. \A p \in Procs : seen'[p] = seen[p] \/ seen'[p].marks \cap Calls = {}
    BY <1>2 DEF LoadStep, StallCheck, DriftCheck, Prepare, Pulled, Preflight, Spawned,
                SpawnRaises, AwaitReady, Persist, CountFailure, StampError, Raise, Forget, Blank,
                LocalTypes
  <2>4. \A p \in Procs : pc'[p] = pc[p] \/ pc'[p] \notin {"removed", "drop"}
    BY <1>2 DEF LoadStep, StallCheck, DriftCheck, Prepare, Pulled, Preflight, Spawned, Advance,
                SpawnRaises, AwaitReady, Persist, CountFailure, StampError, Raise, End, Go,
                TaskTypes
  <2>5. QED
    BY <2>1, <2>2, <2>3, <2>4, PromptKept
<1>3. CASE StopStep(c)
  <2>1. PICK how \in HowStopEnds :
          ReloadStopped(c, how) \/ SanityStopped(c, how) \/ UnloadStopped(c, how)
            \/ ResetStopped(c, how)
    BY <1>3 DEF StopStep
  <2>2. how = "ok" /\ late' = late /\ ended' = ended
    BY <2>1 DEF ReloadStopped, SanityStopped, UnloadStopped, ResetStopped, terminate, StopUnit,
                Punctual
  <2>3. marks' = marks \/ Tokens' = {}
    BY <2>1, <2>2, StampClears
       DEF ReloadStopped, SanityStopped, UnloadStopped, ResetStopped, record
  <2>4. seen' = seen /\ \A p \in Procs : pc'[p] = pc[p] \/ pc'[p] \notin {"removed", "drop"}
    BY <2>1 DEF ReloadStopped, SanityStopped, UnloadStopped, ResetStopped, Go, TaskTypes
  <2>5. QED
    BY <2>2, <2>3, <2>4, PromptKept
<1>4. CASE LateStep(c)
  BY <1>4 DEF LateStep, LateStopReturns, LateStopRaises, SlowStopEnds, IPrompt
<1>5. QED
  BY <1>1, <1>2, <1>3, <1>4

LEMMA PromptStatusStep ==
    ASSUME TaskTypes, LocalTypes, IPrompt, NEW p \in Calls \union Polls \union {Boot},
           StatusStep(p)
    PROVE  IPrompt'
<1> USE Kinds, CallKinds, NotTokens
<1>1. late' = late /\ ended' = ended
  BY DEF StatusStep, ReadRecord, Reconcile, StampDead, StampClean, StampRemoved, DropRoute,
         Return, AdoptCheck, AdoptHealth, AdoptStalled, Adopted, stops
<1>2. marks' = marks \/ Tokens' = {}
  BY StampClears
     DEF StatusStep, ReadRecord, Reconcile, StampDead, StampClean, StampRemoved, DropRoute,
         Return, AdoptCheck, AdoptHealth, AdoptStalled, Adopted, Adopt, record
<1>3. \A q \in Procs : seen'[q] = seen[q] \/ seen'[q].marks \cap Calls = {}
  BY DEF StatusStep, ReadRecord, Reconcile, StampDead, StampClean, StampRemoved, DropRoute,
         Return, AdoptCheck, AdoptHealth, AdoptStalled, Adopted, Forget, Blank, LocalTypes,
         IPrompt, Tokens
<1>4. \A q \in Procs : pc'[q] = pc[q] \/ pc'[q] \notin {"removed", "drop"}
  BY DEF StatusStep, ReadRecord, Reconcile, StampDead, StampClean, StampRemoved, DropRoute,
         Return, AdoptCheck, AdoptHealth, AdoptStalled, Adopted, Adopt, End, Go, TaskTypes,
         IPrompt
<1>5. QED
  BY <1>1, <1>2, <1>3, <1>4, PromptKept

LEMMA PromptOthers ==
    ASSUME TaskTypes, LocalTypes, IPrompt,
           \/ \E p \in Procs : Tail(p)
           \/ \E p \in Polls : Poll(p)
           \/ \E r \in Requests : RequestArrives(r) \/ RequestEnters(r) \/ RequestLeaves(r)
           \/ BootReconcile \/ WatcherStep \/ PromoterStep \/ SweepDemotes
           \/ UnitAnswers \/ UnitFault \/ Unassign \/ CoolDown
    PROVE  IPrompt'
<1> USE Kinds, CallKinds, NotTokens, NamesAssumption, AllPlaces
<1>1. late' = late /\ ended' = ended /\ seen' = seen
  BY DEF Tail, Poll, RequestArrives, RequestEnters, RequestLeaves, EnterServing, BootReconcile,
         WatcherStep, WatcherPolls, WatcherLocks, WatcherStamps, WatcherDeclines, PromoterStep,
         PromoterPolls, Promote, SweepDemotes, UnitAnswers, UnitFault, Unassign, CoolDown, stops,
         tasks
<1>2. marks' = marks \/ Tokens' = {}
  BY StampClears
     DEF Tail, Poll, RequestArrives, RequestEnters, RequestLeaves, EnterServing, BootReconcile,
         WatcherStep, WatcherPolls, WatcherLocks, WatcherStamps, WatcherDeclines, PromoterStep,
         PromoterPolls, Promote, SweepDemotes, UnitAnswers, UnitFault, Unassign, CoolDown,
         record, Carry, Tokens
<1>3. ASSUME NEW q \in Procs PROVE pc'[q] = pc[q] \/ pc'[q] \notin {"removed", "drop"}
  <2>1. "removed" \in Places /\ "drop" \in Places
    BY LockedPlaces
  <2>2. CASE \E p \in Procs : Tail(p)
    BY <2>2 DEF Tail
  <2>3. CASE WatcherStep
    BY <1>3, <2>1, <2>3
       DEF WatcherStep, WatcherPolls, WatcherLocks, WatcherStamps, WatcherDeclines,
           KeepOrEndWatch, Go, TaskTypes
  <2>4. CASE ~WatcherStep /\ ~\E p \in Procs : Tail(p)
    BY <1>3, <2>4
       DEF Poll, RequestArrives, RequestEnters, RequestLeaves, EnterServing, BootReconcile,
           PromoterStep, PromoterPolls, Promote, SweepDemotes, UnitAnswers, UnitFault, Unassign,
           CoolDown, Go, TaskTypes, tasks
  <2>5. QED
    BY <2>2, <2>3, <2>4
<1>4. QED
  BY <1>1, <1>2, <1>3, PromptKept

LEMMA PromptInvariant == ASSUME Punctual PROVE Spec => []IPrompt
<1>1. Init => IPrompt
  BY Kinds DEF Init, IPrompt, Tokens
<1>2. IInv /\ IPrompt /\ [Next]_vars => IPrompt'
  <2> SUFFICES ASSUME IInv, IPrompt, [Next]_vars PROVE IPrompt'
    OBVIOUS
  <2>1. TaskTypes /\ LocalTypes
    BY TypeParts DEF IInv
  <2>2. CASE UNCHANGED vars
    BY <2>2 DEF vars, record, stops, tasks, IPrompt, Tokens
  <2>3. CASE ApiRestart
    <3>1. late' = {} /\ ended' = {} /\ marks' = marks /\ \A p \in Procs : seen'[p].marks = {}
      BY <2>3 DEF ApiRestart, record, Blank
    <3>2. \A p \in Procs : pc'[p] = pc[p] \/ pc'[p] \notin {"removed", "drop"}
      BY <2>3 DEF ApiRestart
    <3>3. QED
      BY <3>1, <3>2 DEF IPrompt, Tokens
  <2>4. CASE Next /\ ~ApiRestart
    BY <2>1, <2>4, PromptCallStep, PromptStatusStep, PromptOthers DEF Next
  <2>5. QED
    BY <2>2, <2>3, <2>4
<1>3. QED
  BY <1>1, <1>2, Invariance, PTL DEF Spec

\* While the API process lives a route goes only with its unit: a unit is started and
\* registered in one step, a stop that returns takes both, and a dead unit stays dead.
LEMMA RoutedKept ==
    ASSUME Punctual, NoRevival, WorldTypes, IPrompt, Routed, Next, ~ApiRestart
    PROVE  Routed'
<1> USE Kinds, CallKinds
<1>1. ASSUME NEW c \in Calls, CallStep(c) \/ LockStep(c) PROVE Routed'
  BY <1>1 DEF CallStep, LockStep, CallLoad, CallUnload, CallRestart, CallSwap, SweepEvicts,
              LoadAbandoned, LoadBegin, UnloadBegin, EnterUnload, ResetBegin, world, Routed
<1>2. ASSUME NEW c \in Calls, LoadStep(c) PROVE Routed'
  BY <1>2 DEF LoadStep, StallCheck, DriftCheck, Prepare, Pulled, Preflight, Spawned,
              SpawnRaises, AwaitReady, Persist, CountFailure, StampError, Raise, world, Active,
              Routed
<1>3. ASSUME NEW c \in Calls, StopStep(c) PROVE Routed'
  BY <1>3 DEF StopStep, ReloadStopped, SanityStopped, UnloadStopped, ResetStopped, terminate,
              StopUnit, Punctual, Active, Routed
<1>4. ASSUME NEW c \in Calls, LateStep(c) PROVE Routed'
  BY <1>4 DEF LateStep, LateStopReturns, LateStopRaises, SlowStopEnds, IPrompt
<1>5. ASSUME NEW p \in Calls \union Polls \union {Boot}, StatusStep(p) PROVE Routed'
  BY <1>5 DEF StatusStep, ReadRecord, Reconcile, StampDead, StampClean, StampRemoved, DropRoute,
              Return, AdoptCheck, AdoptHealth, AdoptStalled, Adopted, world, Routed, IPrompt
<1>6. CASE \/ \E p \in Procs : Tail(p)
           \/ \E p \in Polls : Poll(p)
           \/ \E r \in Requests : RequestArrives(r) \/ RequestEnters(r) \/ RequestLeaves(r)
           \/ BootReconcile \/ WatcherStep \/ PromoterStep \/ SweepDemotes
           \/ UnitAnswers \/ Unassign \/ CoolDown
  BY <1>6
     DEF Tail, Poll, RequestArrives, RequestEnters, RequestLeaves, EnterServing, BootReconcile,
         WatcherStep, WatcherPolls, WatcherLocks, WatcherStamps, WatcherDeclines, PromoterStep,
         PromoterPolls, Promote, SweepDemotes, UnitAnswers, Unassign, CoolDown, world, Active,
         Routed
<1>7. CASE UnitFault
  BY <1>7 DEF UnitFault, NoRevival, Active, Routed
<1>8. QED
  BY <1>1, <1>2, <1>3, <1>4, <1>5, <1>6, <1>7 DEF Next

-----------------------------------------------------------------------------
(* A slot whose route a restart of the API has taken.                      *)

\* What the restart must not meet: a load() that finds an interrupted record, a unit that
\* stalls, a slot without a model.
Restartable ==
    /\ Loads = {}
    /\ "hang" \notin Faults /\ "unassign" \notin Faults
    /\ Base # NoModel

\* The records that a call interrupted by the restart leaves, and the adopted WARMING.
Limbo == {"pulling", "starting", "warming", "unloading"}

\* Where a call is until it has stopped the unit.
BeforeStop == {"idle", "unload", "reset", "unload_stop", "reset_stop"} \union Final

\* Where a task knows that the unit is dead, or routed.
Knowing == {"health", "restall", "adopted_ready", "adopted_warming", "reason", "clean",
            "await_ready", "persist", "sanity_stop", "drift"}

\* After the startup, and without its route, the slot is not dispatchable, and no status()
\* will make it so: its record is not one that is adopted, or the unit failed its output
\* check; and the calls there are will stop the unit first.
Unrouted ==
    /\ state \notin Dispatchable
    /\ \/ "sanity" \in marks
       \/ state \in Limbo /\ \A c \in Calls : pc[c] \in BeforeStop
    /\ \A p \in Polls \union Calls :
           /\ pc[p] \notin Knowing
           /\ pc[p] = "adopt" => "sanity" \in marks
           /\ pc[p] = "probe" /\ seen[p].state \in {"offline", "error"} => "sanity" \in marks
    /\ pc[Watchdog] \in Strikes => tail[Watchdog] # None

\* During the startup only the soft demotion and the watcher that it arms are at work.
StartingUp ==
    /\ \A p \in Polls : pc[p] = "idle"
    /\ \A p \in Calls \union Requests : pc[p] \in Final \union {"idle"}
    /\ pc[Promoter] = "off"
    /\ \A p \in Procs \ {Watchdog} : tail[p] = None
    /\ \/ pc[Watchdog] = "off"
       \/ state \in Dispatchable
       \/ pc[Watchdog] \in Strikes /\ tail[Watchdog] # None

\* A route is missing only until the startup pass has come to the slot, or as above.
Restored ==
    \/ Routed
    \/ pc[Boot] = "adopted_ready"
    \/ pc[Boot] = "boot" /\ StartingUp
    \/ pc[Boot] \in {"adopt", "health"} /\ StartingUp /\ state \notin Dispatchable
    \/ pc[Boot] \in {"adopted_warming", "return", "idle"} /\ Unrouted

\* No stall is ever recorded, every slot has a model, and the watcher stamps no live state.
IModel ==
    /\ unit # "hung" /\ "stall" \notin marks
    /\ default # NoModel
    /\ tail[Watchdog] \notin Live

IRoute == IModel /\ Restored

\* A _transition records no stall unless it supplies it.
LEMMA StampNoStall ==
    ASSUME NEW p, NEW to, NEW extra, "stall" \notin extra, Stamp(p, to, extra)
    PROVE  "stall" \notin marks'
BY DEF Stamp, Carry

LEMMA NoStallMarks == "stall" \notin {} /\ "stall" \notin {"sanity"} /\ \A c \in Calls : "stall" \notin {c}
BY LifecycleAssumption

LEMMA ModelCallStep ==
    ASSUME Restartable, RecordTypes, IModel, NEW c \in Calls,
           CallStep(c) \/ LockStep(c) \/ LoadStep(c) \/ StopStep(c) \/ LateStep(c)
    PROVE  IModel'
<1> USE Kinds, CallKinds, NamesAssumption, NoStallMarks
<1>1. CASE CallStep(c) \/ LockStep(c)
  <2>1. unit' = unit /\ default' \in {default, c}
    BY <1>1 DEF CallStep, LockStep, CallLoad, CallUnload, CallRestart, CallSwap, SweepEvicts,
                LoadAbandoned, LoadBegin, UnloadBegin, EnterUnload, ResetBegin, Written, world
  <2>2. "stall" \notin marks'
    BY <1>1, StampNoStall
       DEF CallStep, LockStep, CallLoad, CallUnload, CallRestart, CallSwap, SweepEvicts,
           LoadAbandoned, LoadBegin, UnloadBegin, EnterUnload, ResetBegin, record, IModel
  <2>3. tail'[Watchdog] = tail[Watchdog]
    BY <1>1 DEF CallStep, LockStep, CallLoad, CallUnload, CallRestart, CallSwap, SweepEvicts,
                LoadAbandoned, LoadBegin, UnloadBegin, EnterUnload, ResetBegin, Stamp,
                RecordTypes
  <2>4. QED
    BY <2>1, <2>2, <2>3 DEF IModel
<1>2. CASE LoadStep(c)
  <2>1. unit' \in {unit, "silent", "failed"} /\ default' \in {default, c}
    BY <1>2 DEF LoadStep, StallCheck, DriftCheck, Prepare, Pulled, Preflight, Spawned,
                SpawnRaises, AwaitReady, Persist, CountFailure, StampError, Raise, Written, world
  <2>2. "stall" \notin marks'
    BY <1>2, StampNoStall
       DEF LoadStep, StallCheck, DriftCheck, Prepare, Pulled, Preflight, Spawned, Advance,
           SpawnRaises, AwaitReady, Persist, CountFailure, StampError, Raise, record, IModel
  <2>3. tail'[Watchdog] = tail[Watchdog]
    BY <1>2 DEF LoadStep, StallCheck, DriftCheck, Prepare, Pulled, Preflight, Spawned, Advance,
                SpawnRaises, AwaitReady, Persist, CountFailure, StampError, Raise, Stamp,
                RecordTypes
  <2>4. QED
    BY <2>1, <2>2, <2>3 DEF IModel
<1>3. CASE StopStep(c)
  <2>1. PICK how \in HowStopEnds :
          ReloadStopped(c, how) \/ SanityStopped(c, how) \/ UnloadStopped(c, how)
            \/ ResetStopped(c, how)
    BY <1>3 DEF StopStep
  <2>2. unit' \in {unit, "stopped", "gone"} /\ default' = default
    BY <2>1 DEF ReloadStopped, SanityStopped, UnloadStopped, ResetStopped, terminate, StopUnit
  <2>3. "stall" \notin marks'
    BY <2>1, StampNoStall
       DEF ReloadStopped, SanityStopped, UnloadStopped, ResetStopped, record, IModel
  <2>4. tail'[Watchdog] = tail[Watchdog]
    BY <2>1 DEF ReloadStopped, SanityStopped, UnloadStopped, ResetStopped, Stamp, RecordTypes
  <2>5. QED
    BY <2>2, <2>3, <2>4 DEF IModel
<1>4. CASE LateStep(c)
  BY <1>4 DEF LateStep, LateStopReturns, LateStopRaises, SlowStopEnds, Carry, record, world,
              tasks, IModel
<1>5. QED
  BY <1>1, <1>2, <1>3, <1>4

LEMMA ModelOthers ==
    ASSUME Restartable, NoRevival, RecordTypes, IModel,
           \/ \E p \in Procs : Tail(p)
           \/ \E p \in Calls \union Polls \union {Boot} : StatusStep(p)
           \/ \E p \in Polls : Poll(p)
           \/ \E r \in Requests : RequestArrives(r) \/ RequestEnters(r) \/ RequestLeaves(r)
           \/ BootReconcile \/ WatcherStep \/ PromoterStep \/ SweepDemotes
           \/ UnitAnswers \/ UnitFault \/ Unassign \/ CoolDown \/ ApiRestart
    PROVE  IModel'
<1> USE Kinds, CallKinds, NoStallMarks
<1>1. CASE \E p \in Procs : Tail(p)
  BY <1>1 DEF Tail, record, world, IModel, Live, Dispatchable, None
<1>2. ASSUME NEW p \in Calls \union Polls \union {Boot}, StatusStep(p) PROVE IModel'
  <2>1. unit' = unit /\ default' = default
    BY <1>2 DEF StatusStep, ReadRecord, Reconcile, StampDead, StampClean, StampRemoved,
                DropRoute, Return, AdoptCheck, AdoptHealth, AdoptStalled, Adopted, world
  <2>2. "stall" \notin marks'
    BY <1>2, StampNoStall
       DEF StatusStep, ReadRecord, Reconcile, StampDead, StampClean, StampRemoved, DropRoute,
           Return, AdoptCheck, AdoptHealth, AdoptStalled, Adopted, Adopt, record, IModel
  <2>3. tail'[Watchdog] = tail[Watchdog]
    BY <1>2 DEF StatusStep, ReadRecord, Reconcile, StampDead, StampClean, StampRemoved,
                DropRoute, Return, AdoptCheck, AdoptHealth, AdoptStalled, Adopted, Adopt, Stamp,
                RecordTypes
  <2>4. QED
    BY <2>1, <2>2, <2>3 DEF IModel
<1>3. CASE \/ \E p \in Polls : Poll(p)
           \/ \E r \in Requests : RequestArrives(r) \/ RequestEnters(r) \/ RequestLeaves(r)
           \/ BootReconcile \/ PromoterStep \/ SweepDemotes
  <2>1. unit' = unit /\ default' = default
    BY <1>3 DEF Poll, RequestArrives, RequestEnters, RequestLeaves, EnterServing, BootReconcile,
                PromoterStep, PromoterPolls, Promote, SweepDemotes, world
  <2>2. "stall" \notin marks'
    BY <1>3, StampNoStall
       DEF Poll, RequestArrives, RequestEnters, RequestLeaves, EnterServing, BootReconcile,
           PromoterStep, PromoterPolls, Promote, SweepDemotes, Carry, record, IModel
  <2>3. tail'[Watchdog] = tail[Watchdog]
    BY <1>3 DEF Poll, RequestArrives, RequestEnters, RequestLeaves, EnterServing, BootReconcile,
                PromoterStep, PromoterPolls, Promote, SweepDemotes, Stamp, RecordTypes
  <2>4. QED
    BY <2>1, <2>2, <2>3 DEF IModel
<1>4. CASE WatcherStep
  <2>1. unit' = unit /\ default' = default
    BY <1>4 DEF WatcherStep, WatcherPolls, WatcherLocks, WatcherStamps, WatcherDeclines, world
  <2>2. CASE WatcherStamps
    <3>1. pc[Watchdog] # "strike_stall"
      BY <2>2 DEF WatcherStamps, StillFaulted, IModel
    <3>2. Stamp(Watchdog, IF pc[Watchdog] = "strike_dead" THEN "offline" ELSE "error", {})
      BY <2>2, <3>1 DEF WatcherStamps
    <3>3. tail'[Watchdog] \in {"offline", "error"}
      BY <3>2 DEF Stamp, RecordTypes
    <3>4. QED
      BY <2>1, <3>2, <3>3, StampNoStall DEF IModel, Live, Dispatchable
  <2>3. CASE ~WatcherStamps
    BY <1>4, <2>1, <2>3 DEF WatcherStep, WatcherPolls, WatcherLocks, WatcherDeclines, record,
                            IModel
  <2>4. QED
    BY <2>2, <2>3
<1>5. CASE UnitAnswers \/ UnitFault \/ Unassign \/ CoolDown
  BY <1>5 DEF UnitAnswers, UnitFault, Unassign, CoolDown, Restartable, record, world, tasks,
              IModel
<1>6. CASE ApiRestart
  BY <1>6 DEF ApiRestart, record, IModel, Live, Dispatchable, None
<1>7. QED
  BY <1>1, <1>2, <1>3, <1>4, <1>5, <1>6

\* Only the startup itself and a restart of the API move the startup.
LEMMA BootMoves ==
    ASSUME TaskTypes, Next, ~ApiRestart, ~StatusStep(Boot), ~BootReconcile
    PROVE  pc'[Boot] = pc[Boot]
<1> USE Kinds, CallKinds
<1>1. ASSUME NEW c \in Calls, CallStep(c) \/ LockStep(c) PROVE pc'[Boot] = pc[Boot]
  BY <1>1 DEF CallStep, LockStep, CallLoad, CallUnload, CallRestart, CallSwap, SweepEvicts,
              LoadAbandoned, LoadBegin, UnloadBegin, EnterUnload, ResetBegin, Go, TaskTypes
<1>2. ASSUME NEW c \in Calls, LoadStep(c) PROVE pc'[Boot] = pc[Boot]
  BY <1>2 DEF LoadStep, StallCheck, DriftCheck, Prepare, Pulled, Preflight, Spawned, Advance,
              SpawnRaises, AwaitReady, Persist, CountFailure, StampError, Raise, End, Go,
              TaskTypes
<1>3. ASSUME NEW c \in Calls, StopStep(c) \/ LateStep(c) PROVE pc'[Boot] = pc[Boot]
  BY <1>3 DEF StopStep, ReloadStopped, SanityStopped, UnloadStopped, ResetStopped, LateStep,
              LateStopReturns, LateStopRaises, SlowStopEnds, Go, TaskTypes, tasks
<1>4. ASSUME NEW p \in Calls \union Polls, StatusStep(p) PROVE pc'[Boot] = pc[Boot]
  BY <1>4 DEF StatusStep, ReadRecord, Reconcile, StampDead, StampClean, StampRemoved, DropRoute,
              Return, AdoptCheck, AdoptHealth, AdoptStalled, Adopted, Adopt, End, Go, TaskTypes
<1>5. ASSUME NEW p \in Procs, Tail(p) PROVE pc'[Boot] = pc[Boot]
  BY <1>5 DEF Tail
<1>6. CASE WatcherStep
  BY <1>6 DEF WatcherStep, WatcherPolls, WatcherLocks, WatcherStamps, WatcherDeclines,
              KeepOrEndWatch, Go, TaskTypes
<1>7. CASE \/ \E p \in Polls : Poll(p)
           \/ \E r \in Requests : RequestArrives(r) \/ RequestEnters(r) \/ RequestLeaves(r)
           \/ PromoterStep \/ SweepDemotes \/ UnitAnswers \/ UnitFault \/ Unassign \/ CoolDown
  BY <1>7 DEF Poll, RequestArrives, RequestEnters, RequestLeaves, EnterServing, PromoterStep,
              PromoterPolls, Promote, SweepDemotes, UnitAnswers, UnitFault, Unassign, CoolDown,
              Go, TaskTypes, tasks
<1>8. QED
  BY <1>1, <1>2, <1>3, <1>4, <1>5, <1>6, <1>7 DEF Next

\* The startup pass adopts the unit, or finds why it must not be adopted.
LEMMA StartupPass ==
    ASSUME TaskTypes, RecordTypes, WorldTypes, IModel, StartingUp, ~Routed,
           pc[Boot] \in {"boot", "adopt", "health"},
           pc[Boot] # "boot" => state \notin Dispatchable,
           StatusStep(Boot) \/ BootReconcile
    PROVE  Restored'
<1> USE Kinds, CallKinds
<1>1. unit \in Active /\ ~upstream /\ unit' = unit
  BY DEF Routed, StatusStep, ReadRecord, Reconcile, StampDead, StampClean, StampRemoved,
         DropRoute, Return, AdoptCheck, AdoptHealth, AdoptStalled, Adopted, BootReconcile, world
<1>2. /\ \A p \in Procs \ {Boot} : pc'[p] = pc[p] /\ tail'[p] = tail[p]
      /\ pc' = [pc EXCEPT ![Boot] = pc'[Boot]]
  BY DEF StatusStep, ReadRecord, Reconcile, StampDead, StampClean, StampRemoved,
         DropRoute, Return, AdoptCheck, AdoptHealth, AdoptStalled, Adopted, Adopt, BootReconcile,
         Stamp, Go, TaskTypes, RecordTypes
<1>3. state \notin Dispatchable =>
        /\ pc'[Watchdog] \in Strikes => tail'[Watchdog] # None
        /\ \A c \in Calls : pc'[c] \in BeforeStop
        /\ \A p \in Polls \union Calls : pc'[p] \notin Knowing \union {"adopt", "probe"}
  BY <1>2 DEF StartingUp, BeforeStop, Knowing, Final, Strikes
<1>4. CASE BootReconcile
  <2>1. state' = state /\ marks' = marks /\ tail' = tail
    BY <1>4 DEF BootReconcile, record
  <2>2. CASE state \in Dispatchable
    BY <1>1, <1>4, <2>2 DEF BootReconcile, Restored, Routed
  <2>3. CASE state \in {"offline", "error", "warming"}
    <3>1. pc'[Boot] = "adopt" /\ state' \notin Dispatchable
      BY <1>1, <1>4, <2>1, <2>3 DEF BootReconcile, Go, TaskTypes, IModel, Dispatchable
    <3>2. StartingUp'
      BY <1>2, <2>1 DEF StartingUp
    <3>3. QED
      BY <3>1, <3>2 DEF Restored
  <2>4. CASE state \in {"pulling", "starting", "unloading"}
    <3>1. pc'[Boot] = "return" /\ state' \notin Dispatchable /\ state' \in Limbo
      BY <1>1, <1>4, <2>1, <2>4 DEF BootReconcile, Go, TaskTypes, Dispatchable, Limbo
    <3>2. Unrouted'
      BY <1>3, <2>1, <3>1 DEF Unrouted
    <3>3. QED
      BY <3>1, <3>2 DEF Restored
  <2>5. QED
    BY <2>2, <2>3, <2>4 DEF RecordTypes, States, Dispatchable
<1>5. CASE AdoptCheck(Boot)
  <2>1. state' = state /\ marks' = marks /\ tail' = tail /\ state \notin Dispatchable
    BY <1>5 DEF AdoptCheck, record
  <2>2. CASE "sanity" \in marks
    <3>1. pc'[Boot] = "return"
      BY <1>1, <1>5, <2>2 DEF AdoptCheck, Go, TaskTypes
    <3>2. Unrouted'
      BY <1>3, <2>1, <2>2 DEF Unrouted
    <3>3. QED
      BY <3>1, <3>2 DEF Restored
  <2>3. CASE "sanity" \notin marks
    <3>1. pc'[Boot] = "health"
      BY <1>1, <1>5, <2>3 DEF AdoptCheck, Go, TaskTypes, IModel
    <3>2. StartingUp'
      BY <1>2, <2>1 DEF StartingUp
    <3>3. QED
      BY <2>1, <3>1, <3>2 DEF Restored
  <2>4. QED
    BY <2>2, <2>3
<1>6. CASE AdoptHealth(Boot)
  <2>1. CASE unit \in {"up", "hung"}
    BY <1>6, <2>1 DEF AdoptHealth, Adopt, Go, TaskTypes, Restored
  <2>2. CASE unit \notin {"up", "hung"}
    <3>1. pc'[Boot] = "adopted_warming" /\ state' = "warming" /\ state \notin Dispatchable
      BY <1>6, <2>2 DEF AdoptHealth, Adopt, Stamp, Go, TaskTypes
    <3>2. Unrouted'
      BY <1>3, <3>1 DEF Unrouted, Dispatchable, Limbo
    <3>3. QED
      BY <3>1, <3>2 DEF Restored
  <2>3. QED
    BY <2>1, <2>2
<1>7. QED
  BY <1>4, <1>5, <1>6 DEF StatusStep, ReadRecord, Reconcile, StampDead, StampClean,
         StampRemoved, DropRoute, Return, AdoptStalled, Adopted

\* Before the startup is over no call, poll or request runs, so only the watcher and the
\* soft demotion can come between its steps.
LEMMA StartupOthers ==
    ASSUME TaskTypes, RecordTypes, WorldTypes, IPrompt, IModel, StartingUp, ~Routed,
           pc[Boot] \in {"boot", "adopt", "health"},
           pc[Boot] # "boot" => state \notin Dispatchable,
           Next, ~ApiRestart, ~StatusStep(Boot), ~BootReconcile
    PROVE  Restored'
<1> USE Kinds, CallKinds
<1>1. pc'[Boot] = pc[Boot]
  BY BootMoves
<1>2. SUFFICES StartingUp' /\ (state \notin Dispatchable => state' \notin Dispatchable)
  BY <1>1 DEF Restored
<1>3. ASSUME NEW c \in Calls,
             CallStep(c) \/ LockStep(c) \/ LoadStep(c) \/ StopStep(c) \/ LateStep(c)
      PROVE  FALSE
  <2>1. pc[c] \in Final \union {"idle"} /\ ~Starts(c)
    BY DEF StartingUp, Starts
  <2>2. ~CallStep(c) /\ ~LockStep(c)
    BY <2>1 DEF CallStep, LockStep, CallLoad, CallUnload, CallRestart, CallSwap, SweepEvicts,
                LoadAbandoned, LoadBegin, UnloadBegin, ResetBegin, Final
  <2>3. ~LoadStep(c)
    BY <2>1 DEF LoadStep, StallCheck, DriftCheck, Prepare, Pulled, Preflight, Spawned,
                SpawnRaises, AwaitReady, Persist, CountFailure, StampError, Raise, Final
  <2>4. ~StopStep(c) /\ ~LateStep(c)
    BY <2>1 DEF StopStep, ReloadStopped, SanityStopped, UnloadStopped, ResetStopped, LateStep,
                LateStopReturns, LateStopRaises, SlowStopEnds, IPrompt, Final
  <2>5. QED
    BY <1>3, <2>2, <2>3, <2>4
<1>4. ASSUME NEW p \in Calls \union Polls, StatusStep(p) PROVE FALSE
  BY <1>4 DEF StatusStep, ReadRecord, Reconcile, StampDead, StampClean, StampRemoved, DropRoute,
              Return, AdoptCheck, AdoptHealth, AdoptStalled, Adopted, StartingUp, Final
<1>5. CASE \/ \E p \in Polls : Poll(p)
           \/ \E r \in Requests : RequestArrives(r) \/ RequestEnters(r) \/ RequestLeaves(r)
           \/ PromoterStep
  BY <1>5 DEF Poll, RequestArrives, RequestEnters, RequestLeaves, PromoterStep, PromoterPolls,
              Promote, StartingUp, Starts, Final
<1>6. ASSUME NEW p \in Procs, Tail(p)
      PROVE  StartingUp' /\ (state \notin Dispatchable => state' \notin Dispatchable)
  <2>1. p = Watchdog /\ tail[p] \notin Live
    BY <1>6 DEF Tail, StartingUp, IModel
  <2>2. pc'[Watchdog] = "off" \/ pc'[Watchdog] = "raised"
    BY <1>6, <2>1 DEF Tail
  <2>3. Watchdog \notin Recoveries
    OBVIOUS
  <2>4. pc'[Watchdog] = "off" /\ pc'[Promoter] = "off"
    BY <1>6, <2>1, <2>3 DEF Tail, StartingUp
  <2>5. \A q \in Procs \ {Watchdog} : pc'[q] = pc[q] \/ (q \in Recoveries /\ pc'[q] = "raised")
    BY <1>6, <2>1 DEF Tail, StartingUp
  <2>6. \A q \in Procs \ {Watchdog} : tail'[q] = None
    BY <1>6, <2>1 DEF Tail, StartingUp
  <2>7. state' = state
    BY <1>6 DEF Tail, record
  <2>8. QED
    BY <2>4, <2>5, <2>6, <2>7 DEF StartingUp, Final
<1>7. CASE WatcherStep
  <2>1. /\ \A q \in Procs \ {Watchdog} : tail'[q] = tail[q]
        /\ state' = state \/ state' \in {"offline", "error"}
    BY <1>7 DEF WatcherStep, WatcherPolls, WatcherLocks, WatcherStamps, WatcherDeclines, Stamp,
                RecordTypes, record
  <2>2. CASE WatcherPolls
    <3>1. state \in Dispatchable
      BY <2>2 DEF WatcherPolls, StartingUp, Strikes
    <3>2. \A q \in Procs \ {Watchdog} : pc'[q] = pc[q]
      BY <2>2, <3>1 DEF WatcherPolls, WarmingStale, Go, TaskTypes, Dispatchable
    <3>3. state' = state
      BY <2>2 DEF WatcherPolls, record
    <3>4. QED
      BY <2>1, <3>1, <3>2, <3>3 DEF StartingUp
  <2>3. CASE WatcherLocks \/ WatcherDeclines
    <3>1. state' = state /\ \A q \in Procs \ {Watchdog} : pc'[q] = pc[q]
      BY <2>3 DEF WatcherLocks, WatcherDeclines, KeepOrEndWatch, Go, TaskTypes, record
    <3>2. state \in Dispatchable \/ pc[Watchdog] = "off"
      BY <2>3 DEF WatcherLocks, WatcherDeclines, Runs, StartingUp
    <3>3. state \in Dispatchable
      BY <2>3, <3>2 DEF WatcherLocks, WatcherDeclines, Strikes
    <3>4. QED
      BY <2>1, <3>1, <3>3 DEF StartingUp
  <2>4. CASE WatcherStamps
    <3>1. pc' = pc /\ pc[Watchdog] \in Strikes /\ unit \in Active
      BY <2>4 DEF WatcherStamps, Routed
    <3>2. state' \in {"offline", "error"} /\ tail'[Watchdog] = state'
      BY <2>4 DEF WatcherStamps, Stamp, RecordTypes
    <3>3. tail'[Watchdog] # None /\ state' \notin Dispatchable
      BY <3>2 DEF None, Dispatchable
    <3>4. QED
      BY <2>1, <3>1, <3>3 DEF StartingUp
  <2>5. QED
    BY <1>7, <2>2, <2>3, <2>4 DEF WatcherStep
<1>8. CASE SweepDemotes
  <2>1. state \in Dispatchable /\ state' \in Dispatchable /\ tail' = tail
    BY <1>8 DEF SweepDemotes, Dispatchable
  <2>2. \A q \in Procs \ {Watchdog} : pc'[q] = pc[q]
    BY <1>8 DEF SweepDemotes, TaskTypes
  <2>3. QED
    BY <2>1, <2>2 DEF StartingUp
<1>9. CASE UnitAnswers \/ UnitFault \/ Unassign \/ CoolDown
  BY <1>9 DEF UnitAnswers, UnitFault, Unassign, CoolDown, record, tasks, StartingUp
<1>10. QED
  BY <1>3, <1>4, <1>5, <1>6, <1>7, <1>8, <1>9 DEF Next

\* A call keeps the slot unrouted if it makes the record neither dispatchable nor, while
\* there is no failed output check, adoptable.
LEMMA UnroutedCall ==
    ASSUME Unrouted, NEW c \in Calls,
           state' \notin Dispatchable,
           "sanity" \in marks => "sanity" \in marks',
           "sanity" \in marks' \/ (state' \in Limbo /\ pc[c] \in BeforeStop /\ pc'[c] \in BeforeStop)
               \/ (state' = state /\ pc'[c] \in BeforeStop),
           pc'[c] \notin Knowing \union {"adopt", "probe"},
           \A q \in Procs \ {c} : pc'[q] = pc[q] \/ (q = Watchdog /\ pc'[q] = "off"),
           \A q \in Polls \union Calls : q # c => seen'[q] = seen[q],
           tail'[Watchdog] = tail[Watchdog]
    PROVE  Unrouted'
<1> USE Kinds, CallKinds
<1>1. \A q \in (Polls \union Calls) \ {c} : pc'[q] = pc[q]
  OBVIOUS
<1>2. "sanity" \in marks' \/ (state' \in Limbo /\ \A d \in Calls : pc'[d] \in BeforeStop)
  BY <1>1 DEF Unrouted
<1>3. \A q \in Polls \union Calls :
          /\ pc'[q] \notin Knowing
          /\ pc'[q] = "adopt" => "sanity" \in marks'
          /\ pc'[q] = "probe" /\ seen'[q].state \in {"offline", "error"} => "sanity" \in marks'
  BY <1>1 DEF Unrouted
<1>4. pc'[Watchdog] \in Strikes => tail'[Watchdog] # None
  BY DEF Unrouted, Strikes
<1>5. QED
  BY <1>2, <1>3, <1>4 DEF Unrouted

LEMMA UnroutedCallStep ==
    ASSUME Restartable, TaskTypes, LocalTypes, RecordTypes, Unrouted, NEW c \in Calls,
           CallStep(c) \/ LockStep(c)
    PROVE  Unrouted'
<1> USE Kinds, CallKinds
<1>1. CASE CallStep(c)
  <2>1. CallUnload(c) \/ CallRestart(c) \/ CallSwap(c)
    BY <1>1 DEF CallStep, CallLoad, LoadAbandoned, SweepEvicts, Restartable, Unrouted,
                Dispatchable
  <2>2. /\ state' = state /\ marks' = marks /\ tail' = tail /\ seen' = seen
        /\ pc'[c] \in {"unload", "reset"}
        /\ \A q \in Procs \ {c} : pc'[q] = pc[q]
    BY <2>1 DEF CallUnload, CallRestart, CallSwap, Go, TaskTypes, record
  <2>3. pc'[c] \in BeforeStop /\ pc'[c] \notin Knowing \union {"adopt", "probe"}
    BY <2>2 DEF BeforeStop, Knowing
  <2>4. QED
    BY <2>2, <2>3, UnroutedCall DEF Unrouted
<1>2. CASE LoadBegin(c)
  <2>1. "sanity" \in marks /\ state \notin Dispatchable
    BY <1>2 DEF LoadBegin, Unrouted, BeforeStop, Final
  <2>2. /\ state' = state /\ marks' = marks /\ tail' = tail /\ seen' = seen
        /\ \A q \in Procs \ {c} : pc'[q] = pc[q]
    BY <1>2 DEF LoadBegin, Go, TaskTypes, record
  <2>3. pc'[c] \in {"stallcheck", "refuse", "reload_stop", "prepare"}
    BY <1>2, <2>1 DEF LoadBegin, Go, TaskTypes
  <2>4. pc'[c] \notin Knowing \union {"adopt", "probe"}
    BY <2>3 DEF Knowing
  <2>5. QED
    BY <2>1, <2>2, <2>4, UnroutedCall
<1>3. CASE UnloadBegin(c)
  <2>1. /\ tail'[Watchdog] = tail[Watchdog] /\ seen' = seen
        /\ \A q \in Procs \ {c} : pc'[q] = pc[q]
    BY <1>3 DEF UnloadBegin, EnterUnload, Stamp, Go, TaskTypes, RecordTypes
  <2>2. CASE state = "offline"
    <3>1. /\ "sanity" \in marks /\ state' = state /\ marks' = marks /\ pc'[c] = "status"
          /\ state \notin Dispatchable
      BY <1>3, <2>2 DEF UnloadBegin, EnterUnload, Go, TaskTypes, record, Unrouted, Limbo
    <3>2. pc'[c] \notin Knowing \union {"adopt", "probe"}
      BY <3>1 DEF Knowing
    <3>3. QED
      BY <2>1, <3>1, <3>2, UnroutedCall
  <2>3. CASE state # "offline"
    <3>1. Stamp(c, "unloading", {}) /\ pc[c] = "unload" /\ pc'[c] = "unload_stop"
      BY <1>3, <2>3 DEF UnloadBegin, EnterUnload, Go, TaskTypes
    <3>2. state' \in Limbo /\ state' \notin Dispatchable
      BY <3>1 DEF Stamp, Limbo, Dispatchable
    <3>3. "sanity" \in marks => "sanity" \in marks'
      BY <3>1, LifecycleAssumption DEF Stamp, Carry
    <3>4. /\ pc[c] \in BeforeStop /\ pc'[c] \in BeforeStop
          /\ pc'[c] \notin Knowing \union {"adopt", "probe"}
      BY <3>1 DEF BeforeStop, Knowing
    <3>5. QED
      BY <2>1, <3>2, <3>3, <3>4, UnroutedCall
  <2>4. QED
    BY <2>2, <2>3
<1>4. CASE ResetBegin(c)
  <2>1. /\ state' = state /\ marks' = marks /\ tail' = tail /\ seen' = seen
        /\ pc'[c] = "reset_stop"
        /\ \A q \in Procs \ {c} : pc'[q] = pc[q]
    BY <1>4 DEF ResetBegin, Go, TaskTypes, record
  <2>2. pc'[c] \in BeforeStop /\ pc'[c] \notin Knowing \union {"adopt", "probe"}
    BY <2>1 DEF BeforeStop, Knowing
  <2>3. QED
    BY <2>1, <2>2, UnroutedCall DEF Unrouted
<1>5. QED
  BY <1>1, <1>2, <1>3, <1>4 DEF LockStep

\* A load that runs on such a slot found a failed output check, and ends before READY or
\* starts the unit, which registers it.
LEMMA UnroutedLoadStep ==
    ASSUME TaskTypes, LocalTypes, RecordTypes, Unrouted, NEW c \in Calls, LoadStep(c)
    PROVE  Routed' \/ Unrouted'
<1> USE Kinds, CallKinds
<1>1. "sanity" \in marks /\ state \notin Dispatchable
  BY DEF LoadStep, StallCheck, DriftCheck, Prepare, Pulled, Preflight, Spawned, SpawnRaises,
         AwaitReady, Persist, CountFailure, StampError, Raise, Unrouted, BeforeStop, Final
<1>2. CASE Spawned(c)
  BY <1>2 DEF Spawned, Routed
<1>3. CASE ~Spawned(c)
  <2>1. \/ StallCheck(c) \/ Prepare(c) \/ Pulled(c) \/ Preflight(c) \/ SpawnRaises(c)
        \/ CountFailure(c) \/ StampError(c) \/ Raise(c)
    BY <1>3 DEF LoadStep, DriftCheck, AwaitReady, Persist, Unrouted, Knowing
  <2>2. state' \notin Dispatchable
    BY <1>1, <2>1 DEF StallCheck, Prepare, Pulled, Preflight, SpawnRaises, CountFailure,
                      StampError, Raise, Advance, Stamp, record, Dispatchable
  <2>3. "sanity" \in marks'
    BY <1>1, <2>1, LifecycleAssumption
       DEF StallCheck, Prepare, Pulled, Preflight, SpawnRaises, CountFailure, StampError, Raise,
           Advance, Stamp, Carry, record
  <2>4. pc'[c] \notin Knowing \union {"adopt", "probe"}
    BY <2>1 DEF StallCheck, Prepare, Pulled, Preflight, SpawnRaises, CountFailure, StampError,
                Raise, Advance, End, Go, TaskTypes, Knowing
  <2>5. \A q \in Procs \ {c} : pc'[q] = pc[q] \/ (q = Watchdog /\ pc'[q] = "off")
    BY <2>1 DEF StallCheck, Prepare, Pulled, Preflight, SpawnRaises, CountFailure, StampError,
                Raise, Advance, End, Go, TaskTypes
  <2>6. \A q \in Polls \union Calls : q # c => seen'[q] = seen[q]
    BY <2>1 DEF StallCheck, Prepare, Pulled, Preflight, SpawnRaises, CountFailure, StampError,
                Raise, Forget, LocalTypes
  <2>7. tail'[Watchdog] = tail[Watchdog]
    BY <2>1 DEF StallCheck, Prepare, Pulled, Preflight, SpawnRaises, CountFailure, StampError,
                Raise, Advance, Stamp, RecordTypes
  <2>8. QED
    BY <2>2, <2>3, <2>4, <2>5, <2>6, <2>7, UnroutedCall
<1>4. QED
  BY <1>2, <1>3

\* A status() reads a record that is not adopted, or meets the failed output check.
LEMMA UnroutedStatusStep ==
    ASSUME TaskTypes, LocalTypes, RecordTypes, WorldTypes, IPrompt, Unrouted, ~Routed,
           NEW p \in Calls \union Polls, StatusStep(p)
    PROVE  Unrouted'
<1> USE Kinds, CallKinds
<1>1. p \in Calls => "sanity" \in marks
  BY DEF StatusStep, ReadRecord, Reconcile, StampDead, StampClean, StampRemoved, DropRoute,
         Return, AdoptCheck, AdoptHealth, AdoptStalled, Adopted, Unrouted, BeforeStop, Final
<1>2. ReadRecord(p) \/ Reconcile(p) \/ Return(p) \/ AdoptCheck(p)
  BY DEF StatusStep, StampDead, StampClean, StampRemoved, DropRoute, AdoptHealth, AdoptStalled,
         Adopted, Unrouted, Knowing, IPrompt
<1>3. state' = state /\ marks' = marks /\ tail' = tail
  BY <1>2 DEF ReadRecord, Reconcile, Return, AdoptCheck, record
<1>4. \A q \in Procs \ {p} : pc'[q] = pc[q] \/ (q = Watchdog /\ pc'[q] = "off")
  BY <1>2 DEF ReadRecord, Reconcile, Return, AdoptCheck, End, Go, TaskTypes
<1>5. \A q \in Procs \ {p} : seen'[q] = seen[q]
  BY <1>2 DEF ReadRecord, Reconcile, Return, AdoptCheck, Forget, LocalTypes
<1>6. /\ pc'[p] \notin Knowing
      /\ pc'[p] = "adopt" => "sanity" \in marks
      /\ pc'[p] = "probe" /\ seen'[p].state \in {"offline", "error"} => "sanity" \in marks
  <2>1. unit \in Active
    BY DEF Routed
  <2>2. CASE ReadRecord(p)
    <3>1. pc'[p] = "probe" /\ seen'[p].state = state
      BY <2>2 DEF ReadRecord, Go, TaskTypes, LocalTypes
    <3>2. QED
      BY <3>1 DEF Unrouted, Limbo, Knowing
  <2>3. CASE Reconcile(p)
    BY <2>1, <2>3 DEF Reconcile, Go, TaskTypes, Unrouted, Knowing
  <2>4. CASE Return(p)
    BY <2>4 DEF Return, End, Go, TaskTypes, Knowing
  <2>5. CASE AdoptCheck(p)
    BY <2>1, <2>5 DEF AdoptCheck, Go, TaskTypes, Unrouted, Knowing
  <2>6. QED
    BY <1>2, <2>2, <2>3, <2>4, <2>5
<1>7. \A q \in (Polls \union Calls) \ {p} : pc'[q] = pc[q] /\ seen'[q] = seen[q]
  BY <1>4, <1>5
<1>8. \A q \in Polls \union Calls :
          /\ pc'[q] \notin Knowing
          /\ pc'[q] = "adopt" => "sanity" \in marks'
          /\ pc'[q] = "probe" /\ seen'[q].state \in {"offline", "error"} => "sanity" \in marks'
  BY <1>3, <1>6, <1>7 DEF Unrouted
<1>9. "sanity" \in marks' \/ (state' \in Limbo /\ \A d \in Calls : pc'[d] \in BeforeStop)
  BY <1>1, <1>3, <1>7 DEF Unrouted
<1>10. pc'[Watchdog] \in Strikes => tail'[Watchdog] # None
  BY <1>3, <1>4 DEF Unrouted, Strikes
<1>11. QED
  BY <1>3, <1>8, <1>9, <1>10 DEF Unrouted

LEMMA UnroutedOthers ==
    ASSUME TaskTypes, RecordTypes, WorldTypes, IModel, Unrouted, ~Routed,
           \/ \E p \in Procs : Tail(p)
           \/ \E p \in Polls : Poll(p)
           \/ \E r \in Requests : RequestArrives(r) \/ RequestEnters(r) \/ RequestLeaves(r)
           \/ WatcherStep \/ PromoterStep \/ SweepDemotes
           \/ UnitAnswers \/ UnitFault \/ Unassign \/ CoolDown
    PROVE  Routed' \/ Unrouted'
<1> USE Kinds, CallKinds
<1>1. state \notin Dispatchable /\ unit \in Active /\ ~upstream
  BY DEF Unrouted, Routed
<1>2. ASSUME NEW p \in Procs, Tail(p) PROVE Unrouted'
  <2>1. state' = state /\ marks' = marks /\ seen' = seen
    BY <1>2 DEF Tail, record
  <2>2. ASSUME NEW q \in Polls \union Calls
        PROVE  pc'[q] = pc[q] \/ (q \in Calls /\ pc'[q] = "raised")
    BY <1>2, <2>2 DEF Tail
  <2>3. pc'[Watchdog] \in Strikes => tail'[Watchdog] # None
    <3>1. CASE tail[p] \in Live
      <4>1. p # Watchdog
        BY <3>1 DEF IModel
      <4>2. tail'[Watchdog] = tail[Watchdog]
        BY <1>2, <3>1, <4>1 DEF Tail
      <4>3. pc'[Watchdog] = pc[Watchdog] \/ pc'[Watchdog] = "sleep"
        BY <1>2, <3>1 DEF Tail
      <4>4. QED
        BY <4>2, <4>3 DEF Unrouted, Strikes
    <3>2. CASE tail[p] \notin Live
      BY <1>2, <3>2 DEF Tail, Strikes
    <3>3. QED
      BY <3>1, <3>2
  <2>4. "raised" \in BeforeStop /\ "raised" \notin Knowing \union {"adopt", "probe"}
    BY DEF BeforeStop, Knowing, Final
  <2>5. QED
    BY <2>1, <2>2, <2>3, <2>4 DEF Unrouted
<1>3. ASSUME NEW p \in Polls, Poll(p) PROVE Unrouted'
  <2>1. /\ state' = state /\ marks' = marks /\ seen' = seen /\ tail' = tail
        /\ pc'[p] = "status" /\ \A q \in Procs \ {p} : pc'[q] = pc[q]
    BY <1>3 DEF Poll, Go, TaskTypes, record
  <2>2. QED
    BY <2>1 DEF Unrouted, Knowing
<1>4. CASE \E r \in Requests : RequestArrives(r) \/ RequestEnters(r) \/ RequestLeaves(r)
  <2>1. PICK r \in Requests : RequestEnters(r) \/ RequestLeaves(r)
    BY <1>1, <1>4 DEF RequestArrives
  <2>2. /\ state' = state /\ marks' = marks /\ seen' = seen /\ tail' = tail
        /\ \A q \in Procs \ {r} : pc'[q] = pc[q]
    BY <1>1, <2>1 DEF RequestEnters, RequestLeaves, EnterServing, Go, TaskTypes, record,
                      Dispatchable
  <2>3. \A q \in Polls \union Calls \union {Watchdog} : pc'[q] = pc[q]
    BY <2>2
  <2>4. QED
    BY <2>2, <2>3 DEF Unrouted
<1>5. CASE WatcherStep
  <2>1. WatcherPolls
    BY <1>5 DEF WatcherStep, WatcherLocks, WatcherStamps, WatcherDeclines, Runs, Unrouted
  <2>2. state' = state /\ marks' = marks /\ seen' = seen /\ tail' = tail
    BY <2>1 DEF WatcherPolls, record
  <2>3. CASE state \notin Live /\ Go(Watchdog, "off")
    <3>1. \A q \in Procs \ {Watchdog} : pc'[q] = pc[q]
      BY <2>3 DEF Go, TaskTypes
    <3>2. pc'[Watchdog] = "off"
      BY <2>3 DEF Go, TaskTypes
    <3>3. QED
      BY <2>2, <3>1, <3>2 DEF Unrouted, Strikes
  <2>4. CASE \E v \in Recoveries : pc' = [pc EXCEPT ![Watchdog] = v, ![v] = "unload"]
    <3>1. PICK v \in Recoveries : pc' = [pc EXCEPT ![Watchdog] = v, ![v] = "unload"]
      BY <2>4
    <3>2. v \in Calls /\ v \notin Strikes
      BY NamesAssumption DEF Strikes, Places
    <3>3. /\ pc'[v] = "unload" /\ pc'[Watchdog] = v
          /\ \A q \in Procs \ {v, Watchdog} : pc'[q] = pc[q]
      BY <3>1, <3>2 DEF TaskTypes
    <3>4. pc'[v] \in BeforeStop /\ pc'[v] \notin Knowing \union {"adopt", "probe"}
      BY <3>3 DEF BeforeStop, Knowing
    <3>5. \A q \in (Polls \union Calls) \ {v} : pc'[q] = pc[q]
      BY <3>3
    <3>6. QED
      BY <2>2, <3>2, <3>3, <3>4, <3>5 DEF Unrouted
  <2>5. QED
    BY <1>1, <2>1, <2>3, <2>4 DEF WatcherPolls
<1>6. CASE PromoterStep
  <2>1. CASE PromoterPolls \/ (Promote /\ state # "warming")
    <3>1. /\ state' = state /\ marks' = marks /\ seen' = seen /\ tail' = tail
          /\ \A q \in Procs \ {Promoter} : pc'[q] = pc[q]
      BY <2>1 DEF PromoterPolls, Promote, Go, TaskTypes, record
    <3>2. \A q \in Polls \union Calls \union {Watchdog} : pc'[q] = pc[q]
      BY <3>1
    <3>3. QED
      BY <3>1, <3>2 DEF Unrouted
  <2>2. CASE Promote /\ state = "warming"
    BY <2>2 DEF Promote, Routed
  <2>3. QED
    BY <1>6, <2>1, <2>2 DEF PromoterStep
<1>7. CASE SweepDemotes
  BY <1>1, <1>7 DEF SweepDemotes, Dispatchable
<1>8. CASE UnitAnswers \/ UnitFault \/ Unassign \/ CoolDown
  BY <1>8 DEF UnitAnswers, UnitFault, Unassign, CoolDown, record, tasks, Unrouted
<1>9. QED
  BY <1>2, <1>3, <1>4, <1>5, <1>6, <1>7, <1>8

\* The slot's route comes back, or the slot stays out of the dispatcher's sight.
LEMMA UnroutedKept ==
    ASSUME Punctual, Restartable, TaskTypes, LocalTypes, RecordTypes, WorldTypes, IPrompt,
           IModel, Unrouted, ~Routed, pc[Boot] \in {"adopted_warming", "return", "idle"},
           Next, ~ApiRestart
    PROVE  Restored'
<1> USE Kinds, CallKinds
<1>1. CASE StatusStep(Boot)
  <2>1. Adopted(Boot) \/ Return(Boot)
    BY <1>1 DEF StatusStep, ReadRecord, Reconcile, StampDead, StampClean, StampRemoved,
                DropRoute, AdoptCheck, AdoptHealth, AdoptStalled
  <2>2. /\ state' = state /\ marks' = marks /\ tail' = tail
        /\ pc'[Boot] \in {"return", "idle"}
        /\ \A q \in Procs \ {Boot, Promoter} : pc'[q] = pc[q]
    BY <2>1 DEF Adopted, Return, Go, TaskTypes, record
  <2>3. \A q \in Procs \ {Boot} : seen'[q] = seen[q]
    BY <2>1 DEF Adopted, Return, Forget, LocalTypes
  <2>4. \A q \in Polls \union Calls : pc'[q] = pc[q] /\ seen'[q] = seen[q]
    BY <2>2, <2>3
  <2>5. Unrouted'
    BY <2>2, <2>4 DEF Unrouted
  <2>6. QED
    BY <2>2, <2>5 DEF Restored
<1>2. CASE ~StatusStep(Boot)
  <2>1. ~BootReconcile
    BY DEF BootReconcile
  <2>2. pc'[Boot] = pc[Boot]
    BY <1>2, <2>1, BootMoves
  <2>3. SUFFICES Routed' \/ Unrouted'
    BY <2>2 DEF Restored
  <2>4. ASSUME NEW c \in Calls, StopStep(c) PROVE Routed'
    BY <2>4 DEF StopStep, ReloadStopped, SanityStopped, UnloadStopped, ResetStopped, terminate,
                StopUnit, Punctual, Active, Routed
  <2>5. ASSUME NEW c \in Calls, LateStep(c) PROVE FALSE
    BY <2>5 DEF LateStep, LateStopReturns, LateStopRaises, SlowStopEnds, IPrompt
  <2>6. QED
    BY <1>2, <2>1, <2>4, <2>5, UnroutedCallStep, UnroutedLoadStep, UnroutedStatusStep,
       UnroutedOthers DEF Next
<1>3. QED
  BY <1>1, <1>2

LEMMA RestartRestores == ASSUME TaskTypes, ApiRestart PROVE Restored'
<1> USE Kinds, CallKinds
<1>1. /\ pc'[Boot] = "boot" /\ pc'[Watchdog] = "off" /\ pc'[Promoter] = "off"
      /\ \A p \in Polls : pc'[p] = "idle"
      /\ \A p \in Calls \union Requests : pc'[p] \in Final \union {"idle"}
      /\ \A p \in Procs : tail'[p] = None
  BY DEF ApiRestart, Final
<1>2. QED
  BY <1>1 DEF Restored, StartingUp

LEMMA RestoredKept ==
    ASSUME Punctual, NoRevival, Restartable, IInv, IPrompt, IRoute, Next PROVE IRoute'
<1>1. TaskTypes /\ LocalTypes /\ RecordTypes /\ WorldTypes
  BY TypeParts DEF IInv
<1>2. IModel'
  BY <1>1, ModelCallStep, ModelOthers DEF Next, IRoute
<1>3. CASE ApiRestart
  BY <1>1, <1>2, <1>3, RestartRestores DEF IRoute
<1>4. CASE ~ApiRestart /\ Routed
  BY <1>1, <1>2, <1>4, RoutedKept DEF IRoute, Restored
<1>5. CASE ~ApiRestart /\ ~Routed /\ pc[Boot] = "adopted_ready"
  <2>1. CASE StatusStep(Boot)
    BY <1>2, <1>5, <2>1
       DEF StatusStep, ReadRecord, Reconcile, StampDead, StampClean, StampRemoved, DropRoute,
           Return, AdoptCheck, AdoptHealth, AdoptStalled, Adopted, IRoute, Restored, Routed
  <2>2. CASE ~StatusStep(Boot)
    <3>1. pc'[Boot] = "adopted_ready"
      BY <1>1, <1>5, <2>2, BootMoves DEF BootReconcile
    <3>2. QED
      BY <1>2, <3>1 DEF IRoute, Restored
  <2>3. QED
    BY <2>1, <2>2
<1>6. CASE ~ApiRestart /\ ~Routed /\ pc[Boot] \in {"boot", "adopt", "health"}
  <2>1. StartingUp /\ (pc[Boot] # "boot" => state \notin Dispatchable) /\ IModel
    BY <1>6 DEF IRoute, Restored
  <2>2. QED
    BY <1>1, <1>2, <1>6, <2>1, StartupPass, StartupOthers DEF IRoute
<1>7. CASE ~ApiRestart /\ ~Routed /\ pc[Boot] \in {"adopted_warming", "return", "idle"}
  BY <1>1, <1>2, <1>7, UnroutedKept DEF IRoute, Restored
<1>8. QED
  BY <1>3, <1>4, <1>5, <1>6, <1>7 DEF IRoute, Restored

\* Nothing but a restart of the API uses one up: every other step leaves the budget alone.
LEMMA BudgetKept == ASSUME [Next]_vars, ~ApiRestart PROVE restarts' = restarts
<1>1. ASSUME NEW c \in Calls, CallStep(c) \/ LockStep(c) \/ LoadStep(c)
      PROVE  restarts' = restarts
  BY <1>1 DEF CallStep, LockStep, CallLoad, CallUnload, CallRestart, CallSwap, SweepEvicts,
              LoadAbandoned, LoadBegin, UnloadBegin, EnterUnload, ResetBegin, LoadStep,
              StallCheck, DriftCheck, Prepare, Pulled, Preflight, Spawned, SpawnRaises,
              AwaitReady, Persist, CountFailure, StampError, Raise
<1>2. ASSUME NEW c \in Calls, StopStep(c) \/ LateStep(c)
      PROVE  restarts' = restarts
  BY <1>2 DEF StopStep, ReloadStopped, SanityStopped, UnloadStopped, ResetStopped, LateStep,
              LateStopReturns, LateStopRaises, SlowStopEnds
<1>3. ASSUME NEW p \in Procs, Tail(p) \/ StatusStep(p) \/ Poll(p)
      PROVE  restarts' = restarts
  BY <1>3 DEF Tail, Poll, StatusStep, ReadRecord, Reconcile, StampDead, StampClean, StampRemoved,
              DropRoute, Return, AdoptCheck, AdoptHealth, AdoptStalled, Adopted
<1>4. ASSUME NEW r \in Requests, RequestArrives(r) \/ RequestEnters(r) \/ RequestLeaves(r)
      PROVE  restarts' = restarts
  BY <1>4 DEF RequestArrives, RequestEnters, RequestLeaves, EnterServing
<1>5. ASSUME \/ BootReconcile \/ WatcherStep \/ PromoterStep \/ SweepDemotes
             \/ UnitAnswers \/ UnitFault \/ Unassign \/ CoolDown \/ UNCHANGED vars
      PROVE  restarts' = restarts
  BY <1>5 DEF BootReconcile, WatcherStep, WatcherPolls, WatcherLocks, WatcherStamps,
              WatcherDeclines, PromoterStep, PromoterPolls, Promote, SweepDemotes, UnitAnswers,
              UnitFault, Unassign, CoolDown, vars
<1>6. QED
  BY Kinds, <1>1, <1>2, <1>3, <1>4, <1>5 DEF Next

\* Without a restart of the API there is none left to make.
NoneLeft == restarts = 0

LEMMA NoRestart == ASSUME MaxRestarts = 0 PROVE Spec => []NoneLeft
<1>1. Init => NoneLeft
  BY DEF Init, NoneLeft
<1>2. NoneLeft /\ [Next]_vars => NoneLeft'
  BY BudgetKept DEF NoneLeft, ApiRestart
<1>3. QED
  BY <1>1, <1>2, PTL DEF Spec

\* When every stop returns within its budget and dead units stay dead, a dispatchable slot
\* at rest over an active unit has its route: always while the API process lives, and again
\* once the startup after each of its restarts is over, in whatever state the restart left
\* the record, the unit and the calls, if no load() comes on an interrupted record, no unit
\* stalls and the slot has a model.
THEOREM RoutesKept ==
    Punctual /\ NoRevival /\ (MaxRestarts = 0 \/ Restartable) => (Spec => []ReadyIsRoutable)
<1> SUFFICES ASSUME Punctual, NoRevival, MaxRestarts = 0 \/ Restartable
             PROVE  Spec => []ReadyIsRoutable
  OBVIOUS
<1>1. Spec => []IPrompt
  BY PromptInvariant
<1>2. CASE MaxRestarts = 0
  <2>1. Spec => []NoneLeft
    BY <1>2, NoRestart
  <2>2. Init => Routed
    BY DEF Init, Routed, Active
  <2>3. IInv /\ IPrompt /\ NoneLeft /\ Routed /\ [Next]_vars => Routed'
    <3> SUFFICES ASSUME IInv, IPrompt, NoneLeft, Routed, [Next]_vars PROVE Routed'
      OBVIOUS
    <3>1. WorldTypes
      BY TypeParts DEF IInv
    <3>2. CASE UNCHANGED vars
      BY <3>2 DEF vars, world, Routed
    <3>3. ~ApiRestart
      BY DEF ApiRestart, NoneLeft
    <3>4. QED
      BY <3>1, <3>2, <3>3, RoutedKept
  <2>4. Routed => ReadyIsRoutable
    BY DEF Routed, ReadyIsRoutable
  <2>5. QED
    BY <1>1, <2>1, <2>2, <2>3, <2>4, Invariance, PTL DEF Spec
<1>3. CASE Restartable
  <2>1. Init => IRoute
    BY <1>3 DEF Init, IRoute, IModel, Restored, Routed, Restartable, Active, Live, Dispatchable,
                None, Procs
  <2>2. IInv /\ IPrompt /\ IRoute /\ [Next]_vars => IRoute'
    <3> SUFFICES ASSUME IInv, IPrompt, IRoute, [Next]_vars PROVE IRoute'
      OBVIOUS
    <3>1. CASE UNCHANGED vars
      BY <3>1 DEF vars, record, world, tasks, IRoute, IModel, Restored, Routed, StartingUp,
                  Unrouted
    <3>2. CASE Next
      BY <1>3, <3>2, RestoredKept
    <3>3. QED
      BY <3>1, <3>2
  <2>3. IRoute => ReadyIsRoutable
    BY DEF IRoute, Restored, Routed, Unrouted, ReadyIsRoutable, AtRest
  <2>4. QED
    BY <1>1, <2>1, <2>2, <2>3, Invariance, PTL DEF Spec
<1>4. QED
  BY <1>2, <1>3

-----------------------------------------------------------------------------
(* The slot keeps the promise of SlotPromise.                              *)

Promised == [Promise!Next]_(Promise!vars)

Halting == \E c \in Calls : pc[c] = "unload_stop"

\* The phase, from what it depends on.
PhaseWhen(s, halting) ==
    CASE s = "offline" -> "down"
      [] s \in Inflight -> "starting"
      [] s \in Dispatchable -> "up"
      [] s = "unloading" /\ halting -> "stopping"
      [] OTHER -> "failed"

LEMMA PhaseParts ==
    /\ Phase = PhaseWhen(state, Halting)
    /\ Phase' = PhaseWhen(state', Halting')
BY DEF Phase, PhaseWhen, Halting

\* The phase of each state.
LEMMA Phases ==
    ASSUME NEW h \in BOOLEAN
    PROVE  /\ PhaseWhen("offline", h) = "down" /\ PhaseWhen("error", h) = "failed"
           /\ \A s \in Inflight : PhaseWhen(s, h) = "starting"
           /\ \A s \in Dispatchable : PhaseWhen(s, h) = "up"
           /\ PhaseWhen("unloading", h) = IF h THEN "stopping" ELSE "failed"
BY DEF PhaseWhen, Inflight, Dispatchable

LEMMA EveryState ==
    \A s \in States : s \in {"offline", "error", "unloading"} \union Inflight \union Dispatchable
BY DEF States, Inflight, Dispatchable

LEMMA HaltingIs == Halting \in BOOLEAN /\ Halting' \in BOOLEAN
BY DEF Halting

\* Where a task looks at the unit.
Looking == {"probe", "boot", "reason", "clean", "removed", "adopt", "restall", "health"}

LEMMA LooksAre ==
    /\ \A place : place \notin Looking => LookOf(place) = "no"
    /\ LookOf("probe") = "looking" /\ LookOf("boot") = "looking"
    /\ LookOf("reason") = "dead" /\ LookOf("clean") = "dead" /\ LookOf("removed") = "dead"
    /\ LookOf("adopt") = "alive" /\ LookOf("restall") = "alive" /\ LookOf("health") = "alive"
BY DEF LookOf, Looking

\* No task begins, moves on or ends a look or an unload's stop.
Unseen ==
    \A q \in Procs : \/ pc'[q] = pc[q]
                     \/ /\ pc[q] \notin Looking /\ pc[q] # "unload_stop"
                        /\ pc'[q] \notin Looking /\ pc'[q] # "unload_stop"

SameLooks == \A q \in Procs : LookOf(pc'[q]) = LookOf(pc[q])

\* p's look alone becomes what place makes it.
OneLook(p, place) ==
    \A q \in Procs : LookOf(pc'[q]) = IF q = p THEN LookOf(place) ELSE LookOf(pc[q])

LEMMA Unmoved == ASSUME Unseen PROVE SameLooks /\ Halting' = Halting
<1>1. SameLooks
  BY LooksAre DEF Unseen, SameLooks
<1>2. \A c \in Calls : (pc'[c] = "unload_stop") = (pc[c] = "unload_stop")
  BY Kinds DEF Unseen
<1>3. QED
  BY <1>1, <1>2 DEF Halting

\* A task goes from one place to another, and neither is a stop.
LEMMA OneGoes ==
    ASSUME TaskTypes, NEW p \in Procs, NEW place, Go(p, place),
           pc[p] # "unload_stop", place # "unload_stop"
    PROVE  OneLook(p, place) /\ Halting' = Halting
<1>1. \A q \in Procs : pc'[q] = IF q = p THEN place ELSE pc[q]
  BY DEF TaskTypes, Go
<1>2. OneLook(p, place)
  BY <1>1 DEF OneLook
<1>3. \A c \in Calls : (pc'[c] = "unload_stop") = (pc[c] = "unload_stop")
  BY <1>1, Kinds
<1>4. QED
  BY <1>2, <1>3 DEF Halting

\* Only the holder of the lock is in an unload's stop.
LEMMA HaltedByHolder ==
    ASSUME LockDiscipline, lock \notin Calls \/ pc[lock] # "unload_stop"
    PROVE  ~Halting
BY LockedPlaces DEF LockDiscipline, Halting

\* The unit ends, or nothing that others see changes.
LEMMA Stays ==
    ASSUME lock' = lock, Phase' = Phase, SameLooks, unit' \in Active => unit \in Active
    PROVE  Promised
<1>1. [q \in Procs |-> LookOf(pc[q])]' = [q \in Procs |-> LookOf(pc[q])]
  BY DEF SameLooks
<1>2. CASE unit \in Active /\ unit' \notin Active
  <2>1. Promise!Die
    BY <1>1, <1>2 DEF Promise!Die
  <2>2. QED
    BY <2>1 DEF Promised, Promise!Next
<1>3. CASE (unit \in Active) = (unit' \in Active)
  BY <1>1, <1>3 DEF Promised, Promise!vars
<1>4. QED
  BY <1>2, <1>3

\* A step that shows nothing of itself but, perhaps, the end of the unit.
LEMMA Hidden ==
    ASSUME Unseen, lock' = lock, state' = state, unit' \in Active => unit \in Active
    PROVE  Promised
<1>1. Phase' = Phase
  BY Unmoved, PhaseParts
<1>2. QED
  BY <1>1, Unmoved, Stays

\* The lock is taken: the slot is left as it is, stopped or promoted.
LEMMA Takes ==
    ASSUME NEW p \in Procs, lock = Nobody, lock' = p, unit' = unit, SameLooks,
           \/ Phase' = Phase
           \/ Phase # "down" /\ Phase' = "stopping"
           \/ Phase = "starting" /\ Phase' = "up"
    PROVE  Promised
<1>1. [q \in Procs |-> LookOf(pc[q])]' = [q \in Procs |-> LookOf(pc[q])]
  BY DEF SameLooks
<1>2. Promise!Take(p)
  BY <1>1 DEF Promise!Take
<1>3. QED
  BY <1>2 DEF Promised, Promise!Next

\* The lock is given back, with whatever look its holder was taking.
LEMMA Leaves ==
    ASSUME RecordTypes, LockDiscipline, NEW p \in Procs, lock = p, lock' = Nobody,
           state' = state, unit' = unit, OneLook(p, "return"),
           \A c \in Calls : pc'[c] = "unload_stop" => c # p /\ pc[c] = "unload_stop"
    PROVE  Promised
<1>1. ~Halting'
  BY LockedPlaces DEF LockDiscipline, Halting
<1>2. Phase' = IF Phase = "stopping" THEN "failed" ELSE Phase
  BY <1>1, PhaseParts, Phases, EveryState, HaltingIs DEF RecordTypes
<1>3. [q \in Procs |-> LookOf(pc[q])]' = [[q \in Procs |-> LookOf(pc[q])] EXCEPT ![p] = "no"]
  BY LooksAre DEF OneLook, Looking
<1>4. Promise!Leave(p)
  BY <1>2, <1>3 DEF Promise!Leave
<1>5. QED
  BY <1>4 DEF Promised, Promise!Next

\* The holder moves the slot; it may have stopped the unit.
LEMMA Moves ==
    ASSUME NEW p \in Procs, lock = p, lock' = p, SameLooks, unit' \in Active => unit \in Active,
           \/ Phase' \in {"down", "failed"}
           \/ Phase \in {"down", "failed"} /\ Phase' = "starting"
           \/ Phase = "starting" /\ Phase' = "up" /\ unit' \in Active,
           Phase = "stopping" /\ Phase' = "down" => unit' \notin Active
    PROVE  Promised
<1>1. [q \in Procs |-> LookOf(pc[q])]' = [q \in Procs |-> LookOf(pc[q])]
  BY DEF SameLooks
<1>2. Promise!Move(p)
  BY <1>1 DEF Promise!Move
<1>3. QED
  BY <1>2 DEF Promised, Promise!Next

\* The holder, outside an unload, takes the slot down.
LEMMA Falls ==
    ASSUME RecordTypes, LockDiscipline, Unseen, NEW p \in Procs, lock = p, lock' = p,
           p \notin Calls \/ pc[p] # "unload_stop", state' \in {"offline", "error"},
           unit' \in Active => unit \in Active
    PROVE  Promised
<1>1. ~Halting
  BY HaltedByHolder
<1>2. Phase # "stopping" /\ Phase' \in {"down", "failed"}
  BY <1>1, PhaseParts, Phases, EveryState, HaltingIs DEF RecordTypes
<1>3. QED
  BY <1>2, Unmoved, Moves

\* The holder brings the slot up, and says so only over a unit that runs.
LEMMA Rises ==
    ASSUME Unseen, NEW p \in Procs, lock = p, lock' = p, unit' = unit,
           \/ state \in {"offline", "error"} \union Inflight /\ state' \in Inflight
           \/ state \in Dispatchable \union {"warming"} /\ state' = "ready" /\ unit \in Active
    PROVE  Promised
<1>1. CASE Phase' = Phase
  BY <1>1, Unmoved, Stays
<1>2. CASE Phase' # Phase
  <2>1. \/ Phase \in {"down", "failed"} /\ Phase' = "starting"
        \/ Phase = "starting" /\ Phase' = "up" /\ unit \in Active
    BY <1>2, PhaseParts, Phases, HaltingIs DEF Inflight, Dispatchable
  <2>2. QED
    BY <2>1, Unmoved, Moves
<1>3. QED
  BY <1>1, <1>2

\* A look begins.
LEMMA Looks ==
    ASSUME NEW p \in Procs, lock' = lock, Phase' = Phase, unit' = unit,
           LookOf(pc[p]) = "no", OneLook(p, "probe")
    PROVE  Promised
<1>1. [q \in Procs |-> LookOf(pc[q])]' = [[q \in Procs |-> LookOf(pc[q])] EXCEPT ![p] = "looking"]
  BY LooksAre DEF OneLook
<1>2. Promise!Look(p)
  BY <1>1 DEF Promise!Look
<1>3. QED
  BY <1>2 DEF Promised, Promise!Next

\* It sees whether the unit runs.
LEMMA Finds ==
    ASSUME NEW p \in Procs, NEW place, lock' = lock, Phase' = Phase, unit' = unit,
           LookOf(pc[p]) = "looking", OneLook(p, place),
           LookOf(place) = IF unit \in Active THEN "alive" ELSE "dead"
    PROVE  Promised
<1>1. [q \in Procs |-> LookOf(pc[q])]'
        = [[q \in Procs |-> LookOf(pc[q])] EXCEPT ![p] = IF unit \in Active THEN "alive" ELSE "dead"]
  BY DEF OneLook
<1>2. Promise!Find(p)
  BY <1>1 DEF Promise!Find
<1>3. QED
  BY <1>2 DEF Promised, Promise!Next

\* It ends, and may move the slot by what it found.
LEMMA Reports ==
    ASSUME NEW p \in Procs, NEW place, place \notin Looking, lock' = lock, unit' = unit,
           LookOf(pc[p]) # "no", OneLook(p, place),
           \/ Phase' = Phase
           \/ LookOf(pc[p]) = "dead" /\ Phase' \in {"down", "failed"}
           \/ LookOf(pc[p]) = "alive" /\ Phase' = "starting"
           \/ LookOf(pc[p]) = "alive" /\ Phase' = "up" /\ unit \in Active
    PROVE  Promised
<1>1. [q \in Procs |-> LookOf(pc[q])]' = [[q \in Procs |-> LookOf(pc[q])] EXCEPT ![p] = "no"]
  BY LooksAre DEF OneLook
<1>2. Promise!Report(p)
  BY <1>1 DEF Promise!Report
<1>3. QED
  BY <1>2 DEF Promised, Promise!Next

\* A call takes the lock for its work, or only queues for it.
LEMMA PromiseCallStep ==
    ASSUME TaskTypes, RecordTypes, NEW c \in Calls, CallStep(c) \/ LockStep(c)
    PROVE  Promised
<1> USE Kinds
<1>1. CASE EnterUnload(c) /\ state # "offline" /\ pc[c] \in {"idle", "unload"}
  <2>1. /\ lock = Nobody /\ lock' = c /\ unit' = unit
        /\ state' = "unloading" /\ Go(c, "unload_stop")
    BY <1>1 DEF EnterUnload, Acquire, Stamp, world
  <2>2. SameLooks /\ Halting'
    BY <1>1, <2>1, LooksAre DEF Go, TaskTypes, SameLooks, Halting, Looking
  <2>3. Phase # "down" /\ Phase' = "stopping"
    BY <1>1, <2>1, <2>2, PhaseParts, Phases, EveryState, HaltingIs DEF RecordTypes
  <2>4. QED
    BY <2>1, <2>2, <2>3, Takes
<1>2. CASE \/ LoadBegin(c) \/ LoadAbandoned(c) \/ ResetBegin(c)
           \/ EnterUnload(c) /\ state = "offline" /\ pc[c] \in {"idle", "unload"}
  <2>1. lock = Nobody /\ lock' = c /\ unit' = unit /\ state' = state
    BY <1>2 DEF LoadBegin, LoadAbandoned, ResetBegin, EnterUnload, Acquire, world, record
  <2>2. Unseen
    BY <1>2 DEF LoadBegin, LoadAbandoned, ResetBegin, EnterUnload, Go, TaskTypes, Unseen, Looking
  <2>3. Phase' = Phase
    BY <2>1, <2>2, Unmoved, PhaseParts
  <2>4. QED
    BY <2>1, <2>2, <2>3, Unmoved, Takes
<1>3. CASE CallLoad(c) \/ CallUnload(c) \/ CallRestart(c) \/ CallSwap(c)
  <2>1. lock' = lock /\ state' = state /\ unit' = unit
    BY <1>3 DEF CallLoad, CallUnload, CallRestart, CallSwap, record, world
  <2>2. Unseen
    BY <1>3 DEF CallLoad, CallUnload, CallRestart, CallSwap, Starts, Go, TaskTypes, Unseen,
                Looking
  <2>3. QED
    BY <2>1, <2>2, Hidden
<1>4. CASE SweepEvicts(c) /\ ~EnterUnload(c)
  <2>1. lock' = lock /\ state' = state /\ unit' = unit
    BY <1>4 DEF SweepEvicts, record, world
  <2>2. Unseen
    BY <1>4 DEF SweepEvicts, Starts, Go, TaskTypes, Unseen, Looking
  <2>3. QED
    BY <2>1, <2>2, Hidden
<1>5. QED
  BY <1>1, <1>2, <1>3, <1>4 DEF CallStep, LockStep, UnloadBegin, SweepEvicts, Starts

\* Which states may go on to another without force.
LEMMA LegalTo ==
    ASSUME RecordTypes
    PROVE  /\ Legal("pulling") \/ Legal("starting") \/ Legal("warming")
                 => state \in {"offline", "error"} \union Inflight
           /\ Legal("ready") => state \in Dispatchable \union {"warming"}
<1>1. \A to \in {"pulling", "starting", "warming"} :
         /\ to \notin LegalTransitions["unloading"]
         /\ \A s \in Dispatchable : to \notin LegalTransitions[s]
  BY DEF LegalTransitions, States, Dispatchable
<1>2. \A s \in {"offline", "error", "unloading", "pulling", "starting"} :
         "ready" \notin LegalTransitions[s]
  BY DEF LegalTransitions, States
<1>3. \A to \in {"pulling", "starting", "warming"} : to \in Inflight
  BY DEF Inflight
<1>4. Legal("pulling") \/ Legal("starting") \/ Legal("warming")
        => state \in {"offline", "error"} \union Inflight
  BY <1>1, <1>3, EveryState DEF RecordTypes, Legal
<1>5. Legal("ready") => state \in Dispatchable \union {"warming"}
  BY <1>2, EveryState DEF RecordTypes, Legal, Inflight, Dispatchable
<1>6. QED
  BY <1>4, <1>5

\* A load moves the slot up its path, or takes it down.
LEMMA PromiseLoadStep ==
    ASSUME TaskTypes, RecordTypes, LockDiscipline, NEW c \in Calls, LoadStep(c)
    PROVE  Promised
<1> USE Kinds
<1>1. pc[c] \in Locked /\ pc[c] # "unload_stop" /\ pc[c] \notin Looking
  BY LockedPlaces
     DEF LoadStep, StallCheck, DriftCheck, Prepare, Pulled, Preflight, Spawned,
         SpawnRaises, AwaitReady, Persist, CountFailure, StampError, Raise, Looking
<1>2. lock = c
  BY <1>1 DEF LockDiscipline
<1>3. ASSUME NEW place, place \notin Looking, place # "unload_stop", Go(c, place)
      PROVE  Unseen
  BY <1>1, <1>3 DEF Go, TaskTypes, Unseen
<1>4. ASSUME NEW to \in {"pulling", "starting", "warming", "ready"},
             NEW place \in {"pulling", "spawning", "await_ready", "persist"},
             Advance(c, to, place)
      PROVE  /\ Unseen
             /\ \/ state' = state
                \/ Legal(to) /\ state' = to
  <2>1. \E to2 \in {place, "illegal"} : Go(c, to2)
    BY <1>4 DEF Advance
  <2>2. Unseen
    BY <1>3, <2>1 DEF Looking
  <2>3. QED
    BY <1>4, <2>2 DEF Advance, Stamp, record
<1>5. CASE Prepare(c) \/ Preflight(c)
  <2>1. lock' = c /\ unit' = unit
    BY <1>2, <1>5 DEF Prepare, Preflight, world
  <2>2. CASE Advance(c, "pulling", "pulling") \/ Advance(c, "starting", "spawning")
    <3>1. Unseen /\ (state' = state \/ (state \in {"offline", "error"} \union Inflight
                                          /\ state' \in Inflight))
      BY <1>4, <2>2, LegalTo DEF Inflight
    <3>2. QED
      BY <1>2, <2>1, <3>1, Hidden, Rises
  <2>3. CASE ~(Advance(c, "pulling", "pulling") \/ Advance(c, "starting", "spawning"))
    <3>1. /\ \E place \in {"status", "raise", "preflight", "failing"} : Go(c, place)
          /\ state' = state \/ state' = "offline"
      BY <1>5, <2>3 DEF Prepare, Preflight, Stamp, record
    <3>2. Unseen
      BY <3>1, <1>3 DEF Looking
    <3>3. QED
      BY <1>1, <1>2, <2>1, <3>1, <3>2, Hidden, Falls
  <2>4. QED
    BY <2>2, <2>3
<1>6. CASE Spawned(c)
  <2>1. lock' = c /\ unit' \in Active /\ Advance(c, "warming", "await_ready")
    BY <1>2, <1>6 DEF Spawned, Active
  <2>2. Unseen /\ (state' = state \/ (state \in {"offline", "error"} \union Inflight
                                        /\ Legal("warming") /\ state' = "warming"))
    BY <1>4, <2>1, LegalTo
  <2>3. state' = "warming" /\ Legal("warming") => state \in Inflight
    BY DEF RecordTypes, States, Legal, LegalTransitions, Inflight
  <2>4. Phase' = Phase
    BY <2>2, <2>3, PhaseParts, Phases, Unmoved, HaltingIs DEF Inflight
  <2>5. [q \in Procs |-> LookOf(pc[q])]' = [q \in Procs |-> LookOf(pc[q])]
    BY <2>2, Unmoved DEF SameLooks
  <2>6. Promise!Start(c)
    BY <1>2, <2>1, <2>4, <2>5 DEF Promise!Start
  <2>7. QED
    BY <2>6 DEF Promised, Promise!Next
<1>7. CASE AwaitReady(c)
  <2>1. lock' = c /\ unit' = unit
    BY <1>2, <1>7 DEF AwaitReady, world
  <2>2. CASE unit = "up" /\ Advance(c, "ready", "persist")
    <3>1. Unseen /\ (state' = state \/ (state \in Dispatchable \union {"warming"}
                                          /\ state' = "ready" /\ unit \in Active))
      BY <1>4, <2>2, LegalTo DEF Active
    <3>2. QED
      BY <1>2, <2>1, <3>1, Hidden, Rises
  <2>3. CASE Advance(c, "warming", "persist")
    <3>1. Unseen /\ (state' = state \/ (state \in {"offline", "error"} \union Inflight
                                          /\ state' \in Inflight))
      BY <1>4, <2>3, LegalTo DEF Inflight
    <3>2. QED
      BY <1>2, <2>1, <3>1, Hidden, Rises
  <2>4. CASE \E place \in {"sanity_stop", "failing"} : Go(c, place) /\ UNCHANGED <<record, failures, tail>>
    <3>1. Unseen /\ state' = state
      BY <1>3, <2>4 DEF record, Looking
    <3>2. QED
      BY <1>2, <2>1, <3>1, Hidden
  <2>5. QED
    BY <1>7, <2>2, <2>3, <2>4 DEF AwaitReady
<1>8. CASE StampError(c)
  <2>1. lock' = c /\ unit' = unit /\ state' = "error" /\ Go(c, "raise")
    BY <1>2, <1>8 DEF StampError, Stamp, world
  <2>2. Unseen
    BY <1>3, <2>1 DEF Looking
  <2>3. QED
    BY <1>1, <1>2, <2>1, <2>2, Falls
<1>9. CASE Raise(c)
  <2>1. lock' = Nobody /\ unit' = unit /\ state' = state
    BY <1>2, <1>9 DEF Raise, Release, record, world
  <2>2. /\ \A q \in Procs : q # c /\ q # Watchdog => pc'[q] = pc[q]
        /\ pc'[Watchdog] = pc[Watchdog] \/ (pc[Watchdog] = c /\ pc'[Watchdog] = "off")
        /\ pc'[c] \in {"raised", "refused"}
    BY <1>9 DEF Raise, End, TaskTypes
  <2>3. c \notin Looking
    BY NamesAssumption DEF Looking, Places
  <2>4. OneLook(c, "return")
    BY <2>2, <2>3, LooksAre DEF OneLook, Looking
  <2>5. QED
    BY <1>2, <2>1, <2>2, <2>4, Leaves
<1>10. CASE StallCheck(c) \/ DriftCheck(c) \/ Pulled(c) \/ SpawnRaises(c) \/ Persist(c)
            \/ CountFailure(c)
  <2>1. lock' = lock /\ state' = state /\ unit' \in {unit, "failed"}
    BY <1>10 DEF StallCheck, DriftCheck, Pulled, SpawnRaises, Persist, CountFailure, record, world
  <2>2. \E place \in {"raise", "refuse", "reload_stop", "status", "preflight", "failing",
                      "crashline", "crashline_sanity"} : Go(c, place)
    BY <1>10 DEF StallCheck, DriftCheck, Pulled, SpawnRaises, Persist, CountFailure
  <2>3. Unseen
    BY <1>3, <2>2 DEF Looking
  <2>4. QED
    BY <2>1, <2>3, Hidden DEF Active
<1>11. QED
  BY <1>5, <1>6, <1>7, <1>8, <1>9, <1>10 DEF LoadStep

\* A stop leaves OFFLINE or ERROR, OFFLINE after an unload only if it returned; what comes
\* after a late one leaves the slot alone, or retires an ERROR over a unit that is down.
LEMMA PromiseStopStep ==
    ASSUME TaskTypes, RecordTypes, LockDiscipline, ITokens, NEW c \in Calls,
           StopStep(c) \/ LateStep(c)
    PROVE  Promised
<1> USE Kinds
<1>1. ASSUME NEW how \in HowStopEnds, StopUnit(c, how)
      PROVE  (unit' \in Active => unit \in Active) /\ (how = "ok" => unit' \notin Active)
  BY <1>1 DEF StopUnit, Active
<1>2. ASSUME NEW how \in HowStopEnds, ReloadStopped(c, how) \/ ResetStopped(c, how)
      PROVE  Promised
  <2>1. pc[c] \in {"reload_stop", "reset_stop"} /\ lock = c
    BY <1>2, LockedPlaces DEF ReloadStopped, ResetStopped, LockDiscipline
  <2>2. lock' = c /\ StopUnit(c, how) /\ state' = "offline"
    BY <1>2, <2>1 DEF ReloadStopped, ResetStopped, terminate, Stamp
  <2>3. Unseen
    BY <1>2, <2>1 DEF ReloadStopped, ResetStopped, Go, TaskTypes, Unseen, Looking
  <2>4. QED
    BY <1>1, <2>1, <2>2, <2>3, Falls
<1>3. ASSUME NEW how \in HowStopEnds, UnloadStopped(c, how)
      PROVE  Promised
  <2>1. lock = c /\ lock' = c /\ StopUnit(c, how) /\ pc[c] = "unload_stop"
    BY <1>3, LockedPlaces DEF UnloadStopped, terminate, LockDiscipline
  <2>2. /\ state' = IF how = "ok" THEN "offline" ELSE "error"
        /\ \E place \in {"status", "raise"} : Go(c, place)
    BY <1>3 DEF UnloadStopped, Stamp
  <2>3. SameLooks
    BY <2>1, <2>2, LooksAre DEF Go, TaskTypes, SameLooks, Looking
  <2>4. Phase' = IF how = "ok" THEN "down" ELSE "failed"
    BY <2>2, PhaseParts, Phases, HaltingIs
  <2>5. QED
    BY <1>1, <2>1, <2>3, <2>4, Moves
<1>4. ASSUME NEW how \in HowStopEnds, SanityStopped(c, how)
      PROVE  Promised
  <2>1. lock' = lock /\ state' = state /\ StopUnit(c, how)
    BY <1>4 DEF SanityStopped, record
  <2>2. Unseen
    BY <1>4 DEF SanityStopped, Go, TaskTypes, Unseen, Looking
  <2>3. QED
    BY <1>1, <2>1, <2>2, Hidden
<1>5. CASE LateStopReturns(c) \/ LateStopRaises(c)
  <2>1. lock' = lock /\ state' = state /\ unit' \in {unit, "gone"} /\ pc' = pc
    BY <1>5 DEF LateStopReturns, LateStopRaises, tasks, record, world
  <2>2. Unseen
    BY <2>1 DEF Unseen
  <2>3. QED
    BY <2>1, <2>2, Hidden DEF Active
<1>6. CASE SlowStopEnds(c)
  <2>1. lock = Nobody /\ lock' = lock /\ unit' = unit /\ Unseen
    BY <1>6 DEF SlowStopEnds, tasks, world, Unseen
  <2>2. CASE state = "error" /\ c \in marks
    <3>1. unit \notin Active
      BY <2>2, <1>6 DEF SlowStopEnds, ITokens, TokenTrue, Tokens, Active
    <3>2. Phase = "failed" /\ Phase' = "down"
      BY <1>6, <2>2, PhaseParts, Phases, HaltingIs DEF SlowStopEnds
    <3>3. [q \in Procs |-> LookOf(pc[q])]' = [q \in Procs |-> LookOf(pc[q])]
      BY <2>1, Unmoved DEF SameLooks
    <3>4. Promise!Retire
      BY <2>1, <3>1, <3>2, <3>3 DEF Promise!Retire
    <3>5. QED
      BY <3>4 DEF Promised, Promise!Next
  <2>3. CASE ~(state = "error" /\ c \in marks)
    BY <1>6, <2>1, <2>3, Hidden DEF SlowStopEnds, record
  <2>4. QED
    BY <2>2, <2>3
<1>7. QED
  BY <1>2, <1>3, <1>4, <1>5, <1>6 DEF StopStep, LateStep

\* A status() looks at the unit, calls down what it found dead and up only what it found
\* alive; its writes need no lock.
LEMMA PromiseStatusStep ==
    ASSUME TaskTypes, RecordTypes, LockDiscipline,
           NEW p \in Calls \union Polls \union {Boot}, StatusStep(p)
    PROVE  Promised
<1> USE Kinds
<1>1. p \in Procs /\ p # Watchdog
  OBVIOUS
<1>2. ASSUME NEW place, place # "unload_stop", pc[p] # "unload_stop", Go(p, place)
      PROVE  OneLook(p, place) /\ Halting' = Halting
  BY <1>1, <1>2, OneGoes
<1>3. CASE ReadRecord(p)
  <2>1. lock' = lock /\ state' = state /\ unit' = unit /\ pc[p] = "status" /\ Go(p, "probe")
    BY <1>3 DEF ReadRecord, record, world
  <2>2. OneLook(p, "probe") /\ Halting' = Halting
    BY <1>2, <2>1
  <2>3. Phase' = Phase /\ LookOf(pc[p]) = "no"
    BY <2>1, <2>2, PhaseParts, LooksAre DEF Looking
  <2>4. QED
    BY <1>1, <2>1, <2>2, <2>3, Looks
<1>4. CASE Reconcile(p)
  <2>1. lock' = lock /\ state' = state /\ unit' = unit /\ LookOf(pc[p]) = "looking"
    BY <1>4, LooksAre DEF Reconcile, record, world
  <2>2. PICK place \in {"reason", "clean", "adopt", "return"} :
          /\ Go(p, place)
          /\ place \in {"reason", "clean"} => unit \notin Active
          /\ place = "adopt" => unit \in Active
    BY <1>4 DEF Reconcile
  <2>3. OneLook(p, place) /\ Halting' = Halting
    BY <1>2, <1>4, <2>2 DEF Reconcile
  <2>4. Phase' = Phase
    BY <2>1, <2>3, PhaseParts
  <2>5. CASE place = "return"
    BY <1>1, <2>1, <2>3, <2>4, <2>5, Reports DEF Looking
  <2>6. CASE place # "return"
    <3>1. LookOf(place) = IF unit \in Active THEN "alive" ELSE "dead"
      BY <2>2, <2>6, LooksAre
    <3>2. QED
      BY <1>1, <2>1, <2>3, <2>4, <3>1, Finds
  <2>7. QED
    BY <2>5, <2>6
<1>5. CASE StampDead(p) \/ StampClean(p) \/ StampRemoved(p)
  <2>1. lock' = lock /\ unit' = unit /\ LookOf(pc[p]) = "dead" /\ pc[p] \in Looking
    BY <1>5, LooksAre DEF StampDead, StampClean, StampRemoved, world, Looking
  <2>2. PICK place \in {"return", "removed", "drop"} :
          /\ Go(p, place)
          /\ \/ state' = state
             \/ place # "removed" /\ state' \in {"offline", "error"}
    BY <1>5 DEF StampDead, StampClean, StampRemoved, Stamp, record
  <2>3. OneLook(p, place) /\ Halting' = Halting
    BY <1>2, <2>1, <2>2 DEF Looking
  <2>4. CASE place = "removed"
    <3>1. SameLooks
      BY <2>1, <2>3, <2>4, LooksAre DEF OneLook, SameLooks
    <3>2. Phase' = Phase
      BY <2>2, <2>3, <2>4, PhaseParts
    <3>3. QED
      BY <2>1, <3>1, <3>2, Stays
  <2>5. CASE place # "removed"
    <3>1. Phase' = Phase \/ Phase' \in {"down", "failed"}
      BY <2>2, <2>3, PhaseParts, Phases, HaltingIs
    <3>2. QED
      BY <1>1, <2>1, <2>2, <2>3, <2>5, <3>1, Reports DEF Looking
  <2>6. QED
    BY <2>4, <2>5
<1>6. CASE AdoptCheck(p) \/ AdoptHealth(p) \/ AdoptStalled(p)
  <2>1. lock' = lock /\ unit' = unit /\ LookOf(pc[p]) = "alive" /\ pc[p] \in Looking
    BY <1>6, LooksAre DEF AdoptCheck, AdoptHealth, AdoptStalled, world, Looking
  <2>2. PICK place \in {"return", "restall", "health", "adopted_ready", "adopted_warming"} :
          /\ Go(p, place)
          /\ \/ state' = state
             \/ /\ place \notin {"restall", "health"}
                /\ state' = "warming" \/ (state' = "ready" /\ unit \in Active)
    BY <1>6 DEF AdoptCheck, AdoptHealth, AdoptStalled, Adopt, Stamp, record, Active
  <2>3. OneLook(p, place) /\ Halting' = Halting
    BY <1>2, <2>1, <2>2 DEF Looking
  <2>4. CASE place \in {"restall", "health"}
    <3>1. SameLooks
      BY <2>1, <2>3, <2>4, LooksAre DEF OneLook, SameLooks
    <3>2. Phase' = Phase
      BY <2>2, <2>3, <2>4, PhaseParts
    <3>3. QED
      BY <2>1, <3>1, <3>2, Stays
  <2>5. CASE place \notin {"restall", "health"}
    <3>1. Phase' = Phase \/ Phase' = "starting" \/ (Phase' = "up" /\ unit \in Active)
      BY <2>2, <2>3, PhaseParts, Phases, HaltingIs DEF Inflight, Dispatchable
    <3>2. QED
      BY <1>1, <2>1, <2>2, <2>3, <2>5, <3>1, Reports DEF Looking
  <2>6. QED
    BY <2>4, <2>5
<1>7. CASE DropRoute(p) \/ Adopted(p)
  <2>1. lock' = lock /\ unit' = unit /\ state' = state
    BY <1>7 DEF DropRoute, Adopted, record, world
  <2>2. Unseen
    BY <1>1, <1>7 DEF DropRoute, Adopted, Go, TaskTypes, Unseen, Looking
  <2>3. QED
    BY <2>1, <2>2, Hidden
<1>8. CASE Return(p)
  <2>1. unit' = unit /\ state' = state /\ pc[p] = "return"
        /\ lock' = IF lock = p THEN Nobody ELSE lock
    BY <1>8 DEF Return, Release, record, world
  <2>2. /\ \A q \in Procs : q # p /\ q # Watchdog => pc'[q] = pc[q]
        /\ pc'[Watchdog] = pc[Watchdog]
             \/ (p \in Calls /\ pc[Watchdog] = p /\ pc'[Watchdog] = "off")
        /\ pc'[p] \in {"idle", "load", "done"}
    BY <1>1, <1>8 DEF Return, End, Go, TaskTypes
  <2>3. p \in Calls => p \notin Looking \union {"unload_stop"}
    BY NamesAssumption DEF Looking, Places
  <2>4. Unseen
    BY <1>1, <2>1, <2>2, <2>3 DEF Unseen, Looking
  <2>5. CASE lock = p
    <3>1. OneLook(p, "return")
      BY <1>1, <2>1, <2>2, <2>4, Unmoved, LooksAre DEF OneLook, SameLooks, Looking
    <3>2. \A c \in Calls : pc'[c] = "unload_stop" => c # p /\ pc[c] = "unload_stop"
      BY <2>2
    <3>3. QED
      BY <1>1, <2>1, <2>5, <3>1, <3>2, Leaves
  <2>6. CASE lock # p
    BY <2>1, <2>4, <2>6, Hidden
  <2>7. QED
    BY <2>5, <2>6
<1>9. QED
  BY <1>3, <1>4, <1>5, <1>6, <1>7, <1>8 DEF StatusStep

\* The two loops never look at the unit the way a status() does.
ILoops == pc[Watchdog] \notin Looking /\ pc[Promoter] \notin Looking

\* What a loop's place may become.
LoopPlaces == Strikes \union {"off", "sleep", "polling", "answered", "promoting"} \union Recoveries

LEMMA LoopsKept ==
    ASSUME ILoops, \A q \in {Watchdog, Promoter} : pc'[q] \in {pc[q]} \union LoopPlaces
    PROVE  ILoops'
<1>1. \A place \in LoopPlaces : place \notin Looking
  <2>1. \A v \in Recoveries : v \notin Looking
    BY NamesAssumption, CallKinds DEF Looking, Places
  <2>2. QED
    BY <2>1 DEF LoopPlaces, Strikes, Looking
<1>2. QED
  BY <1>1 DEF ILoops

LEMMA LoopsStep ==
    ASSUME TaskTypes, ILoops, Next
    PROVE  ILoops'
<1> USE Kinds, CallKinds
<1>1. ASSUME NEW c \in Calls,
             CallStep(c) \/ LockStep(c) \/ LoadStep(c) \/ StopStep(c) \/ LateStep(c)
      PROVE  \A q \in {Watchdog, Promoter} : pc'[q] \in {pc[q], "off"}
  <2>1. CASE CallStep(c) \/ LockStep(c)
    BY <2>1 DEF CallStep, LockStep, CallLoad, CallUnload, CallRestart, CallSwap, SweepEvicts,
                LoadAbandoned, LoadBegin, UnloadBegin, EnterUnload, ResetBegin, Go, TaskTypes
  <2>2. CASE LoadStep(c)
    BY <2>2 DEF LoadStep, StallCheck, DriftCheck, Prepare, Pulled, Preflight, Spawned, Advance,
                SpawnRaises, AwaitReady, Persist, CountFailure, StampError, Raise, End, Go,
                TaskTypes
  <2>3. CASE StopStep(c)
    BY <2>3 DEF StopStep, ReloadStopped, SanityStopped, UnloadStopped, ResetStopped, Go,
                TaskTypes
  <2>4. CASE LateStep(c)
    BY <2>4 DEF LateStep, LateStopReturns, LateStopRaises, SlowStopEnds, tasks
  <2>5. QED
    BY <1>1, <2>1, <2>2, <2>3, <2>4
<1>2. ASSUME NEW p \in Calls \union Polls \union {Boot}, StatusStep(p)
      PROVE  \A q \in {Watchdog, Promoter} : pc'[q] \in {pc[q], "off", "polling"}
  BY <1>2 DEF StatusStep, ReadRecord, Reconcile, StampDead, StampClean, StampRemoved,
              DropRoute, Return, AdoptCheck, AdoptHealth, AdoptStalled, Adopted, Adopt, End, Go,
              TaskTypes
<1>3. CASE \/ \E p \in Polls : Poll(p)
           \/ \E r \in Requests : RequestArrives(r) \/ RequestEnters(r) \/ RequestLeaves(r)
  <2>1. \A q \in {Watchdog, Promoter} : pc'[q] = pc[q]
    BY <1>3 DEF Poll, RequestArrives, RequestEnters, RequestLeaves, EnterServing, Go, TaskTypes
  <2>2. QED
    BY <2>1, LoopsKept
<1>4. CASE \/ \E p \in Procs : Tail(p)
           \/ ApiRestart
  <2>1. \A q \in {Watchdog, Promoter} : pc'[q] \in {pc[q], "off", "sleep"}
    BY <1>4 DEF Tail, ApiRestart
  <2>2. QED
    BY <2>1, LoopsKept DEF LoopPlaces
<1>5. CASE BootReconcile \/ SweepDemotes \/ PromoterStep
  <2>1. \A q \in {Watchdog, Promoter} :
           pc'[q] \in {pc[q], "off", "sleep", "answered", "promoting"}
    BY <1>5 DEF BootReconcile, SweepDemotes, PromoterStep, PromoterPolls, Promote, Go, TaskTypes
  <2>2. QED
    BY <2>1, LoopsKept DEF LoopPlaces
<1>6. CASE WatcherStep
  <2>1. \A q \in {Watchdog, Promoter} :
           pc'[q] \in {pc[q], "off", "sleep"} \union Strikes \union Recoveries
    BY <1>6 DEF WatcherStep, WatcherPolls, WatcherLocks, WatcherStamps, WatcherDeclines,
                KeepOrEndWatch, Go, TaskTypes, Strikes
  <2>2. QED
    BY <2>1, LoopsKept DEF LoopPlaces
<1>7. CASE UnitAnswers \/ UnitFault \/ Unassign \/ CoolDown
  <2>1. pc' = pc
    BY <1>7 DEF UnitAnswers, UnitFault, Unassign, CoolDown, tasks
  <2>2. QED
    BY <2>1, LoopsKept
<1>8. QED
  BY <1>1, <1>2, <1>3, <1>4, <1>5, <1>6, <1>7, LoopsKept DEF Next, LoopPlaces

LEMMA LoopsInvariant == Spec => []ILoops
<1>1. Init => ILoops
  BY Kinds DEF Init, ILoops, Looking
<1>2. IInv /\ ILoops /\ [Next]_vars => ILoops'
  <2> SUFFICES ASSUME IInv, ILoops, [Next]_vars PROVE ILoops'
    OBVIOUS
  <2>1. CASE UNCHANGED vars
    BY <2>1 DEF vars, tasks, ILoops
  <2>2. CASE Next
    BY <2>2, TypeParts, LoopsStep DEF IInv
  <2>3. QED
    BY <2>1, <2>2
<1>3. QED
  BY <1>1, <1>2, Invariance, PTL DEF Spec

\* The cancellation of a watcher takes its recovery with it, and so the lock, if that had it.
LEMMA PromiseTail ==
    ASSUME TaskTypes, RecordTypes, LockDiscipline, ILoops, NEW p \in Procs, Tail(p)
    PROVE  Promised
<1> USE Kinds, CallKinds
<1> DEFINE victims == IF tail[p] \in Live \/ pc[Watchdog] = p THEN {}
                      ELSE {v \in Recoveries : pc[Watchdog] = v}
<1>1. state' = state /\ unit' = unit
  BY DEF Tail, record, world
<1>2. \A q \in Procs :
         \/ pc'[q] = pc[q] /\ q \notin victims
         \/ q \in victims /\ pc'[q] = "raised"
         \/ q \in {Watchdog, Promoter} /\ q \notin victims /\ pc'[q] \in {"off", "sleep"}
  BY DEF Tail
<1>3. \A v \in victims : v \in Calls
  OBVIOUS
<1>4. \/ lock' = lock /\ lock \notin victims
      \/ lock' = Nobody /\ lock \in victims \union {Watchdog, Promoter}
  BY DEF Tail
<1> HIDE DEF victims
<1>5. \A q \in Procs : q \in victims /\ q # lock =>
         pc[q] \notin Looking /\ pc[q] # "unload_stop"
  <2>1. "boot" \in Locked
    BY DEF Locked, Places, Final
  <2>2. QED
    BY <1>3, <2>1, LockedPlaces DEF LockDiscipline, Looking
<1>6. \A q \in {Watchdog, Promoter} : LookOf(pc'[q]) = LookOf(pc[q])
  BY <1>2, <1>3, LooksAre DEF ILoops, Looking
<1>7. CASE lock' = lock /\ lock \notin victims
  <2>1. SameLooks
    BY <1>2, <1>5, <1>6, <1>7, LooksAre DEF SameLooks, Looking
  <2>2. \A c \in Calls : (pc'[c] = "unload_stop") = (pc[c] = "unload_stop")
    BY <1>2, <1>5, <1>7
  <2>3. Phase' = Phase
    BY <1>1, <2>2, PhaseParts DEF Halting
  <2>4. QED
    BY <1>1, <1>7, <2>1, <2>3, Stays
<1>8. CASE lock' = Nobody /\ lock \in victims \union {Watchdog, Promoter}
  <2>1. lock \in Procs
    BY <1>3, <1>8
  <2>2. OneLook(lock, "return")
    BY <1>2, <1>5, <1>6, <1>8, LooksAre DEF OneLook, Looking, ILoops
  <2>3. \A c \in Calls : pc'[c] = "unload_stop" => c # lock /\ pc[c] = "unload_stop"
    BY <1>2, <1>3, <1>8, LockedPlaces DEF LockDiscipline
  <2>4. QED
    BY <1>1, <1>8, <2>1, <2>2, <2>3, Leaves
<1>9. QED
  BY <1>4, <1>7, <1>8

\* The others take the slot down or promote it under the lock, or move within a phase.
LEMMA PromiseOthers ==
    ASSUME TaskTypes, RecordTypes, LockDiscipline, ILoops,
           \/ \E p \in Polls : Poll(p)
           \/ \E r \in Requests : RequestArrives(r) \/ RequestEnters(r) \/ RequestLeaves(r)
           \/ BootReconcile \/ WatcherStep \/ PromoterStep \/ SweepDemotes
           \/ UnitAnswers \/ UnitFault \/ Unassign \/ CoolDown
    PROVE  Promised
<1> USE Kinds, CallKinds
<1>1. CASE \E p \in Polls : Poll(p)
  <2>1. lock' = lock /\ unit' = unit /\ state' = state
    BY <1>1 DEF Poll, record, world
  <2>2. Unseen
    BY <1>1 DEF Poll, Starts, Go, TaskTypes, Unseen, Looking
  <2>3. QED
    BY <2>1, <2>2, Hidden
<1>2. CASE \/ \E r \in Requests : RequestArrives(r) \/ RequestEnters(r) \/ RequestLeaves(r)
           \/ SweepDemotes
  <2>1. lock' = lock /\ unit' = unit
    BY <1>2 DEF RequestArrives, RequestEnters, RequestLeaves, EnterServing, SweepDemotes, world
  <2>2. state' = state \/ (state \in Dispatchable /\ state' \in Dispatchable)
    BY <1>2 DEF RequestArrives, RequestEnters, RequestLeaves, EnterServing, SweepDemotes, Stamp,
                record, Dispatchable
  <2>3. Unseen
    BY <1>2 DEF RequestArrives, RequestEnters, RequestLeaves, EnterServing, SweepDemotes, Starts,
                Go, TaskTypes, Unseen, Looking
  <2>4. Phase' = Phase
    BY <2>2, <2>3, PhaseParts, Phases, Unmoved, HaltingIs
  <2>5. QED
    BY <2>1, <2>3, <2>4, Unmoved, Stays
<1>3. CASE PromoterStep
  <2>1. unit' = unit
    BY <1>3 DEF PromoterStep, PromoterPolls, Promote, world
  <2>2. Unseen
    BY <1>3 DEF PromoterStep, PromoterPolls, Promote, Go, TaskTypes, Unseen, Looking
  <2>3. \/ lock' = lock /\ state' = state
        \/ lock = Nobody /\ lock' = Promoter /\ state = "warming" /\ state' = "ready"
    BY <1>3 DEF PromoterStep, PromoterPolls, Promote, Stamp, record
  <2>4. state = "warming" /\ state' = "ready" => Phase = "starting" /\ Phase' = "up"
    BY PhaseParts, Phases, HaltingIs DEF Inflight, Dispatchable
  <2>5. QED
    BY <2>1, <2>2, <2>3, <2>4, Unmoved, Hidden, Takes
<1>4. CASE WatcherStep
  <2>1. unit' = unit
    BY <1>4 DEF WatcherStep, WatcherPolls, WatcherLocks, WatcherStamps, WatcherDeclines, world
  <2>2. \/ lock' = lock /\ state' = state
        \/ lock = Nobody /\ lock' = Watchdog /\ state' = state
        \/ lock = Watchdog /\ lock' = Watchdog /\ state' \in {"offline", "error"}
        \/ lock = Watchdog /\ lock' = Nobody /\ state' = state
    BY <1>4 DEF WatcherStep, WatcherPolls, WatcherLocks, WatcherStamps, WatcherDeclines, Stamp,
                Release, record
  <2>3. Unseen
    <3>1. \A v \in Recoveries : v \notin Looking /\ v # "unload_stop"
      BY NamesAssumption DEF Looking, Places
    <3>2. CASE WatcherPolls
      BY <3>1, <3>2 DEF WatcherPolls, Go, TaskTypes, Unseen, Looking
    <3>3. CASE WatcherLocks \/ WatcherStamps \/ WatcherDeclines
      BY <3>3 DEF WatcherLocks, WatcherStamps, WatcherDeclines, KeepOrEndWatch, Go, TaskTypes,
                  Unseen, Looking, Strikes
    <3>4. QED
      BY <1>4, <3>2, <3>3 DEF WatcherStep
  <2>4. CASE lock = Watchdog /\ lock' = Nobody /\ state' = state
    <3>1. OneLook(Watchdog, "return")
      BY <2>3, Unmoved, LooksAre DEF OneLook, SameLooks, ILoops, Looking
    <3>2. \A c \in Calls : pc'[c] = "unload_stop" => c # Watchdog /\ pc[c] = "unload_stop"
      BY <2>3 DEF Unseen
    <3>3. QED
      BY <2>1, <2>4, <3>1, <3>2, Leaves
  <2>5. CASE lock = Nobody /\ lock' = Watchdog /\ state' = state
    BY <2>1, <2>3, <2>5, PhaseParts, Unmoved, Takes
  <2>6. QED
    BY <2>1, <2>2, <2>3, <2>4, <2>5, Hidden, Falls
<1>5. CASE BootReconcile
  <2>1. lock' = lock /\ state' = state /\ unit' = unit /\ LookOf(pc[Boot]) = "looking"
    BY <1>5, LooksAre DEF BootReconcile, record, world
  <2>2. PICK place \in {"adopt", "return"} :
          Go(Boot, place) /\ (place = "adopt" => unit \in Active)
    BY <1>5 DEF BootReconcile
  <2>3. OneLook(Boot, place) /\ Halting' = Halting
    BY <1>5, <2>2, OneGoes DEF BootReconcile
  <2>4. Phase' = Phase
    BY <2>1, <2>3, PhaseParts
  <2>5. CASE place = "return"
    BY <2>1, <2>3, <2>4, <2>5, Reports DEF Looking
  <2>6. CASE place = "adopt"
    BY <2>1, <2>2, <2>3, <2>4, <2>6, Finds, LooksAre
  <2>7. QED
    BY <2>5, <2>6
<1>6. CASE UnitAnswers \/ UnitFault \/ Unassign \/ CoolDown
  <2>1. lock' = lock /\ state' = state /\ pc' = pc
    BY <1>6 DEF UnitAnswers, UnitFault, Unassign, CoolDown, tasks, record
  <2>2. Unseen
    BY <2>1 DEF Unseen
  <2>3. CASE unit' \in Active => unit \in Active
    BY <2>1, <2>2, <2>3, Hidden
  <2>4. CASE unit' \in Active /\ unit \notin Active
    <3>1. "revive" \in Faults
      BY <1>6, <2>4 DEF UnitAnswers, UnitFault, Unassign, CoolDown, world, Active
    <3>2. [q \in Procs |-> LookOf(pc[q])]' = [q \in Procs |-> LookOf(pc[q])] /\ Phase' = Phase
      BY <2>1, <2>2, Unmoved, PhaseParts DEF SameLooks
    <3>3. Promise!Revive
      BY <2>1, <2>4, <3>1, <3>2 DEF Promise!Revive
    <3>4. QED
      BY <3>3 DEF Promised, Promise!Next
  <2>5. QED
    BY <2>3, <2>4
<1>7. QED
  BY <1>1, <1>2, <1>3, <1>4, <1>5, <1>6

\* A restart ends every call, and only a call can have been starting the unit.
LEMMA PromiseRestart ==
    ASSUME TaskTypes, RecordTypes, LockDiscipline, ApiRestart
    PROVE  Promised
<1> USE Kinds
<1>1. lock' = Nobody /\ state' = state
  BY DEF ApiRestart, record
<1>2. \A q \in Procs : pc'[q] = IF q = Boot THEN "boot"
                                ELSE IF pc'[q] \in {"off", "idle"} \union Final THEN pc'[q]
                                ELSE "raised"
  BY DEF ApiRestart
<1>3. [q \in Procs |-> LookOf(pc[q])]' = [q \in Procs |-> IF q = Boot THEN "looking" ELSE "no"]
  BY <1>2, LooksAre DEF Looking, Final
<1>4. ~Halting'
  BY <1>2 DEF Halting, Final
<1>5. Phase' = IF Phase = "stopping" THEN "failed" ELSE Phase
  BY <1>1, <1>4, PhaseParts, Phases, EveryState, HaltingIs DEF RecordTypes
<1>6. unit' \in Active => unit \in Active \/ lock # Nobody
  <2>1. ASSUME NEW c \in Calls, pc[c] = "spawning" PROVE lock # Nobody
    BY <2>1, LockedPlaces DEF LockDiscipline
  <2>2. QED
    BY <2>1 DEF ApiRestart, Active
<1>7. Promise!Crash(Boot)
  BY <1>1, <1>3, <1>5, <1>6 DEF Promise!Crash
<1>8. QED
  BY <1>7 DEF Promised, Promise!Next

\* The slot implements SlotPromise, for any calls, polls, requests, faults and API restarts:
\* its phase is moved by the holder of the lock along its arrows, or by a status() or a
\* startup pass that has just seen the unit so; a unit is started only by the holder, or
\* comes back by itself; and OFFLINE after an unload or a slow stop means that none runs.
THEOREM PromiseKept == Spec => KeepsPromise
<1>1. Init => Promise!Init
  <2> SUFFICES ASSUME Init PROVE Promise!Init
    OBVIOUS
  <2>1. \A q \in Procs : LookOf(pc[q]) = "no"
    BY LooksAre DEF Init, Looking
  <2>2. Phase = "down"
    BY PhaseParts, Phases, HaltingIs DEF Init
  <2>3. QED
    BY <2>1, <2>2 DEF Init, Promise!Init, Active
<1>2. IInv /\ ITokens /\ ILoops /\ [Next]_vars => Promised
  <2> SUFFICES ASSUME IInv, ITokens, ILoops, [Next]_vars PROVE Promised
    OBVIOUS
  <2>1. TaskTypes /\ RecordTypes /\ LockDiscipline
    BY TypeParts DEF IInv
  <2>2. CASE UNCHANGED vars
    BY <2>2, Hidden DEF vars, record, world, tasks, Unseen
  <2>3. CASE Next
    BY <2>1, <2>3, PromiseCallStep, PromiseLoadStep, PromiseStopStep, PromiseStatusStep,
       PromiseTail, PromiseOthers, PromiseRestart DEF Next
  <2>4. QED
    BY <2>2, <2>3
<1>3. QED
  BY <1>1, <1>2, Invariance, TokensInvariant, LoopsInvariant, PTL
     DEF Spec, KeepsPromise, Promise!Spec, Promised
=============================================================================
