------------------------ MODULE SlotLifecycleProofs ------------------------
(***************************************************************************)
(* What TLAPS proves of SlotLifecycle for every set of calls, polls and    *)
(* requests, every fault and any number of API restarts: the types, the    *)
(* lock discipline, the serving count, and that an abandoned stop retires  *)
(* only its own ERROR; that a load trips over the state machine, and a     *)
(* failed verdict is lost, only in the ways that the history variables of  *)
(* SlotHistory record; and, while the API process lives, that a SERVING    *)
(* record means a request in flight.                                       *)
(***************************************************************************)
EXTENDS SlotHistory, FiniteSetTheorems, TLAPS

\* TypeOK in parts that a step disturbs separately.
TaskTypes ==
    /\ lock \in Procs \union {Nobody}
    /\ pc \in [Procs -> Places \union Recoveries]

Marks == {"sanity", "stall"} \union Calls

RecordTypes ==
    /\ state \in States /\ marks \subseteq Marks
    /\ tail \in [Procs -> States \union {None}]
    /\ failures \in Nat

LocalTypes ==
    /\ leg \in [Calls -> {"first", "last"}]
    /\ cfg \in [Calls -> Models \union {NoModel}]
    /\ seen \in [Procs -> [state : States, marks : SUBSET Marks]]

WorldTypes ==
    /\ default \in Models \union {NoModel}
    /\ unit \in Units /\ runs \in Models \union {NoModel} /\ sane \in BOOLEAN
    /\ upstream \in BOOLEAN /\ cooling \in BOOLEAN
    /\ late \subseteq Calls /\ overtaken \subseteq late /\ ended \subseteq Calls
    /\ faults \in Nat /\ restarts \in Nat

-----------------------------------------------------------------------------
(* Facts about the constants.                                              *)

\* The kinds of task are disjoint, and all of them are tasks.
LEMMA Kinds ==
    /\ Calls \subseteq Procs /\ Polls \subseteq Procs /\ Requests \subseteq Procs
    /\ Watchdog \in Procs /\ Promoter \in Procs /\ Boot \in Procs
    /\ Watchdog # Promoter /\ Watchdog # Boot /\ Promoter # Boot
    /\ Nobody \notin Procs
    /\ \A c \in Calls : c \notin Polls /\ c \notin Requests
                        /\ c # Watchdog /\ c # Promoter /\ c # Boot
    /\ \A r \in Requests : r \notin Polls /\ r # Watchdog /\ r # Promoter /\ r # Boot
    /\ \A p \in Polls : p # Watchdog /\ p # Promoter /\ p # Boot
BY LifecycleAssumption DEF Procs, Watchdog, Promoter, Boot

\* The kinds of call are calls.
LEMMA CallKinds ==
    /\ Loads \subseteq Calls /\ Unloads \subseteq Calls /\ Restarts \subseteq Calls
    /\ Swaps \subseteq Calls /\ Sweeps \subseteq Calls /\ Recoveries \subseteq Calls
BY DEF Calls

\* Where a call is without the lock.
LEMMA UnlockedPlaces ==
    /\ "done" \notin Locked /\ "raised" \notin Locked /\ "refused" \notin Locked
    /\ "idle" \notin Locked /\ "load" \notin Locked /\ "unload" \notin Locked
    /\ "reset" \notin Locked
BY DEF Locked, Final

\* Where it is with it.
LEMMA LockedPlaces ==
    /\ "stallcheck" \in Locked /\ "drift" \in Locked /\ "reload_stop" \in Locked
    /\ "prepare" \in Locked /\ "pulling" \in Locked /\ "preflight" \in Locked
    /\ "spawning" \in Locked /\ "await_ready" \in Locked /\ "persist" \in Locked
    /\ "sanity_stop" \in Locked /\ "failing" \in Locked /\ "failing_sanity" \in Locked
    /\ "illegal" \in Locked /\ "crashline" \in Locked /\ "crashline_sanity" \in Locked
    /\ "raise" \in Locked /\ "refuse" \in Locked /\ "unload_stop" \in Locked
    /\ "reset_stop" \in Locked /\ "status" \in Locked /\ "probe" \in Locked
    /\ "reason" \in Locked /\ "clean" \in Locked /\ "removed" \in Locked
    /\ "drop" \in Locked /\ "adopt" \in Locked /\ "restall" \in Locked
    /\ "health" \in Locked /\ "adopted_ready" \in Locked /\ "adopted_warming" \in Locked
    /\ "return" \in Locked
BY DEF Locked, Places, Final, Strikes

\* The places a task may be sent to.
LEMMA AllPlaces ==
    /\ Locked \subseteq Places /\ Final \subseteq Places /\ Strikes \subseteq Places
    /\ "idle" \in Places /\ "load" \in Places /\ "unload" \in Places /\ "reset" \in Places
    /\ "boot" \in Places /\ "checked" \in Places /\ "inference" \in Places
    /\ "off" \in Places /\ "sleep" \in Places /\ "polling" \in Places
    /\ "answered" \in Places /\ "promoting" \in Places
    /\ "done" \in Places /\ "raised" \in Places /\ "refused" \in Places
    /\ "strike_health" \in Places /\ "strike_stall" \in Places
    /\ "strike_warming" \in Places /\ "strike_dead" \in Places
BY DEF Locked, Places, Final, Strikes

-----------------------------------------------------------------------------
(* The lock.                                                               *)

\* A call that holds the lock, or takes it when it is free, disturbs no other.
LEMMA HolderMoves ==
    ASSUME LockDiscipline, NEW c \in Calls, lock \in {c, Nobody}, lock' = c,
           \A d \in Calls : d # c => pc'[d] = pc[d]
    PROVE  LockDiscipline'
BY Kinds DEF LockDiscipline

\* A call outside the locked places has given the lock back, or never had it.
LEMMA OutsiderMoves ==
    ASSUME LockDiscipline, NEW c \in Calls, pc'[c] \notin Locked,
           lock' \in {lock, IF lock = c THEN Nobody ELSE lock},
           \A d \in Calls : d # c => pc'[d] = pc[d]
    PROVE  LockDiscipline'
BY Kinds DEF LockDiscipline

\* A task that is not a call takes the lock when it is free, and frees only its own.
LEMMA OtherMoves ==
    ASSUME LockDiscipline, lock' = lock \/ lock \notin Calls,
           \A d \in Calls : pc'[d] = pc[d]
    PROVE  LockDiscipline'
BY Kinds DEF LockDiscipline

\* Starting a call, and entering the lock at once or after a wait for it.
LEMMA LockCallStep ==
    ASSUME TaskTypes, LockDiscipline, NEW c \in Calls, CallStep(c) \/ LockStep(c)
    PROVE  LockDiscipline'
<1> USE Kinds
<1>1. CASE CallLoad(c) \/ CallUnload(c) \/ CallRestart(c) \/ CallSwap(c)
  <2>1. pc'[c] \in {"load", "unload", "reset"} /\ lock' = lock
    BY <1>1 DEF CallLoad, CallUnload, CallRestart, CallSwap, Go, TaskTypes
  <2>2. \A d \in Calls : d # c => pc'[d] = pc[d]
    BY <1>1 DEF CallLoad, CallUnload, CallRestart, CallSwap, Go, TaskTypes
  <2>3. QED
    BY <2>1, <2>2, OutsiderMoves, UnlockedPlaces
<1>2. CASE LoadAbandoned(c) \/ LoadBegin(c) \/ UnloadBegin(c) \/ ResetBegin(c)
  <2>1. lock = Nobody /\ lock' = c
    BY <1>2 DEF LoadAbandoned, LoadBegin, UnloadBegin, EnterUnload, ResetBegin, Acquire
  <2>2. \A d \in Calls : d # c => pc'[d] = pc[d]
    BY <1>2 DEF LoadAbandoned, LoadBegin, UnloadBegin, EnterUnload, ResetBegin, Go, TaskTypes
  <2>3. QED
    BY <2>1, <2>2, HolderMoves
<1>3. CASE SweepEvicts(c)
  <2>1. \A d \in Calls : d # c => pc'[d] = pc[d]
    BY <1>3 DEF SweepEvicts, EnterUnload, Go, TaskTypes
  <2>2. (lock = Nobody /\ lock' = c) \/ (lock' = lock /\ pc'[c] = "unload")
    BY <1>3 DEF SweepEvicts, EnterUnload, Acquire, Go, TaskTypes
  <2>3. QED
    BY <2>1, <2>2, HolderMoves, OutsiderMoves, UnlockedPlaces
<1>4. QED
  BY <1>1, <1>2, <1>3 DEF CallStep, LockStep

\* A load at work holds the lock; its exception gives it back.
LEMMA LockLoadStep ==
    ASSUME TaskTypes, LockDiscipline, NEW c \in Calls, LoadStep(c)
    PROVE  LockDiscipline'
<1> USE Kinds
<1>1. CASE Raise(c)
  <2>1. pc'[c] \in {"raised", "refused"} /\ lock' = IF lock = c THEN Nobody ELSE lock
    BY <1>1 DEF Raise, End, Release, TaskTypes
  <2>2. \A d \in Calls : d # c => pc'[d] = pc[d]
    BY <1>1 DEF Raise, End, TaskTypes
  <2>3. QED
    BY <2>1, <2>2, OutsiderMoves, UnlockedPlaces
<1>2. CASE ~Raise(c)
  <2>1. pc[c] \in {"stallcheck", "drift", "prepare", "pulling", "preflight", "spawning",
                   "await_ready", "persist", "failing", "failing_sanity", "illegal",
                   "crashline", "crashline_sanity"}
    BY <1>2 DEF LoadStep, StallCheck, DriftCheck, Prepare, Pulled, Preflight, Spawned,
                SpawnRaises, AwaitReady, Persist, CountFailure, StampError
  <2>2. lock = c
    BY <2>1, LockedPlaces DEF LockDiscipline
  <2>3. lock' = lock
    BY <1>2 DEF LoadStep, StallCheck, DriftCheck, Prepare, Pulled, Preflight, Spawned,
                SpawnRaises, AwaitReady, Persist, CountFailure, StampError
  <2>4. \A d \in Calls : d # c => pc'[d] = pc[d]
    BY <1>2 DEF LoadStep, StallCheck, DriftCheck, Prepare, Pulled, Preflight, Spawned, Advance,
                SpawnRaises, AwaitReady, Persist, CountFailure, StampError, Go, TaskTypes
  <2>5. QED
    BY <2>2, <2>3, <2>4, HolderMoves
<1>3. QED
  BY <1>1, <1>2

\* So does a call that waits for a stop; an abandoned stop touches no lock.
LEMMA LockStopStep ==
    ASSUME TaskTypes, LockDiscipline, NEW c \in Calls, StopStep(c) \/ LateStep(c)
    PROVE  LockDiscipline'
<1> USE Kinds
<1>1. CASE StopStep(c)
  <2>1. PICK how \in HowStopEnds :
          ReloadStopped(c, how) \/ SanityStopped(c, how) \/ UnloadStopped(c, how)
            \/ ResetStopped(c, how)
    BY <1>1 DEF StopStep
  <2>2. pc[c] \in {"reload_stop", "sanity_stop", "unload_stop", "reset_stop"} /\ lock' = lock
    BY <2>1 DEF ReloadStopped, SanityStopped, UnloadStopped, ResetStopped
  <2>3. \A d \in Calls : d # c => pc'[d] = pc[d]
    BY <2>1 DEF ReloadStopped, SanityStopped, UnloadStopped, ResetStopped, Go, TaskTypes
  <2>4. lock = c
    BY <2>2, LockedPlaces DEF LockDiscipline
  <2>5. QED
    BY <2>2, <2>3, <2>4, HolderMoves
<1>2. CASE LateStep(c)
  BY <1>2, OtherMoves
     DEF LateStep, LateStopReturns, LateStopRaises, SlowStopEnds, tasks
<1>3. QED
  BY <1>1, <1>2

\* A status() that a call makes is under the call's lock; one that a poll or
\* the startup makes leaves the lock alone.
LEMMA LockStatusStep ==
    ASSUME TaskTypes, LockDiscipline, NEW p \in Calls \union Polls \union {Boot}, StatusStep(p)
    PROVE  LockDiscipline'
<1> USE Kinds
<1>1. CASE Return(p)
  <2>1. lock' = IF lock = p THEN Nobody ELSE lock
    BY <1>1 DEF Return, Release
  <2>2. \A d \in Calls : d # p => pc'[d] = pc[d]
    BY <1>1 DEF Return, Go, End, TaskTypes
  <2>3. p \in Calls => pc'[p] \in {"load", "done"}
    BY <1>1 DEF Return, Go, End, TaskTypes
  <2>4. QED
    BY <2>1, <2>2, <2>3, OutsiderMoves, OtherMoves, UnlockedPlaces
<1>2. CASE ~Return(p)
  <2>1. pc[p] \in {"status", "probe", "reason", "clean", "removed", "drop", "adopt", "health",
                   "restall", "adopted_ready", "adopted_warming"}
    BY <1>2 DEF StatusStep, ReadRecord, Reconcile, StampDead, StampClean, StampRemoved,
                DropRoute, AdoptCheck, AdoptHealth, AdoptStalled, Adopted
  <2>2. lock' = lock
    BY <1>2 DEF StatusStep, ReadRecord, Reconcile, StampDead, StampClean, StampRemoved,
                DropRoute, AdoptCheck, AdoptHealth, AdoptStalled, Adopted
  <2>3. \A d \in Calls : d # p => pc'[d] = pc[d]
    BY <1>2 DEF StatusStep, ReadRecord, Reconcile, StampDead, StampClean, StampRemoved,
                DropRoute, AdoptCheck, AdoptHealth, AdoptStalled, Adopted, Adopt, Go, TaskTypes
  <2>4. p \in Calls => lock = p
    BY <2>1, LockedPlaces DEF LockDiscipline
  <2>5. QED
    BY <2>2, <2>3, <2>4, HolderMoves, OtherMoves
<1>3. QED
  BY <1>1, <1>2

\* The end of a _transition, and the recoveries it cancels: each leaves the
\* lock if it holds it, and no one else loses it.
LEMMA LockTail ==
    ASSUME TaskTypes, LockDiscipline, NEW p \in Procs, Tail(p)
    PROVE  LockDiscipline'
<1> DEFINE live == tail[p] \in Live
           victims == IF live \/ pc[Watchdog] = p THEN {}
                      ELSE {v \in Recoveries : pc[Watchdog] = v}
           over == victims \union (IF live THEN {} ELSE {Watchdog})
                           \union (IF p = Promoter THEN {Promoter} ELSE {})
<1>1. \A c \in Calls : pc'[c] = IF c \in victims THEN "raised" ELSE pc[c]
  BY Kinds DEF Tail
<1>2. lock' = IF lock \in over THEN Nobody ELSE lock
  BY DEF Tail
<1>3. \A c \in Calls : c \in over => c \in victims
  BY Kinds
<1> HIDE DEF over, victims
<1>4. QED
  BY <1>1, <1>2, <1>3, UnlockedPlaces DEF LockDiscipline

\* The watcher takes the lock only when it is free and frees only its own.
LEMMA LockWatcherStep ==
    ASSUME TaskTypes, LockDiscipline, WatcherStep
    PROVE  LockDiscipline'
<1> USE Kinds, CallKinds
<1>1. CASE WatcherPolls
  <2>1. CASE \E v \in Recoveries : pc' = [pc EXCEPT ![Watchdog] = v, ![v] = "unload"]
    <3>1. PICK v \in Recoveries : pc' = [pc EXCEPT ![Watchdog] = v, ![v] = "unload"]
      BY <2>1
    <3>2. v \in Calls /\ pc'[v] = "unload" /\ \A d \in Calls : d # v => pc'[d] = pc[d]
      BY <3>1 DEF TaskTypes
    <3>3. lock' = lock
      BY <1>1 DEF WatcherPolls
    <3>4. QED
      BY <3>2, <3>3, OutsiderMoves, UnlockedPlaces
  <2>2. CASE ~\E v \in Recoveries : pc' = [pc EXCEPT ![Watchdog] = v, ![v] = "unload"]
    <3>1. \A d \in Calls : pc'[d] = pc[d]
      BY <1>1, <2>2 DEF WatcherPolls, Go, TaskTypes
    <3>2. lock' = lock
      BY <1>1 DEF WatcherPolls
    <3>3. QED
      BY <3>1, <3>2, OtherMoves
  <2>3. QED
    BY <2>1, <2>2
<1>2. CASE WatcherLocks \/ WatcherStamps \/ WatcherDeclines
  <2>1. \A d \in Calls : pc'[d] = pc[d]
    BY <1>2 DEF WatcherLocks, WatcherStamps, WatcherDeclines, KeepOrEndWatch, Go, TaskTypes
  <2>2. lock' = lock \/ lock \notin Calls
    BY <1>2 DEF WatcherLocks, WatcherStamps, WatcherDeclines, Release
  <2>3. QED
    BY <2>1, <2>2, OtherMoves
<1>3. QED
  BY <1>1, <1>2 DEF WatcherStep

\* Neither do polls, requests, the promotion poll, the startup, the soft
\* demotion, the environment or a restart take the lock from a call at work.
LEMMA LockRest ==
    ASSUME TaskTypes, LockDiscipline,
           \/ \E p \in Polls : Poll(p)
           \/ \E r \in Requests : RequestArrives(r) \/ RequestEnters(r) \/ RequestLeaves(r)
           \/ BootReconcile \/ PromoterStep \/ SweepDemotes
           \/ UnitAnswers \/ UnitFault \/ Unassign \/ CoolDown \/ ApiRestart
    PROVE  LockDiscipline'
<1> USE Kinds
<1>1. CASE \E p \in Polls : Poll(p)
  BY <1>1, OtherMoves DEF Poll, Go, TaskTypes
<1>2. ASSUME NEW r \in Requests, RequestArrives(r) \/ RequestEnters(r) \/ RequestLeaves(r)
      PROVE  LockDiscipline'
  <2>1. lock' = lock /\ \A d \in Calls : pc'[d] = pc[d]
    BY <1>2 DEF RequestArrives, RequestEnters, RequestLeaves, EnterServing, Go, TaskTypes
  <2>2. QED
    BY <2>1, OtherMoves
<1>3. CASE BootReconcile \/ SweepDemotes
  <2>1. lock' = lock /\ \A d \in Calls : pc'[d] = pc[d]
    BY <1>3 DEF BootReconcile, SweepDemotes, Go, TaskTypes
  <2>2. QED
    BY <2>1, OtherMoves
<1>4. CASE PromoterStep
  <2>1. (lock' = lock \/ lock \notin Calls) /\ \A d \in Calls : pc'[d] = pc[d]
    BY <1>4 DEF PromoterStep, PromoterPolls, Promote, Go, TaskTypes
  <2>2. QED
    BY <2>1, OtherMoves
<1>5. CASE UnitAnswers \/ UnitFault \/ Unassign \/ CoolDown
  BY <1>5, OtherMoves DEF UnitAnswers, UnitFault, Unassign, CoolDown, tasks
<1>6. CASE ApiRestart
  <2>1. \A c \in Calls : pc'[c] = "idle" \/ pc'[c] \in Final
    BY <1>6 DEF ApiRestart, Final
  <2>2. QED
    BY <2>1 DEF LockDiscipline, Locked
<1>7. QED
  BY <1>1, <1>2, <1>3, <1>4, <1>5, <1>6

-----------------------------------------------------------------------------
(* The serving count.                                                      *)

\* A step that moves no request and leaves the count alone.
LEMMA CountStays ==
    ASSUME ServingCounts, serving' = serving, \A r \in Requests : pc'[r] = pc[r]
    PROVE  ServingCounts' /\ InFlight' = InFlight
<1>1. InFlight' = InFlight
  BY DEF InFlight
<1>2. QED
  BY <1>1 DEF ServingCounts

\* The requests in flight are finitely many, and counted by a natural number.
LEMMA InFlightFinite == IsFiniteSet(InFlight) /\ Cardinality(InFlight) \in Nat
<1>1. InFlight \subseteq Requests
  BY DEF InFlight
<1>2. QED
  BY <1>1, LifecycleAssumption, FS_Subset, FS_CardinalityType

\* A request enters: it was not in flight, and now it is counted.
LEMMA CountEnter ==
    ASSUME TaskTypes, ServingCounts, NEW r \in Requests, pc[r] # "inference", EnterServing(r)
    PROVE  ServingCounts' /\ InFlight' # {}
<1>1. InFlight' = InFlight \union {r}
  BY Kinds DEF InFlight, EnterServing, Go, TaskTypes
<1>2. r \notin InFlight
  BY DEF InFlight
<1>3. Cardinality(InFlight \union {r}) = Cardinality(InFlight) + 1
  BY <1>2, InFlightFinite, FS_AddElement
<1>4. serving' = serving + 1
  BY DEF EnterServing
<1>5. QED
  BY <1>1, <1>3, <1>4 DEF ServingCounts

\* A request leaves: it was counted, so the count stays a natural number; and
\* unless it was the last one, others are still in flight.
LEMMA CountLeave ==
    ASSUME TaskTypes, ServingCounts, NEW r \in Requests, RequestLeaves(r)
    PROVE  ServingCounts' /\ serving \in Nat \ {0} /\ (serving # 1 => InFlight' # {})
<1>1. InFlight' = InFlight \ {r}
  BY Kinds DEF InFlight, RequestLeaves, Go, TaskTypes
<1>2. r \in InFlight
  BY DEF InFlight, RequestLeaves
<1>3. Cardinality(InFlight \ {r}) = Cardinality(InFlight) - 1
      /\ IsFiniteSet(InFlight \ {r})
  BY <1>2, InFlightFinite, FS_RemoveElement
<1>4. Cardinality(InFlight \ {r}) \in Nat
  BY <1>3, FS_CardinalityType
<1>5. serving' = serving - 1 /\ serving = Cardinality(InFlight)
  BY DEF RequestLeaves, ServingCounts
<1>6. Cardinality({}) = 0
  BY FS_EmptySet
<1>7. serving # 1 => InFlight' # {}
  BY <1>1, <1>3, <1>5, <1>6, InFlightFinite
<1>8. ServingCounts'
  BY <1>1, <1>3, <1>5 DEF ServingCounts
<1>9. QED
  BY <1>3, <1>4, <1>5, <1>7, <1>8, InFlightFinite

\* No step of a call moves a request.
LEMMA CallMovesNoRequest ==
    ASSUME TaskTypes, NEW c \in Calls,
           CallStep(c) \/ LockStep(c) \/ LoadStep(c) \/ StopStep(c) \/ LateStep(c)
    PROVE  serving' = serving /\ \A r \in Requests : pc'[r] = pc[r]
<1> USE Kinds
<1>1. CASE CallStep(c) \/ LockStep(c)
  BY <1>1 DEF CallStep, LockStep, CallLoad, CallUnload, CallRestart, CallSwap, SweepEvicts,
              LoadAbandoned, LoadBegin, UnloadBegin, EnterUnload, ResetBegin, Go, TaskTypes
<1>2. CASE LoadStep(c)
  BY <1>2 DEF LoadStep, StallCheck, DriftCheck, Prepare, Pulled, Preflight, Spawned, Advance,
              SpawnRaises, AwaitReady, Persist, CountFailure, StampError, Raise, End, Go,
              TaskTypes
<1>3. CASE StopStep(c)
  BY <1>3 DEF StopStep, ReloadStopped, SanityStopped, UnloadStopped, ResetStopped, Go, TaskTypes
<1>4. CASE LateStep(c)
  BY <1>4 DEF LateStep, LateStopReturns, LateStopRaises, SlowStopEnds, tasks
<1>5. QED
  BY <1>1, <1>2, <1>3, <1>4

\* Nor does any step of a status(), a watcher, the environment or a _transition's end.
LEMMA OthersMoveNoRequest ==
    ASSUME TaskTypes,
           \/ \E p \in Procs : Tail(p)
           \/ \E p \in Calls \union Polls \union {Boot} : StatusStep(p)
           \/ \E p \in Polls : Poll(p)
           \/ BootReconcile \/ WatcherStep \/ PromoterStep \/ SweepDemotes
           \/ UnitAnswers \/ UnitFault \/ Unassign \/ CoolDown
    PROVE  serving' = serving /\ \A r \in Requests : pc'[r] = pc[r]
<1> USE Kinds, CallKinds
<1>1. ASSUME NEW p \in Procs, Tail(p)
      PROVE  serving' = serving /\ \A r \in Requests : pc'[r] = pc[r]
  BY <1>1 DEF Tail
<1>2. ASSUME NEW p \in Calls \union Polls \union {Boot}, StatusStep(p)
      PROVE  serving' = serving /\ \A r \in Requests : pc'[r] = pc[r]
  BY <1>2 DEF StatusStep, ReadRecord, Reconcile, StampDead, StampClean, StampRemoved,
              DropRoute, Return, AdoptCheck, AdoptHealth, AdoptStalled, Adopted, Adopt, End, Go,
              TaskTypes
<1>3. CASE \E p \in Polls : Poll(p)
  BY <1>3 DEF Poll, Go, TaskTypes
<1>4. CASE BootReconcile \/ SweepDemotes \/ PromoterStep
  BY <1>4 DEF BootReconcile, SweepDemotes, PromoterStep, PromoterPolls, Promote, Go, TaskTypes
<1>5. CASE WatcherStep
  BY <1>5 DEF WatcherStep, WatcherPolls, WatcherLocks, WatcherStamps, WatcherDeclines,
              KeepOrEndWatch, Go, TaskTypes
<1>6. CASE UnitAnswers \/ UnitFault \/ Unassign \/ CoolDown
  BY <1>6 DEF UnitAnswers, UnitFault, Unassign, CoolDown, tasks
<1>7. QED
  BY <1>1, <1>2, <1>3, <1>4, <1>5, <1>6

\* A request's own steps.
LEMMA CountRequestStep ==
    ASSUME TaskTypes, ServingCounts, NEW r \in Requests,
           RequestArrives(r) \/ RequestEnters(r) \/ RequestLeaves(r)
    PROVE  ServingCounts'
<1>1. CASE RequestArrives(r) /\ EnterServing(r)
  BY <1>1, CountEnter DEF RequestArrives, Starts
<1>2. CASE RequestArrives(r) /\ ~EnterServing(r)
  <2>1. serving' = serving /\ InFlight' = InFlight
    BY <1>2, Kinds DEF RequestArrives, Starts, Go, InFlight, TaskTypes
  <2>2. QED
    BY <2>1 DEF ServingCounts
<1>3. CASE RequestEnters(r)
  BY <1>3, CountEnter DEF RequestEnters
<1>4. CASE RequestLeaves(r)
  BY <1>4, CountLeave
<1>5. QED
  BY <1>1, <1>2, <1>3, <1>4

\* After a restart no request is in flight and the count is zero.
LEMMA CountRestart == ASSUME ApiRestart PROVE ServingCounts' /\ InFlight' = {}
<1>1. \A r \in Requests : pc'[r] # "inference"
  BY Kinds DEF ApiRestart
<1>2. InFlight' = {}
  BY <1>1 DEF InFlight
<1>3. QED
  BY <1>2, FS_EmptySet DEF ServingCounts, ApiRestart

-----------------------------------------------------------------------------
(* The types.                                                              *)

LEMMA TypeParts ==
    TypeOK <=> TaskTypes /\ RecordTypes /\ LocalTypes /\ WorldTypes /\ serving \in Nat
BY DEF TypeOK, TaskTypes, RecordTypes, LocalTypes, WorldTypes, Marks

LEMMA TypePartsPrimed ==
    TaskTypes' /\ RecordTypes' /\ LocalTypes' /\ WorldTypes' /\ serving' \in Nat => TypeOK'
BY DEF TypeOK, TaskTypes, RecordTypes, LocalTypes, WorldTypes, Marks

\* The states that a _transition names.
LEMMA AllStates ==
    /\ "offline" \in States /\ "pulling" \in States /\ "starting" \in States
    /\ "warming" \in States /\ "ready" \in States /\ "serving" \in States
    /\ "idle" \in States /\ "unloading" \in States /\ "error" \in States
BY DEF States

\* A _transition writes a well-formed record.
LEMMA StampTypes ==
    ASSUME RecordTypes, NEW p \in Procs, NEW to \in States, NEW extra \in SUBSET Marks,
           Stamp(p, to, extra)
    PROVE  RecordTypes'
<1>1. state' \in States /\ marks' \subseteq Marks
  BY DEF Stamp, Carry, RecordTypes
<1>2. failures' \in Nat
  BY DEF Stamp, RecordTypes
<1>3. tail' \in [Procs -> States \union {None}]
  BY DEF Stamp, RecordTypes
<1>4. QED
  BY <1>1, <1>2, <1>3 DEF RecordTypes

\* So does a load's unforced one, legal or not.
LEMMA AdvanceTypes ==
    ASSUME RecordTypes, NEW c \in Procs, NEW to \in States, NEW place, Advance(c, to, place)
    PROVE  RecordTypes'
<1>1. CASE Stamp(c, to, {})
  BY <1>1, StampTypes
<1>2. CASE ~Stamp(c, to, {})
  BY <1>2 DEF Advance, record, RecordTypes
<1>3. QED
  BY <1>1, <1>2

\* A task that goes to a place is at a place.
LEMMA GoTypes ==
    ASSUME TaskTypes, NEW p \in Procs, NEW place \in Places, Go(p, place)
    PROVE  pc' \in [Procs -> Places \union Recoveries]
BY DEF Go, TaskTypes

\* A stop leaves the unit in one of its states and the bookkeeping consistent.
LEMMA StopTypes ==
    ASSUME WorldTypes, NEW c \in Calls, NEW how, StopUnit(c, how)
    PROVE  unit' \in Units /\ late' \subseteq Calls /\ overtaken' \subseteq late'
           /\ ended' \subseteq Calls /\ runs' = runs /\ sane' = sane /\ faults' = faults
BY DEF StopUnit, WorldTypes, Units

\* The starts of calls and their first step under the lock.
LEMMA CallTypes ==
    ASSUME TaskTypes, RecordTypes, LocalTypes, WorldTypes, NEW c \in Calls,
           CallStep(c) \/ LockStep(c)
    PROVE  TaskTypes' /\ RecordTypes' /\ LocalTypes' /\ WorldTypes'
<1> USE Kinds
<1>1. CASE CallLoad(c) \/ CallUnload(c) \/ CallRestart(c) \/ CallSwap(c)
  <2>1. TaskTypes'
    <3>1. pc' = [pc EXCEPT ![c] = "load"] \/ pc' = [pc EXCEPT ![c] = "unload"]
          \/ pc' = [pc EXCEPT ![c] = "reset"]
      BY <1>1 DEF CallLoad, CallUnload, CallRestart, CallSwap, Go
    <3>2. lock' = lock
      BY <1>1 DEF CallLoad, CallUnload, CallRestart, CallSwap
    <3>3. QED
      BY <3>1, <3>2, AllPlaces DEF TaskTypes
  <2>2. RecordTypes'
    BY <1>1 DEF CallLoad, CallUnload, CallRestart, CallSwap, RecordTypes, record, breaker
  <2>3. LocalTypes'
    BY <1>1 DEF CallLoad, CallUnload, CallRestart, CallSwap, LocalTypes
  <2>4. WorldTypes'
    BY <1>1 DEF CallLoad, CallUnload, CallRestart, CallSwap, WorldTypes, Written, Models,
                world, stops, breaker
  <2>5. QED
    BY <2>1, <2>2, <2>3, <2>4
<1>2. CASE LoadBegin(c) \/ LoadAbandoned(c) \/ ResetBegin(c)
  <2>1. TaskTypes'
    <3>1. lock' = c
      BY <1>2 DEF LoadBegin, LoadAbandoned, ResetBegin, Acquire
    <3>2. \E place \in Places : pc' = [pc EXCEPT ![c] = place]
      <4>1. CASE LoadBegin(c)
        BY <4>1, AllPlaces, LockedPlaces DEF LoadBegin, Go
      <4>2. CASE LoadAbandoned(c) \/ ResetBegin(c)
        BY <4>2, AllPlaces, LockedPlaces DEF LoadAbandoned, ResetBegin, Go
      <4>3. QED
        BY <1>2, <4>1, <4>2
    <3>3. QED
      BY <3>1, <3>2 DEF TaskTypes
  <2>2. RecordTypes'
    BY <1>2 DEF LoadBegin, LoadAbandoned, ResetBegin, RecordTypes, record, breaker
  <2>3. LocalTypes'
    BY <1>2 DEF LoadBegin, LoadAbandoned, ResetBegin, LocalTypes, WorldTypes
  <2>4. WorldTypes'
    BY <1>2 DEF LoadBegin, LoadAbandoned, ResetBegin, WorldTypes, world, stops, breaker
  <2>5. QED
    BY <2>1, <2>2, <2>3, <2>4
<1>3. CASE EnterUnload(c)
  <2>1. CASE state = "offline"
    BY <1>3, <2>1, AllPlaces, LockedPlaces
       DEF EnterUnload, Acquire, Go, TaskTypes, RecordTypes, LocalTypes, WorldTypes,
           record, world, stops
  <2>2. CASE state # "offline"
    <3>1. RecordTypes'
      BY <1>3, <2>2, StampTypes, AllStates DEF EnterUnload
    <3>2. TaskTypes'
      BY <1>3, <2>2, AllPlaces, LockedPlaces DEF EnterUnload, Acquire, Go, TaskTypes
    <3>3. LocalTypes' /\ WorldTypes'
      BY <1>3 DEF EnterUnload, LocalTypes, WorldTypes, world, stops
    <3>4. QED
      BY <3>1, <3>2, <3>3
  <2>3. QED
    BY <2>1, <2>2
<1>4. CASE SweepEvicts(c) /\ ~EnterUnload(c)
  BY <1>4, AllPlaces
     DEF SweepEvicts, Go, TaskTypes, RecordTypes, LocalTypes, WorldTypes, record, world, stops,
         breaker
<1>5. QED
  BY <1>1, <1>2, <1>3, <1>4 DEF CallStep, LockStep, UnloadBegin

\* The steps of a load.
LEMMA LoadTypes ==
    ASSUME TaskTypes, RecordTypes, LocalTypes, WorldTypes, NEW c \in Calls, LoadStep(c)
    PROVE  TaskTypes' /\ RecordTypes' /\ LocalTypes' /\ WorldTypes'
<1> USE Kinds
<1>1. CASE StallCheck(c) \/ DriftCheck(c) \/ Pulled(c) \/ SpawnRaises(c) \/ CountFailure(c)
  <2>1. \E place \in Places : pc' = [pc EXCEPT ![c] = place]
    <3>1. CASE StallCheck(c)
      BY <3>1, AllPlaces, LockedPlaces DEF StallCheck, Go
    <3>2. CASE DriftCheck(c) \/ Pulled(c) \/ SpawnRaises(c) \/ CountFailure(c)
      BY <3>2, AllPlaces, LockedPlaces DEF DriftCheck, Pulled, SpawnRaises, CountFailure, Go
    <3>3. QED
      BY <1>1, <3>1, <3>2
  <2>2. TaskTypes'
    BY <1>1, <2>1 DEF StallCheck, DriftCheck, Pulled, SpawnRaises, CountFailure, TaskTypes
  <2>3. RecordTypes'
    BY <1>1 DEF StallCheck, DriftCheck, Pulled, SpawnRaises, CountFailure, RecordTypes, record,
                breaker
  <2>4. LocalTypes'
    BY <1>1 DEF StallCheck, DriftCheck, Pulled, SpawnRaises, CountFailure, LocalTypes
  <2>5. WorldTypes'
    BY <1>1 DEF StallCheck, DriftCheck, Pulled, SpawnRaises, CountFailure, WorldTypes, world,
                stops, breaker, Units
  <2>6. QED
    BY <2>2, <2>3, <2>4, <2>5
<1>2. CASE Prepare(c) \/ Preflight(c) \/ AwaitReady(c)
  <2>1. \/ \E to \in States, place \in Places : Advance(c, to, place)
        \/ \E place \in Places : Stamp(c, "offline", {}) /\ Go(c, place)
        \/ \E place \in Places : Go(c, place) /\ UNCHANGED <<record, failures, tail>>
    BY <1>2, AllPlaces, LockedPlaces, AllStates DEF Prepare, Preflight, AwaitReady
  <2>2. RecordTypes'
    BY <2>1, StampTypes, AdvanceTypes, AllStates DEF RecordTypes, record
  <2>3. \E place \in Places : Go(c, place)
    BY <2>1, AllPlaces, LockedPlaces DEF Advance
  <2>4. TaskTypes'
    BY <1>2, <2>3, GoTypes DEF Prepare, Preflight, AwaitReady, TaskTypes
  <2>5. LocalTypes' /\ WorldTypes'
    BY <1>2 DEF Prepare, Preflight, AwaitReady, LocalTypes, WorldTypes, world, stops
  <2>6. QED
    BY <2>2, <2>4, <2>5
<1>3. CASE Spawned(c)
  <2>1. Advance(c, "warming", "await_ready")
    BY <1>3 DEF Spawned
  <2>2. RecordTypes'
    BY <2>1, AdvanceTypes, AllStates
  <2>3. \E place \in Places : Go(c, place)
    BY <2>1, AllPlaces, LockedPlaces DEF Advance
  <2>4. TaskTypes'
    BY <1>3, <2>3, GoTypes DEF Spawned, TaskTypes
  <2>5. Model(c) \in Models \union {NoModel}
    BY DEF Model, Models, LocalTypes
  <2>6. LocalTypes' /\ WorldTypes'
    BY <1>3, <2>5 DEF Spawned, LocalTypes, WorldTypes, Units, Active
  <2>7. QED
    BY <2>2, <2>4, <2>6
<1>4. CASE Persist(c)
  <2>1. default' \in Models \union {NoModel}
    BY <1>4 DEF Persist, Written, Models, WorldTypes
  <2>2. TaskTypes'
    BY <1>4, GoTypes, LockedPlaces, AllPlaces DEF Persist, TaskTypes
  <2>3. QED
    BY <1>4, <2>1, <2>2 DEF Persist, RecordTypes, LocalTypes, WorldTypes, record, world, stops,
                            breaker
<1>5. CASE StampError(c)
  <2>1. \E extra \in SUBSET Marks : Stamp(c, "error", extra)
    BY <1>5 DEF StampError, Marks
  <2>2. RecordTypes'
    BY <2>1, StampTypes, AllStates
  <2>3. TaskTypes'
    BY <1>5, GoTypes, LockedPlaces, AllPlaces DEF StampError, TaskTypes
  <2>4. LocalTypes' /\ WorldTypes'
    BY <1>5 DEF StampError, LocalTypes, WorldTypes, world, stops
  <2>5. QED
    BY <2>2, <2>3, <2>4
<1>6. CASE Raise(c)
  <2>1. TaskTypes'
    BY <1>6, AllPlaces DEF Raise, End, Release, TaskTypes
  <2>2. LocalTypes'
    BY <1>6, AllStates DEF Raise, Forget, Blank, LocalTypes
  <2>3. RecordTypes' /\ WorldTypes'
    BY <1>6 DEF Raise, RecordTypes, WorldTypes, record, world, stops, breaker
  <2>4. QED
    BY <2>1, <2>2, <2>3
<1>7. QED
  BY <1>1, <1>2, <1>3, <1>4, <1>5, <1>6 DEF LoadStep

\* The stops, waited for and abandoned.
LEMMA StopStepTypes ==
    ASSUME TaskTypes, RecordTypes, LocalTypes, WorldTypes, NEW c \in Calls,
           StopStep(c) \/ LateStep(c)
    PROVE  TaskTypes' /\ RecordTypes' /\ LocalTypes' /\ WorldTypes'
<1> USE Kinds
<1>1. ASSUME NEW how \in HowStopEnds,
             ReloadStopped(c, how) \/ SanityStopped(c, how) \/ UnloadStopped(c, how)
                \/ ResetStopped(c, how)
      PROVE  TaskTypes' /\ RecordTypes' /\ LocalTypes' /\ WorldTypes'
  <2>1. StopUnit(c, how) /\ upstream' \in BOOLEAN
    BY <1>1 DEF ReloadStopped, SanityStopped, UnloadStopped, ResetStopped, terminate, WorldTypes
  <2>2. \/ \E to \in States, extra \in SUBSET Marks : Stamp(c, to, extra)
        \/ UNCHANGED <<record, failures, tail>>
    BY <1>1, AllStates
       DEF ReloadStopped, SanityStopped, UnloadStopped, ResetStopped, Marks, breaker
  <2>3. RecordTypes'
    BY <2>2, StampTypes DEF RecordTypes, record
  <2>4. \E place \in Places : Go(c, place)
    BY <1>1, LockedPlaces, AllPlaces
       DEF ReloadStopped, SanityStopped, UnloadStopped, ResetStopped
  <2>5. TaskTypes'
    BY <1>1, <2>4, GoTypes
       DEF ReloadStopped, SanityStopped, UnloadStopped, ResetStopped, TaskTypes
  <2>6. LocalTypes'
    BY <1>1 DEF ReloadStopped, SanityStopped, UnloadStopped, ResetStopped, LocalTypes
  <2>7. UNCHANGED <<default, cooling, restarts>>
    BY <1>1 DEF ReloadStopped, SanityStopped, UnloadStopped, ResetStopped, breaker
  <2>8. WorldTypes'
    BY <2>1, <2>7, StopTypes DEF WorldTypes
  <2>9. QED
    BY <2>3, <2>5, <2>6, <2>8
<1>2. CASE LateStopReturns(c) \/ LateStopRaises(c)
  BY <1>2 DEF LateStopReturns, LateStopRaises, TaskTypes, RecordTypes, LocalTypes, WorldTypes,
              record, world, breaker, tasks, Units
<1>3. CASE SlowStopEnds(c)
  <2>1. RecordTypes'
    BY <1>3, AllStates DEF SlowStopEnds, RecordTypes, Carry, record, breaker, tasks
  <2>2. TaskTypes' /\ LocalTypes' /\ WorldTypes'
    BY <1>3 DEF SlowStopEnds, TaskTypes, LocalTypes, WorldTypes, world, breaker, tasks
  <2>3. QED
    BY <2>1, <2>2
<1>4. QED
  BY <1>1, <1>2, <1>3 DEF StopStep, LateStep

\* The steps of a status().
LEMMA StatusTypes ==
    ASSUME TaskTypes, RecordTypes, LocalTypes, WorldTypes,
           NEW p \in Calls \union Polls \union {Boot}, StatusStep(p)
    PROVE  TaskTypes' /\ RecordTypes' /\ LocalTypes' /\ WorldTypes'
<1> USE Kinds
<1>1. CASE ReadRecord(p)
  <2>1. LocalTypes'
    BY <1>1 DEF ReadRecord, LocalTypes, RecordTypes
  <2>2. TaskTypes'
    BY <1>1, GoTypes, LockedPlaces, AllPlaces DEF ReadRecord, TaskTypes
  <2>3. RecordTypes' /\ WorldTypes'
    BY <1>1 DEF ReadRecord, RecordTypes, WorldTypes, record, world, stops, breaker
  <2>4. QED
    BY <2>1, <2>2, <2>3
<1>2. CASE Reconcile(p) \/ AdoptCheck(p) \/ DropRoute(p)
  <2>1. \E place \in Places : Go(p, place)
    <3>1. CASE Reconcile(p)
      BY <3>1, LockedPlaces, AllPlaces DEF Reconcile, Go
    <3>2. CASE AdoptCheck(p)
      BY <3>2, LockedPlaces, AllPlaces DEF AdoptCheck, Go
    <3>3. CASE DropRoute(p)
      BY <3>3, LockedPlaces, AllPlaces DEF DropRoute
    <3>4. QED
      BY <1>2, <3>1, <3>2, <3>3
  <2>2. TaskTypes'
    BY <1>2, <2>1, GoTypes DEF Reconcile, AdoptCheck, DropRoute, TaskTypes
  <2>3. RecordTypes' /\ LocalTypes' /\ WorldTypes'
    BY <1>2 DEF Reconcile, AdoptCheck, DropRoute, RecordTypes, LocalTypes, WorldTypes, record,
                world, stops, breaker
  <2>4. QED
    BY <2>2, <2>3
<1>3. CASE StampDead(p) \/ StampClean(p) \/ StampRemoved(p) \/ AdoptHealth(p) \/ AdoptStalled(p)
  <2>1. \/ \E to \in States : Stamp(p, to, {})
        \/ UNCHANGED <<record, failures, tail>>
    BY <1>3, AllStates
       DEF StampDead, StampClean, StampRemoved, AdoptHealth, AdoptStalled, Adopt
  <2>2. RecordTypes'
    BY <2>1, StampTypes DEF RecordTypes, record
  <2>3. \E place \in Places : Go(p, place)
    BY <1>3, LockedPlaces, AllPlaces
       DEF StampDead, StampClean, StampRemoved, AdoptHealth, AdoptStalled, Adopt
  <2>4. TaskTypes'
    BY <1>3, <2>3, GoTypes
       DEF StampDead, StampClean, StampRemoved, AdoptHealth, AdoptStalled, TaskTypes
  <2>5. LocalTypes' /\ WorldTypes'
    BY <1>3 DEF StampDead, StampClean, StampRemoved, AdoptHealth, AdoptStalled, LocalTypes,
                WorldTypes, world, stops
  <2>6. QED
    BY <2>2, <2>4, <2>5
<1>4. CASE Return(p)
  <2>1. TaskTypes'
    BY <1>4, AllPlaces DEF Return, Release, Go, End, TaskTypes
  <2>2. LocalTypes'
    BY <1>4, AllStates DEF Return, Forget, Blank, LocalTypes
  <2>3. RecordTypes' /\ WorldTypes'
    BY <1>4 DEF Return, RecordTypes, WorldTypes, record, world, stops, breaker
  <2>4. QED
    BY <2>1, <2>2, <2>3
<1>5. CASE Adopted(p)
  <2>1. TaskTypes'
    BY <1>5, AllPlaces, LockedPlaces DEF Adopted, TaskTypes
  <2>2. RecordTypes' /\ LocalTypes' /\ WorldTypes'
    BY <1>5 DEF Adopted, RecordTypes, LocalTypes, WorldTypes, record, world, stops, breaker
  <2>3. QED
    BY <2>1, <2>2
<1>6. QED
  BY <1>1, <1>2, <1>3, <1>4, <1>5 DEF StatusStep

\* The end of a _transition.
LEMMA TailTypes ==
    ASSUME TaskTypes, RecordTypes, LocalTypes, WorldTypes, NEW p \in Procs, Tail(p)
    PROVE  TaskTypes' /\ RecordTypes' /\ LocalTypes' /\ WorldTypes'
<1>1. \A q \in Procs : pc'[q] \in {"raised", "off", "sleep", pc[q]}
  BY DEF Tail
<1>2. pc' \in [Procs -> Places \union Recoveries]
  <2>1. DOMAIN pc' = Procs /\ pc' = [q \in Procs |-> pc'[q]]
    BY DEF Tail
  <2>2. QED
    BY <1>1, <2>1, AllPlaces DEF TaskTypes
<1>3. tail' \in [Procs -> States \union {None}]
  BY DEF Tail, RecordTypes
<1>4. lock' \in Procs \union {Nobody}
  BY DEF Tail, TaskTypes
<1>5. LocalTypes' /\ WorldTypes'
  BY DEF Tail, LocalTypes, WorldTypes, world, stops, breaker
<1>6. RecordTypes'
  BY <1>3 DEF Tail, RecordTypes, record, breaker
<1>7. QED
  BY <1>2, <1>4, <1>5, <1>6 DEF TaskTypes

\* The watcher, the promotion poll, the startup pass and the soft demotion.
LEMMA LoopTypes ==
    ASSUME TaskTypes, RecordTypes, LocalTypes, WorldTypes,
           WatcherStep \/ PromoterStep \/ BootReconcile \/ SweepDemotes
    PROVE  TaskTypes' /\ RecordTypes' /\ LocalTypes' /\ WorldTypes'
<1> USE Kinds
<1>1. CASE WatcherPolls
  <2>1. TaskTypes'
    <3>1. \/ \E place \in Places : Go(Watchdog, place)
          \/ \E v \in Recoveries : pc' = [pc EXCEPT ![Watchdog] = v, ![v] = "unload"]
      BY <1>1, AllPlaces DEF WatcherPolls
    <3>2. pc' \in [Procs -> Places \union Recoveries]
      BY <3>1, GoTypes, AllPlaces, CallKinds DEF TaskTypes
    <3>3. QED
      BY <1>1, <3>2 DEF WatcherPolls, TaskTypes
  <2>2. RecordTypes' /\ LocalTypes' /\ WorldTypes'
    BY <1>1 DEF WatcherPolls, RecordTypes, LocalTypes, WorldTypes, record, world, stops, breaker
  <2>3. QED
    BY <2>1, <2>2
<1>2. CASE WatcherLocks \/ WatcherDeclines
  <2>1. TaskTypes'
    BY <1>2, AllPlaces DEF WatcherLocks, WatcherDeclines, KeepOrEndWatch, Go, Release, TaskTypes
  <2>2. RecordTypes' /\ LocalTypes' /\ WorldTypes'
    BY <1>2 DEF WatcherLocks, WatcherDeclines, RecordTypes, LocalTypes, WorldTypes, record,
                world, stops, breaker
  <2>3. QED
    BY <2>1, <2>2
<1>3. CASE WatcherStamps
  <2>1. \E to \in States, extra \in SUBSET Marks : Stamp(Watchdog, to, extra)
    BY <1>3, AllStates DEF WatcherStamps, Marks
  <2>2. RecordTypes'
    BY <2>1, StampTypes
  <2>3. TaskTypes' /\ LocalTypes' /\ WorldTypes'
    BY <1>3 DEF WatcherStamps, TaskTypes, LocalTypes, WorldTypes, world, stops
  <2>4. QED
    BY <2>2, <2>3
<1>4. CASE PromoterStep
  <2>1. Stamp(Promoter, "ready", {}) \/ UNCHANGED <<record, failures, tail>>
    BY <1>4 DEF PromoterStep, PromoterPolls, Promote, breaker
  <2>2. RecordTypes'
    BY <2>1, StampTypes, AllStates DEF RecordTypes, record
  <2>3. TaskTypes'
    BY <1>4, AllPlaces DEF PromoterStep, PromoterPolls, Promote, Go, TaskTypes
  <2>4. LocalTypes' /\ WorldTypes'
    BY <1>4 DEF PromoterStep, PromoterPolls, Promote, LocalTypes, WorldTypes, world, stops,
                breaker
  <2>5. QED
    BY <2>2, <2>3, <2>4
<1>5. CASE BootReconcile
  <2>1. TaskTypes'
    BY <1>5, AllPlaces, LockedPlaces DEF BootReconcile, Go, TaskTypes
  <2>2. RecordTypes' /\ LocalTypes' /\ WorldTypes'
    BY <1>5 DEF BootReconcile, RecordTypes, LocalTypes, WorldTypes, record, world, stops,
                breaker
  <2>3. QED
    BY <2>1, <2>2
<1>6. CASE SweepDemotes
  <2>1. TaskTypes'
    BY <1>6, AllPlaces DEF SweepDemotes, TaskTypes
  <2>2. RecordTypes'
    BY <1>6, AllStates DEF SweepDemotes, RecordTypes, Carry
  <2>3. LocalTypes' /\ WorldTypes'
    BY <1>6 DEF SweepDemotes, LocalTypes, WorldTypes, world, stops
  <2>4. QED
    BY <2>1, <2>2, <2>3
<1>7. QED
  BY <1>1, <1>2, <1>3, <1>4, <1>5, <1>6 DEF WatcherStep

\* Polls and requests.
LEMMA RequestTypes ==
    ASSUME TaskTypes, RecordTypes, LocalTypes, WorldTypes,
           \/ \E p \in Polls : Poll(p)
           \/ \E r \in Requests : RequestArrives(r) \/ RequestEnters(r) \/ RequestLeaves(r)
    PROVE  TaskTypes' /\ RecordTypes' /\ LocalTypes' /\ WorldTypes'
<1> USE Kinds
<1>1. CASE \E p \in Polls : Poll(p)
  BY <1>1, AllPlaces, LockedPlaces
     DEF Poll, Go, TaskTypes, RecordTypes, LocalTypes, WorldTypes, record, world, stops, breaker
<1>2. ASSUME NEW r \in Requests, RequestArrives(r) \/ RequestEnters(r) \/ RequestLeaves(r)
      PROVE  TaskTypes' /\ RecordTypes' /\ LocalTypes' /\ WorldTypes'
  <2>1. \/ \E to \in States : Stamp(r, to, {})
        \/ UNCHANGED <<record, failures, tail>>
    BY <1>2, AllStates DEF RequestArrives, RequestEnters, RequestLeaves, EnterServing, breaker
  <2>2. RecordTypes'
    BY <2>1, StampTypes DEF RecordTypes, record
  <2>3. TaskTypes'
    BY <1>2, AllPlaces DEF RequestArrives, RequestEnters, RequestLeaves, EnterServing, Go,
                           TaskTypes
  <2>4. LocalTypes' /\ WorldTypes'
    BY <1>2 DEF RequestArrives, RequestEnters, RequestLeaves, EnterServing, LocalTypes,
                WorldTypes, world, stops, breaker
  <2>5. QED
    BY <2>2, <2>3, <2>4
<1>3. QED
  BY <1>1, <1>2

\* The environment, and a restart of the API.
LEMMA WorldStepTypes ==
    ASSUME TaskTypes, RecordTypes, LocalTypes, WorldTypes,
           UnitAnswers \/ UnitFault \/ Unassign \/ CoolDown \/ ApiRestart
    PROVE  TaskTypes' /\ RecordTypes' /\ LocalTypes' /\ WorldTypes'
<1>1. CASE UnitAnswers \/ UnitFault \/ Unassign \/ CoolDown
  <2>1. TaskTypes' /\ RecordTypes' /\ LocalTypes'
    BY <1>1 DEF UnitAnswers, UnitFault, Unassign, CoolDown, TaskTypes, RecordTypes, LocalTypes,
                record, breaker, tasks
  <2>2. WorldTypes'
    <3>1. CASE UnitAnswers \/ CoolDown
      BY <3>1 DEF UnitAnswers, CoolDown, WorldTypes, world, stops, breaker, Units, Active
    <3>2. CASE UnitFault
      <4>1. faults' \in Nat /\ unit' \in Units
        BY <3>2 DEF UnitFault, WorldTypes, Units, Active
      <4>2. QED
        BY <3>2, <4>1 DEF UnitFault, WorldTypes, stops, breaker
    <3>3. CASE Unassign
      BY <3>3 DEF Unassign, WorldTypes, stops, breaker
    <3>4. QED
      BY <1>1, <3>1, <3>2, <3>3
  <2>3. QED
    BY <2>1, <2>2
<1>2. CASE ApiRestart
  <2>1. \A p \in Procs : pc'[p] \in {"boot", "off", "idle", "raised"} \union Final
    BY <1>2 DEF ApiRestart
  <2>2. DOMAIN pc' = Procs /\ pc' = [q \in Procs |-> pc'[q]]
    BY <1>2 DEF ApiRestart
  <2>3. TaskTypes'
    BY <1>2, <2>1, <2>2, AllPlaces DEF ApiRestart, TaskTypes
  <2>4. RecordTypes'
    BY <1>2 DEF ApiRestart, RecordTypes, record
  <2>5. LocalTypes'
    BY <1>2, AllStates DEF ApiRestart, LocalTypes, Blank
  <2>6. \A c \in Calls : Model(c) \in Models \union {NoModel}
    BY DEF Model, Models, LocalTypes
  <2>7. WorldTypes'
    <3>1. unit' \in Units /\ runs' \in Models \union {NoModel} /\ sane' \in BOOLEAN
      BY <1>2, <2>6 DEF ApiRestart, WorldTypes, Units, Active
    <3>2. restarts' \in Nat
      BY <1>2 DEF ApiRestart, WorldTypes
    <3>3. QED
      BY <1>2, <3>1, <3>2 DEF ApiRestart, WorldTypes
  <2>8. QED
    BY <2>3, <2>4, <2>5, <2>7
<1>3. QED
  BY <1>1, <1>2

-----------------------------------------------------------------------------
(* The theorems.                                                           *)

IInv == TypeOK /\ LockDiscipline /\ ServingCounts

\* The initial states satisfy the invariant.
LEMMA InitIInv == Init => IInv
<1> SUFFICES ASSUME Init PROVE IInv
  OBVIOUS
<1>1. TaskTypes
  BY Kinds, AllPlaces DEF Init, TaskTypes
<1>2. RecordTypes
  BY AllStates DEF Init, RecordTypes
<1>3. LocalTypes
  BY AllStates DEF Init, LocalTypes
<1>4. WorldTypes
  BY LifecycleAssumption DEF Init, WorldTypes, Units, Models
<1>5. LockDiscipline
  BY Kinds, UnlockedPlaces DEF Init, LockDiscipline
<1>6. InFlight = {}
  BY Kinds DEF Init, InFlight
<1>7. ServingCounts
  BY <1>6, FS_EmptySet DEF Init, ServingCounts
<1>8. QED
  BY <1>1, <1>2, <1>3, <1>4, <1>5, <1>7, TypeParts DEF IInv, Init

\* Every step preserves it.
LEMMA NextIInv == IInv /\ [Next]_vars => IInv'
<1> SUFFICES ASSUME IInv, [Next]_vars PROVE IInv'
  OBVIOUS
<1>1. TaskTypes /\ RecordTypes /\ LocalTypes /\ WorldTypes /\ serving \in Nat
      /\ LockDiscipline /\ ServingCounts
  BY TypeParts DEF IInv
<1>2. ASSUME NEW c \in Calls,
             CallStep(c) \/ LockStep(c) \/ LoadStep(c) \/ StopStep(c) \/ LateStep(c)
      PROVE  IInv'
  <2>1. TaskTypes' /\ RecordTypes' /\ LocalTypes' /\ WorldTypes'
    BY <1>1, <1>2, CallTypes, LoadTypes, StopStepTypes
  <2>2. LockDiscipline'
    BY <1>1, <1>2, LockCallStep, LockLoadStep, LockStopStep
  <2>3. serving' = serving /\ \A r \in Requests : pc'[r] = pc[r]
    BY <1>1, <1>2, CallMovesNoRequest
  <2>4. QED
    BY <1>1, <2>1, <2>2, <2>3, CountStays, TypePartsPrimed DEF IInv
<1>3. CASE \/ \E p \in Procs : Tail(p)
           \/ \E p \in Calls \union Polls \union {Boot} : StatusStep(p)
           \/ \E p \in Polls : Poll(p)
           \/ BootReconcile \/ WatcherStep \/ PromoterStep \/ SweepDemotes
           \/ UnitAnswers \/ UnitFault \/ Unassign \/ CoolDown
  <2>1. TaskTypes' /\ RecordTypes' /\ LocalTypes' /\ WorldTypes'
    BY <1>1, <1>3, TailTypes, StatusTypes, RequestTypes, LoopTypes, WorldStepTypes
  <2>2. LockDiscipline'
    BY <1>1, <1>3, LockTail, LockStatusStep, LockWatcherStep, LockRest
  <2>3. serving' = serving /\ \A r \in Requests : pc'[r] = pc[r]
    BY <1>1, <1>3, OthersMoveNoRequest
  <2>4. QED
    BY <1>1, <2>1, <2>2, <2>3, CountStays, TypePartsPrimed DEF IInv
<1>4. ASSUME NEW r \in Requests, RequestArrives(r) \/ RequestEnters(r) \/ RequestLeaves(r)
      PROVE  IInv'
  <2>1. TaskTypes' /\ RecordTypes' /\ LocalTypes' /\ WorldTypes'
    BY <1>1, <1>4, RequestTypes
  <2>2. LockDiscipline' /\ ServingCounts'
    BY <1>1, <1>4, LockRest, CountRequestStep
  <2>3. RequestLeaves(r) => serving \in Nat \ {0}
    BY <1>1, CountLeave
  <2>4. serving' \in Nat
    BY <1>1, <1>4, <2>3 DEF RequestArrives, RequestEnters, RequestLeaves, EnterServing
  <2>5. QED
    BY <2>1, <2>2, <2>4, TypePartsPrimed DEF IInv
<1>5. CASE ApiRestart
  <2>1. TaskTypes' /\ RecordTypes' /\ LocalTypes' /\ WorldTypes'
    BY <1>1, <1>5, WorldStepTypes
  <2>2. LockDiscipline' /\ ServingCounts'
    BY <1>1, <1>5, LockRest, CountRestart
  <2>3. serving' \in Nat
    BY <1>5 DEF ApiRestart
  <2>4. QED
    BY <2>1, <2>2, <2>3, TypePartsPrimed DEF IInv
<1>6. CASE UNCHANGED vars
  <2>1. UNCHANGED <<state, marks, unit, runs, sane, faults, late, overtaken, ended, failures,
                    cooling, pc, tail, lock, leg, cfg, seen, default, upstream, serving,
                    restarts>>
    BY <1>6 DEF vars, record, world, stops, breaker, tasks
  <2>2. TaskTypes' /\ RecordTypes' /\ LocalTypes' /\ WorldTypes' /\ serving' \in Nat
    BY <1>1, <2>1 DEF TaskTypes, RecordTypes, LocalTypes, WorldTypes
  <2>3. LockDiscipline' /\ ServingCounts'
    BY <1>1, <2>1, CountStays DEF LockDiscipline
  <2>4. QED
    BY <2>2, <2>3, TypePartsPrimed DEF IInv
<1>7. QED
  BY <1>2, <1>3, <1>4, <1>5, <1>6 DEF Next

\* The invariant holds in every reachable state.
LEMMA Invariance == Spec => []IInv
<1>1. Init => IInv
  BY InitIInv
<1>2. IInv /\ [Next]_vars => IInv'
  BY NextIInv
<1>3. QED
  BY <1>1, <1>2, PTL DEF Spec

\* Every variable of the slot's machinery keeps its type.
THEOREM TypesKept == Spec => []TypeOK
<1>1. IInv => TypeOK
  BY DEF IInv
<1>2. QED
  BY <1>1, Invariance, PTL

\* The slot's lock excludes: whatever polls, watchers, cancellations and restarts
\* do, a call between `async with self._lock(slot_id)` and its exit is the holder.
THEOREM LockHeld == Spec => []LockDiscipline
<1>1. IInv => LockDiscipline
  BY DEF IInv
<1>2. QED
  BY <1>1, Invariance, PTL

\* _serving_count is exactly the number of requests between _serving_enter and
\* _serving_exit, for any number of requests and restarts.
THEOREM CountExact == Spec => []ServingCounts
<1>1. IInv => ServingCounts
  BY DEF IInv
<1>2. QED
  BY <1>1, Invariance, PTL

-----------------------------------------------------------------------------
(* SERVING means busy, while the API process lives.  A restart forgets the *)
(* requests and keeps the record, so the theorem is about MaxRestarts = 0. *)

IBusy == restarts = 0 /\ (state = "serving" => InFlight # {})

\* A call's steps never write SERVING.
LEMMA CallNeverServes ==
    ASSUME NEW c \in Calls,
           CallStep(c) \/ LockStep(c) \/ LoadStep(c) \/ StopStep(c) \/ LateStep(c)
    PROVE  restarts' = restarts /\ (state' = state \/ state' # "serving")
<1>1. CASE CallStep(c) \/ LockStep(c)
  BY <1>1 DEF CallStep, LockStep, CallLoad, CallUnload, CallRestart, CallSwap, SweepEvicts,
              LoadAbandoned, LoadBegin, UnloadBegin, EnterUnload, ResetBegin, Stamp, record
<1>2. CASE LoadStep(c)
  BY <1>2 DEF LoadStep, StallCheck, DriftCheck, Prepare, Pulled, Preflight, Spawned, Advance,
              SpawnRaises, AwaitReady, Persist, CountFailure, StampError, Raise, Stamp, record
<1>3. CASE StopStep(c)
  BY <1>3 DEF StopStep, ReloadStopped, SanityStopped, UnloadStopped, ResetStopped, Stamp, record
<1>4. CASE LateStep(c)
  BY <1>4 DEF LateStep, LateStopReturns, LateStopRaises, SlowStopEnds, record
<1>5. QED
  BY <1>1, <1>2, <1>3, <1>4

\* Nor does anyone else but a request.
LEMMA OthersNeverServe ==
    ASSUME \/ \E p \in Procs : Tail(p)
           \/ \E p \in Calls \union Polls \union {Boot} : StatusStep(p)
           \/ \E p \in Polls : Poll(p)
           \/ BootReconcile \/ WatcherStep \/ PromoterStep \/ SweepDemotes
           \/ UnitAnswers \/ UnitFault \/ Unassign \/ CoolDown
    PROVE  restarts' = restarts /\ (state' = state \/ state' # "serving")
<1>1. CASE \E p \in Procs : Tail(p)
  BY <1>1 DEF Tail, record
<1>2. ASSUME NEW p \in Calls \union Polls \union {Boot}, StatusStep(p)
      PROVE  restarts' = restarts /\ (state' = state \/ state' # "serving")
  BY <1>2 DEF StatusStep, ReadRecord, Reconcile, StampDead, StampClean, StampRemoved,
              DropRoute, Return, AdoptCheck, AdoptHealth, AdoptStalled, Adopted, Adopt, Stamp,
              record
<1>3. CASE \E p \in Polls : Poll(p)
  BY <1>3 DEF Poll, record
<1>4. CASE BootReconcile \/ SweepDemotes \/ PromoterStep
  BY <1>4 DEF BootReconcile, SweepDemotes, PromoterStep, PromoterPolls, Promote, Stamp, record
<1>5. CASE WatcherStep
  BY <1>5 DEF WatcherStep, WatcherPolls, WatcherLocks, WatcherStamps, WatcherDeclines, Stamp,
              record
<1>6. CASE UnitAnswers \/ UnitFault \/ Unassign \/ CoolDown
  BY <1>6 DEF UnitAnswers, UnitFault, Unassign, CoolDown, record
<1>7. QED
  BY <1>1, <1>2, <1>3, <1>4, <1>5, <1>6

\* A request that enters is in flight; one that leaves is not the last, or finds
\* the record no longer SERVING, or puts it back to READY.
LEMMA RequestKeepsBusy ==
    ASSUME TaskTypes, ServingCounts, IBusy, NEW r \in Requests,
           RequestArrives(r) \/ RequestEnters(r) \/ RequestLeaves(r)
    PROVE  IBusy'
<1>1. restarts' = restarts
  BY DEF RequestArrives, RequestEnters, RequestLeaves, EnterServing
<1>2. CASE EnterServing(r) /\ pc[r] # "inference"
  BY <1>1, <1>2, CountEnter DEF IBusy
<1>3. CASE RequestArrives(r) /\ ~EnterServing(r)
  <2>1. state' = state /\ InFlight' = InFlight
    BY <1>3, Kinds DEF RequestArrives, Starts, Go, InFlight, TaskTypes, record
  <2>2. QED
    BY <1>1, <2>1 DEF IBusy
<1>4. CASE RequestLeaves(r)
  <2>1. serving # 1 => InFlight' # {}
    BY <1>4, CountLeave
  <2>2. serving = 1 => state' # "serving"
    BY <1>4 DEF RequestLeaves, Stamp, record
  <2>3. QED
    BY <1>1, <2>1, <2>2 DEF IBusy
<1>5. QED
  BY <1>2, <1>3, <1>4 DEF RequestArrives, RequestEnters, Starts

\* A SERVING record means a request in flight, across unloads, adoptions, watcher
\* stamps and cancelled recoveries: the last _serving_exit always puts READY back,
\* and no one else writes SERVING.
THEOREM ServingBusy == MaxRestarts = 0 => (Spec => []ServingIsBusy)
<1>1. MaxRestarts = 0 /\ Init => IBusy
  BY DEF Init, IBusy
<1>2. IInv /\ IBusy /\ [Next]_vars => IBusy'
  <2> SUFFICES ASSUME IInv, IBusy, [Next]_vars PROVE IBusy'
    OBVIOUS
  <2>1. TaskTypes /\ ServingCounts
    BY TypeParts DEF IInv
  <2>2. ASSUME NEW c \in Calls,
               CallStep(c) \/ LockStep(c) \/ LoadStep(c) \/ StopStep(c) \/ LateStep(c)
        PROVE  IBusy'
    BY <2>1, <2>2, CallMovesNoRequest, CallNeverServes, CountStays DEF IBusy
  <2>3. CASE \/ \E p \in Procs : Tail(p)
             \/ \E p \in Calls \union Polls \union {Boot} : StatusStep(p)
             \/ \E p \in Polls : Poll(p)
             \/ BootReconcile \/ WatcherStep \/ PromoterStep \/ SweepDemotes
             \/ UnitAnswers \/ UnitFault \/ Unassign \/ CoolDown
    BY <2>1, <2>3, OthersMoveNoRequest, OthersNeverServe, CountStays DEF IBusy
  <2>4. ASSUME NEW r \in Requests, RequestArrives(r) \/ RequestEnters(r) \/ RequestLeaves(r)
        PROVE  IBusy'
    BY <2>1, <2>4, RequestKeepsBusy
  <2>5. ~ApiRestart
    BY DEF ApiRestart, IBusy
  <2>6. CASE UNCHANGED vars
    BY <2>6 DEF vars, record, tasks, InFlight, IBusy
  <2>7. QED
    BY <2>2, <2>3, <2>4, <2>5, <2>6 DEF Next
<1>3. IBusy => ServingIsBusy
  BY DEF IBusy, ServingIsBusy
<1>4. QED
  BY <1>1, <1>2, <1>3, Invariance, PTL DEF Spec

-----------------------------------------------------------------------------
(* The tokens of slow stops.                                               *)

\* Where a call has not stopped anything yet.
Early == {"idle", "unload", "unload_stop"}

\* Where a load has cleared the way for a new unit and not yet started it.
Clearing == {"prepare", "pulling", "preflight", "spawning"}

Tokens == marks \cap Calls

\* A token marks an ERROR; no unit was started during its stop, and when that
\* stop has returned the unit is gone.
TokenTrue ==
    \A c \in Tokens : state = "error" /\ c \notin overtaken /\ (c \in ended => unit = "gone")

\* A call leaves a token only once, before anything of it was abandoned.
TokenFresh == \A c \in Calls : pc[c] \in Early => c \notin late /\ c \notin ended

\* A load that is about to start a unit has cleared every token.
TokenCleared == \A c \in Calls : pc[c] \in Clearing => Tokens = {}

ITokens == TokenTrue /\ TokenFresh /\ TokenCleared

\* A _transition leaves no token but the one it supplies.
LEMMA StampClears ==
    ASSUME NEW p, NEW to, NEW extra, extra \cap Calls = {}, Stamp(p, to, extra)
    PROVE  Tokens' = {}
BY DEF Stamp, Carry, Tokens

\* Nor do the marks that are not tokens.
LEMMA NotTokens == {} \cap Calls = {} /\ {"sanity"} \cap Calls = {} /\ {"stall"} \cap Calls = {}
BY LifecycleAssumption

\* No call goes back to where it had stopped nothing, and a stop that is abandoned,
\* or that returns late, is of a call past that.
Onward ==
    \A c \in Calls : pc'[c] \in Early =>
        /\ pc[c] \in Early
        /\ c \in late' \union ended' => c \in late \union ended

\* The record is left alone; what it says of slow stops stays true.
Spares ==
    /\ state' = state /\ marks' = marks
    /\ overtaken' \subseteq overtaken /\ ended' \subseteq ended
    /\ unit = "gone" => unit' = "gone"
    /\ \A c \in Calls : pc'[c] \in Clearing => pc[c] \in Clearing

\* All but two kinds of step clear the tokens or spare the record.
LEMMA TokensKept ==
    ASSUME ITokens, Onward, Tokens' = {} \/ Spares
    PROVE  ITokens'
<1>1. TokenFresh'
  BY DEF ITokens, TokenFresh, Onward
<1>2. TokenTrue' /\ TokenCleared'
  <2>1. CASE Tokens' = {}
    BY <2>1 DEF TokenTrue, TokenCleared
  <2>2. CASE Spares
    BY <2>2 DEF ITokens, Spares, TokenTrue, TokenCleared, Tokens
  <2>3. QED
    BY <2>1, <2>2
<1>3. QED
  BY <1>1, <1>2 DEF ITokens

\* The start of a call, and its first step under the lock: a load that begins at
\* once finds no ERROR, and so no token.
LEMMA TokenCallStep ==
    ASSUME TaskTypes, ITokens, NEW c \in Calls, CallStep(c) \/ LockStep(c)
    PROVE  ITokens'
<1> USE Kinds
<1>1. Onward
  BY DEF CallStep, LockStep, CallLoad, CallUnload, CallRestart, CallSwap, SweepEvicts, Starts,
         LoadAbandoned, LoadBegin, UnloadBegin, EnterUnload, ResetBegin, Go, TaskTypes,
         stops, Onward, Early
<1>2. CASE LoadBegin(c)
  <2>1. CASE state = "error" \/ Tokens = {}
    <3>1. Tokens' = Tokens /\ (state = "error" => pc'[c] \notin Clearing)
      BY <1>2 DEF LoadBegin, Go, TaskTypes, record, Dispatchable, Inflight, Clearing, Tokens
    <3>2. state = "error" => Spares
      BY <1>2, <3>1 DEF LoadBegin, Go, TaskTypes, record, world, stops, Spares
    <3>3. QED
      BY <1>1, <2>1, <3>1, <3>2, TokensKept
  <2>2. QED
    BY <2>1 DEF ITokens, TokenTrue
<1>3. CASE \E p : Stamp(p, "unloading", {})
  BY <1>1, <1>3, StampClears, NotTokens, TokensKept
<1>4. CASE ~LoadBegin(c) /\ ~\E p : Stamp(p, "unloading", {})
  <2>1. Spares
    BY <1>4 DEF CallStep, LockStep, CallLoad, CallUnload, CallRestart, CallSwap, SweepEvicts,
                Starts, LoadAbandoned, UnloadBegin, EnterUnload, ResetBegin, Go, TaskTypes,
                record, world, stops, Spares, Clearing
  <2>2. QED
    BY <1>1, <2>1, TokensKept
<1>5. QED
  BY <1>2, <1>3, <1>4

\* A load's own steps: the one that starts a unit, and so could make a token lie,
\* finds none.
LEMMA TokenLoadStep ==
    ASSUME TaskTypes, ITokens, NEW c \in Calls, LoadStep(c)
    PROVE  ITokens'
<1> USE Kinds
<1>1. Onward
  BY DEF LoadStep, StallCheck, DriftCheck, Prepare, Pulled, Preflight, Spawned, Advance,
         SpawnRaises, AwaitReady, Persist, CountFailure, StampError, Raise, End, Go, TaskTypes,
         stops, Onward, Early
<1>2. CASE \E p, to : Stamp(p, to, {}) \/ Stamp(p, to, {"sanity"})
  BY <1>1, <1>2, StampClears, NotTokens, TokensKept
<1>3. CASE ~\E p, to : Stamp(p, to, {}) \/ Stamp(p, to, {"sanity"})
  <2>1. state' = state /\ marks' = marks
    BY <1>3 DEF LoadStep, StallCheck, DriftCheck, Prepare, Pulled, Preflight, Spawned, Advance,
                SpawnRaises, AwaitReady, Persist, CountFailure, StampError, Raise, record
  <2>2. CASE pc[c] \in Clearing
    BY <1>1, <2>1, <2>2, TokensKept DEF ITokens, TokenCleared, Tokens
  <2>3. CASE pc[c] \notin Clearing
    <3>1. Spares
      BY <2>1, <2>3 DEF LoadStep, StallCheck, DriftCheck, Prepare, Pulled, Preflight, Spawned,
             Advance, SpawnRaises, AwaitReady, Persist, CountFailure, StampError, Raise, End, Go,
             TaskTypes, world, stops, Spares, Clearing
    <3>2. QED
      BY <1>1, <3>1, TokensKept
  <2>4. QED
    BY <2>2, <2>3
<1>4. QED
  BY <1>2, <1>3

\* The end of a stop: a slow unload leaves its token, and by the lock no load is
\* clearing the way meanwhile.
LEMMA TokenStopStep ==
    ASSUME TaskTypes, WorldTypes, LockDiscipline, ITokens, NEW c \in Calls, StopStep(c)
    PROVE  ITokens'
<1> USE Kinds
<1>1. PICK how \in HowStopEnds :
        ReloadStopped(c, how) \/ SanityStopped(c, how) \/ UnloadStopped(c, how)
          \/ ResetStopped(c, how)
  BY DEF StopStep
<1>2. Onward
  BY <1>1 DEF ReloadStopped, SanityStopped, UnloadStopped, ResetStopped, terminate, StopUnit,
              Go, TaskTypes, Onward, Early
<1>3. CASE \E p, to : Stamp(p, to, {})
  BY <1>2, <1>3, StampClears, NotTokens, TokensKept
<1>4. CASE SanityStopped(c, how)
  <2>1. Spares
    BY <1>4 DEF SanityStopped, StopUnit, Go, TaskTypes, record, Spares, Clearing
  <2>2. QED
    BY <1>2, <2>1, TokensKept
<1>5. CASE UnloadStopped(c, how) /\ ~\E p, to : Stamp(p, to, {})
  <2>1. how = "slow" /\ pc[c] = "unload_stop" /\ pc' = [pc EXCEPT ![c] = "raise"]
        /\ Stamp(c, "error", {c})
    BY <1>5 DEF UnloadStopped, Go
  <2>2. Tokens' = {c} /\ state' = "error"
    BY <2>1 DEF Stamp, Carry, Tokens
  <2>3. c \notin late /\ c \notin ended
    BY <2>1 DEF ITokens, TokenFresh, Early
  <2>4. overtaken' = overtaken /\ ended' = ended /\ overtaken \subseteq late
    BY <1>5 DEF UnloadStopped, terminate, StopUnit, WorldTypes
  <2>5. TokenTrue'
    BY <2>2, <2>3, <2>4 DEF TokenTrue
  <2>6. TokenFresh'
    BY <1>2 DEF ITokens, TokenFresh, Onward
  <2>7. \A d \in Calls : pc'[d] \notin Clearing
    <3>1. lock = c
      BY <2>1, LockedPlaces DEF LockDiscipline
    <3>2. \A d \in Calls : pc[d] \in Clearing => d = c
      BY <3>1, LockedPlaces DEF LockDiscipline, Clearing
    <3>3. QED
      BY <2>1, <3>2 DEF TaskTypes, Clearing
  <2>8. QED
    BY <2>5, <2>6, <2>7 DEF ITokens, TokenCleared
<1>6. QED
  BY <1>1, <1>3, <1>4, <1>5 DEF ReloadStopped, ResetStopped

\* The abandoned stop: one that was not overtaken has taken the unit down.
LEMMA TokenLateStep ==
    ASSUME TaskTypes, WorldTypes, ITokens, NEW c \in Calls, LateStep(c)
    PROVE  ITokens'
<1>1. CASE LateStopReturns(c)
  <2>1. TokenTrue'
    BY <1>1 DEF LateStopReturns, ITokens, TokenTrue, Tokens, record
  <2>2. TokenFresh' /\ TokenCleared'
    BY <1>1 DEF LateStopReturns, ITokens, TokenFresh, TokenCleared, Tokens, tasks, record
  <2>3. QED
    BY <2>1, <2>2 DEF ITokens
<1>2. CASE LateStopRaises(c)
  BY <1>2, TokensKept DEF LateStopRaises, Onward, Spares, tasks, record, world
<1>3. CASE SlowStopEnds(c)
  <2>1. Onward
    BY <1>3 DEF SlowStopEnds, Onward, tasks
  <2>2. Tokens' = {} \/ Spares
    BY <1>3 DEF SlowStopEnds, Carry, Tokens, Spares, tasks, record, world
  <2>3. QED
    BY <2>1, <2>2, TokensKept
<1>4. QED
  BY <1>1, <1>2, <1>3 DEF LateStep

\* Everyone else clears the tokens by a _transition, or spares the record.
LEMMA TokenOthers ==
    ASSUME TaskTypes, ITokens,
           \/ \E p \in Procs : Tail(p)
           \/ \E p \in Calls \union Polls \union {Boot} : StatusStep(p)
           \/ \E p \in Polls : Poll(p)
           \/ \E r \in Requests : RequestArrives(r) \/ RequestEnters(r) \/ RequestLeaves(r)
           \/ BootReconcile \/ WatcherStep \/ PromoterStep \/ SweepDemotes
           \/ UnitAnswers \/ UnitFault \/ Unassign \/ CoolDown \/ ApiRestart
    PROVE  ITokens'
<1> USE Kinds, CallKinds
<1>1. ASSUME NEW p \in Procs, Tail(p)
      PROVE  Onward /\ Spares
  BY <1>1 DEF Tail, record, world, stops, Onward, Spares, Early, Clearing
<1>2. ASSUME NEW p \in Calls \union Polls \union {Boot}, StatusStep(p)
      PROVE  Onward /\ (Tokens' = {} \/ Spares)
  <2>1. Onward
    BY <1>2 DEF StatusStep, ReadRecord, Reconcile, StampDead, StampClean, StampRemoved,
                DropRoute, Return, AdoptCheck, AdoptHealth, AdoptStalled, Adopted, Adopt, End,
                Go, TaskTypes, stops, Onward, Early
  <2>2. CASE \E to : Stamp(p, to, {})
    BY <2>1, <2>2, StampClears, NotTokens
  <2>3. CASE ~\E to : Stamp(p, to, {})
    BY <2>1, <2>3, <1>2 DEF StatusStep, ReadRecord, Reconcile, StampDead, StampClean, StampRemoved,
                DropRoute, Return, AdoptCheck, AdoptHealth, AdoptStalled, Adopted, Adopt, End,
                Go, TaskTypes, record, world, stops, Spares, Clearing
  <2>4. QED
    BY <2>2, <2>3
<1>3. ASSUME NEW r \in Requests, RequestArrives(r) \/ RequestEnters(r) \/ RequestLeaves(r)
      PROVE  Onward /\ (Tokens' = {} \/ Spares)
  <2>1. Onward
    BY <1>3 DEF RequestArrives, RequestEnters, RequestLeaves, EnterServing, Go, TaskTypes,
                stops, Onward, Early
  <2>2. CASE \E to : Stamp(r, to, {})
    BY <2>1, <2>2, StampClears, NotTokens
  <2>3. CASE ~\E to : Stamp(r, to, {})
    BY <2>1, <2>3, <1>3 DEF RequestArrives, RequestEnters, RequestLeaves, EnterServing, Go,
                TaskTypes, record, world, stops, Spares, Clearing
  <2>4. QED
    BY <2>2, <2>3
<1>4. CASE (\E p \in Polls : Poll(p)) \/ BootReconcile
  BY <1>4, TokensKept
     DEF Poll, BootReconcile, Go, TaskTypes, record, world, stops, Onward, Spares, Early, Clearing
<1>5. CASE SweepDemotes \/ PromoterStep
  <2>1. Onward
    BY <1>5 DEF SweepDemotes, PromoterStep, PromoterPolls, Promote, Go, TaskTypes, stops, Onward,
                Early
  <2>2. Tokens' = {} \/ Spares
    BY <1>5, NotTokens DEF SweepDemotes, PromoterStep, PromoterPolls, Promote, Stamp, Carry, Go,
                TaskTypes, record, world, stops, Tokens, Spares, Clearing
  <2>3. QED
    BY <2>1, <2>2, TokensKept
<1>6. CASE WatcherStep
  <2>1. Onward
    BY <1>6 DEF WatcherStep, WatcherPolls, WatcherLocks, WatcherStamps, WatcherDeclines,
                KeepOrEndWatch, Go, TaskTypes, stops, Onward, Early
  <2>2. CASE \E to : Stamp(Watchdog, to, {}) \/ Stamp(Watchdog, to, {"stall"})
    BY <2>1, <2>2, StampClears, NotTokens, TokensKept
  <2>3. CASE ~\E to : Stamp(Watchdog, to, {}) \/ Stamp(Watchdog, to, {"stall"})
    <3>1. Spares
      BY <1>6, <2>3 DEF WatcherStep, WatcherPolls, WatcherLocks, WatcherStamps, WatcherDeclines,
                KeepOrEndWatch, Go, TaskTypes, record, world, stops, Spares, Clearing
    <3>2. QED
      BY <2>1, <3>1, TokensKept
  <2>4. QED
    BY <2>2, <2>3
<1>7. CASE UnitAnswers \/ UnitFault \/ Unassign \/ CoolDown
  BY <1>7, TokensKept DEF UnitAnswers, UnitFault, Unassign, CoolDown, Active, record, world,
                stops, tasks, Onward, Spares
<1>8. CASE ApiRestart
  <2>1. \A c \in Calls : pc'[c] \notin Clearing
    BY <1>8 DEF ApiRestart, Clearing, Final
  <2>2. QED
    BY <1>8, <2>1 DEF ApiRestart, ITokens, TokenTrue, TokenFresh, TokenCleared, Tokens, record
<1>9. QED
  BY <1>1, <1>2, <1>3, <1>4, <1>5, <1>6, <1>7, <1>8, TokensKept

\* Only its own late task takes a call off the list of stops that have returned.
LEMMA RetiredByItsTask ==
    ASSUME TypeOK, [Next]_vars, NEW c \in ended, c \notin ended', state' # state
    PROVE  SlowStopEnds(c)
<1> SUFFICES ASSUME ~SlowStopEnds(c) PROVE ended \subseteq ended' \/ c \in ended' \/ state' = state
  OBVIOUS
<1>1. ASSUME NEW d \in Calls,
             CallStep(d) \/ LockStep(d) \/ LoadStep(d) \/ StopStep(d) \/ LateStep(d)
      PROVE  c \in ended'
  <2>1. CASE CallStep(d) \/ LockStep(d)
    BY <2>1 DEF CallStep, LockStep, CallLoad, CallUnload, CallRestart, CallSwap, SweepEvicts,
                LoadAbandoned, LoadBegin, UnloadBegin, EnterUnload, ResetBegin, stops
  <2>2. CASE LoadStep(d)
    BY <2>2 DEF LoadStep, StallCheck, DriftCheck, Prepare, Pulled, Preflight, Spawned,
                SpawnRaises, AwaitReady, Persist, CountFailure, StampError, Raise, stops
  <2>3. CASE StopStep(d)
    BY <2>3 DEF StopStep, ReloadStopped, SanityStopped, UnloadStopped, ResetStopped, terminate,
                StopUnit
  <2>4. CASE LateStep(d)
    BY <2>4 DEF LateStep, LateStopReturns, LateStopRaises, SlowStopEnds
  <2>5. QED
    BY <1>1, <2>1, <2>2, <2>3, <2>4
<1>2. ASSUME NEW p \in Calls \union Polls \union {Boot}, StatusStep(p)
      PROVE  c \in ended'
  BY <1>2 DEF StatusStep, ReadRecord, Reconcile, StampDead, StampClean, StampRemoved,
              DropRoute, Return, AdoptCheck, AdoptHealth, AdoptStalled, Adopted, stops
<1>3. CASE \/ \E p \in Procs : Tail(p)
           \/ \E p \in Polls : Poll(p)
           \/ \E r \in Requests : RequestArrives(r) \/ RequestEnters(r) \/ RequestLeaves(r)
  BY <1>3 DEF Tail, Poll, RequestArrives, RequestEnters, RequestLeaves, EnterServing, stops
<1>4. CASE BootReconcile \/ WatcherStep \/ PromoterStep \/ SweepDemotes
  BY <1>4 DEF BootReconcile, SweepDemotes, PromoterStep, PromoterPolls, Promote, WatcherStep,
              WatcherPolls, WatcherLocks, WatcherStamps, WatcherDeclines, stops
<1>5. CASE UnitAnswers \/ UnitFault \/ Unassign \/ CoolDown \/ ApiRestart \/ UNCHANGED vars
  BY <1>5 DEF UnitAnswers, UnitFault, Unassign, CoolDown, ApiRestart, record, stops, vars
<1>6. QED
  BY <1>1, <1>2, <1>3, <1>4, <1>5 DEF Next

\* The tokens are right in every reachable state.
LEMMA TokensInvariant == Spec => []ITokens
<1>1. Init => ITokens
  BY DEF Init, ITokens, TokenTrue, TokenFresh, TokenCleared, Tokens
<1>2. IInv /\ ITokens /\ [Next]_vars => ITokens'
  <2> SUFFICES ASSUME IInv, ITokens, [Next]_vars PROVE ITokens'
    OBVIOUS
  <2>1. TaskTypes /\ WorldTypes /\ LockDiscipline
    BY TypeParts DEF IInv
  <2>2. CASE UNCHANGED vars
    BY <2>2 DEF vars, record, world, stops, tasks, ITokens, TokenTrue, TokenFresh, TokenCleared,
                Tokens
  <2>3. CASE Next
    BY <2>1, <2>3, TokenCallStep, TokenLoadStep, TokenStopStep, TokenLateStep, TokenOthers
       DEF Next
  <2>4. QED
    BY <2>2, <2>3
<1>3. QED
  BY <1>1, <1>2, Invariance, PTL DEF Spec

\* When the task of an abandoned stop retires the ERROR it left behind, no unit is
\* active: whatever unit was started since, by a load, a restart, a swap or a
\* recovery, the token was gone before it.
THEOREM RetiredTruthfully == Spec => SlowStopTruthful
<1>1. IInv /\ ITokens /\ [Next]_vars =>
        [\A c \in ended : c \notin ended' /\ state # state' => unit \notin Active]_vars
  <2> SUFFICES ASSUME IInv, ITokens, [Next]_vars, NEW c \in ended, c \notin ended',
                      state # state'
               PROVE  unit \notin Active
    OBVIOUS
  <2>1. SlowStopEnds(c) /\ c \in Calls
    BY RetiredByItsTask DEF IInv, TypeOK
  <2>2. c \in Tokens
    BY <2>1 DEF SlowStopEnds, Tokens, record
  <2>3. QED
    BY <2>2 DEF ITokens, TokenTrue, Active
<1>2. QED
  BY <1>1, Invariance, TokensInvariant, PTL DEF Spec, SlowStopTruthful

-----------------------------------------------------------------------------
(* The state machine under a load.                                         *)

\* The states that a load can find where it makes its next _transition.  UNLOADING is
\* what load() began on, taking it for a slot with nothing to tear down.
OnPath(c) ==
    /\ pc[c] = "prepare" => state \in {"offline", "unloading"}
    /\ pc[c] = "pulling" => state = "pulling"
    /\ pc[c] = "preflight" => state \in {"offline", "pulling", "unloading"}
    /\ pc[c] = "spawning" => state = "starting"
    /\ pc[c] = "await_ready" => state = "warming"
    /\ pc[c] = "illegal" => state = "unloading"

\* The load that holds the lock is on its path unless a status() wrote meanwhile.
IPath == lock \in Calls => disturbed \/ OnPath(lock)

\* A step of others: where a load is on its path, they write nothing but as a status().
LEMMA PathOther ==
    ASSUME IPath, Remember,
           lock' \in Calls => lock' = lock /\ pc'[lock] = pc[lock],
           state' = state \/ state \in Dispatchable \/ lock \notin Calls \/ PollWrites
    PROVE  IPath'
<1> SUFFICES ASSUME lock' \in Calls, ~disturbed' PROVE OnPath(lock)'
  BY DEF IPath
<1>1. lock' = lock /\ lock \in Calls /\ pc'[lock] = pc[lock]
  OBVIOUS
<1>2. ~disturbed /\ ~PollWrites
  BY <1>1 DEF Remember
<1>3. OnPath(lock)
  BY <1>1, <1>2 DEF IPath
<1>4. QED
  BY <1>1, <1>2, <1>3 DEF OnPath, Dispatchable

\* The start of a call, and its first step under the lock: a load finds OFFLINE,
\* UNLOADING or a state it tears down first.
LEMMA PathCallStep ==
    ASSUME TaskTypes, RecordTypes, LockDiscipline, IPath, Remember, NEW c \in Calls,
           CallStep(c) \/ LockStep(c)
    PROVE  IPath'
<1> USE Kinds
<1>1. CASE LoadBegin(c)
  <2>1. lock' = c /\ state' = state
    BY <1>1 DEF LoadBegin, Acquire, record
  <2>2. pc'[c] \in {"drift", "stallcheck", "refuse", "reload_stop"}
        \/ (pc'[c] = "prepare" /\ state \in {"offline", "unloading"})
    BY <1>1 DEF LoadBegin, Go, TaskTypes, RecordTypes, States, Dispatchable, Inflight
  <2>3. QED
    BY <2>1, <2>2 DEF IPath, OnPath
<1>2. CASE LoadAbandoned(c) \/ ResetBegin(c) \/ EnterUnload(c)
  <2>1. lock' = c
    BY <1>2 DEF LoadAbandoned, ResetBegin, EnterUnload, Acquire
  <2>2. pc'[c] \in {"status", "reset_stop", "unload_stop"}
    BY <1>2 DEF LoadAbandoned, ResetBegin, EnterUnload, Go, TaskTypes
  <2>3. QED
    BY <2>1, <2>2 DEF IPath, OnPath
<1>3. CASE ~LoadBegin(c) /\ ~(LoadAbandoned(c) \/ ResetBegin(c) \/ EnterUnload(c))
  <2>1. pc[c] = "idle" /\ pc'[c] \in {"load", "unload", "reset"} /\ state' = state
        /\ lock' = lock /\ \A d \in Calls : d # c => pc'[d] = pc[d]
    BY <1>3 DEF CallStep, LockStep, CallLoad, CallUnload, CallRestart, CallSwap, SweepEvicts,
                UnloadBegin, Starts, Go, TaskTypes, record
  <2>2. CASE lock = c
    BY <2>1, <2>2 DEF IPath, OnPath
  <2>3. CASE lock # c
    BY <2>1, <2>3, PathOther
  <2>4. QED
    BY <2>2, <2>3
<1>4. QED
  BY <1>1, <1>2, <1>3

\* Each unforced _transition of a load is legal from the states of its path.
LEMMA LegalOnPath ==
    /\ state = "offline" => Legal("pulling") /\ Legal("starting")
    /\ state = "pulling" => Legal("starting")
    /\ state = "starting" => Legal("warming")
    /\ state = "warming" => Legal("ready") /\ Legal("warming")
BY DEF Legal, LegalTransitions, States

\* A load's own steps keep to the path.
LEMMA PathLoadStep ==
    ASSUME TaskTypes, RecordTypes, LockDiscipline, IPath, Remember, NEW c \in Calls, LoadStep(c)
    PROVE  IPath'
<1> USE Kinds
<1>1. pc[c] \in Locked
  BY LockedPlaces
     DEF LoadStep, StallCheck, DriftCheck, Prepare, Pulled, Preflight, Spawned,
         SpawnRaises, AwaitReady, Persist, CountFailure, StampError, Raise
<1>2. lock = c /\ lock' \in {c, Nobody}
  BY <1>1 DEF LockDiscipline, LoadStep, StallCheck, DriftCheck, Prepare, Pulled, Preflight,
         Spawned, SpawnRaises, AwaitReady, Persist, CountFailure, StampError, Raise, Release
<1> SUFFICES ASSUME lock' = c, ~disturbed' PROVE OnPath(c)'
  BY <1>2 DEF IPath
<1>3. OnPath(c)
  BY <1>2 DEF IPath, Remember
<1>4. CASE Prepare(c)
  BY <1>3, <1>4, LegalOnPath DEF Prepare, Advance, Stamp, Go, OnPath, TaskTypes, record
<1>5. CASE Pulled(c)
  BY <1>3, <1>5 DEF Pulled, Go, OnPath, TaskTypes, record
<1>6. CASE Preflight(c)
  BY <1>3, <1>6, LegalOnPath DEF Preflight, Advance, Stamp, Go, OnPath, TaskTypes, record
<1>7. CASE Spawned(c) \/ SpawnRaises(c)
  BY <1>3, <1>7, LegalOnPath
     DEF Spawned, SpawnRaises, Advance, Stamp, Go, OnPath, TaskTypes, record
<1>8. CASE AwaitReady(c)
  BY <1>3, <1>8, LegalOnPath DEF AwaitReady, Advance, Stamp, Go, OnPath, TaskTypes, record
<1>9. CASE StallCheck(c) \/ DriftCheck(c) \/ Persist(c) \/ CountFailure(c) \/ StampError(c)
           \/ Raise(c)
  BY <1>3, <1>9 DEF StallCheck, DriftCheck, Persist, CountFailure, StampError, Raise, End,
                    Stamp, Go, OnPath, TaskTypes, record
<1>10. QED
  BY <1>4, <1>5, <1>6, <1>7, <1>8, <1>9 DEF LoadStep

\* A stop ends in OFFLINE, or off the path; an abandoned one waits for the lock.
LEMMA PathStopStep ==
    ASSUME TaskTypes, RecordTypes, LockDiscipline, IPath, Remember, NEW c \in Calls,
           StopStep(c) \/ LateStep(c)
    PROVE  IPath'
<1> USE Kinds
<1>1. CASE StopStep(c)
  <2>1. lock = c /\ lock' = lock
    BY <1>1, LockedPlaces DEF StopStep, ReloadStopped, SanityStopped, UnloadStopped,
                ResetStopped, LockDiscipline
  <2>2. OnPath(c)'
    BY <1>1 DEF StopStep, ReloadStopped, SanityStopped, UnloadStopped, ResetStopped,
                Stamp, Go, OnPath, TaskTypes, record
  <2>3. QED
    BY <2>1, <2>2 DEF IPath
<1>2. CASE LateStep(c)
  <2>1. pc' = pc /\ lock' = lock /\ (state' = state \/ lock = Nobody)
    BY <1>2 DEF LateStep, LateStopReturns, LateStopRaises, SlowStopEnds, tasks, record
  <2>2. QED
    BY <2>1, PathOther
<1>3. QED
  BY <1>1, <1>2

\* A status() that a call makes comes after its path; a poll's writes are remembered.
LEMMA PathStatusStep ==
    ASSUME TaskTypes, RecordTypes, LockDiscipline, IPath, Remember,
           NEW c \in Calls \union Polls \union {Boot}, StatusStep(c)
    PROVE  IPath'
<1> USE Kinds
<1>1. CASE c \in Calls
  <2>1. pc[c] \in Locked
    BY LockedPlaces DEF StatusStep, ReadRecord, Reconcile, StampDead, StampClean, StampRemoved,
           DropRoute, Return, AdoptCheck, AdoptHealth, AdoptStalled, Adopted
  <2>2. lock = c /\ lock' \in {c, Nobody}
    BY <1>1, <2>1 DEF LockDiscipline, StatusStep, ReadRecord, Reconcile, StampDead, StampClean,
           StampRemoved, DropRoute, Return, AdoptCheck, AdoptHealth, AdoptStalled, Adopted,
           Release
  <2>3. OnPath(c)'
    BY <1>1 DEF StatusStep, ReadRecord, Reconcile, StampDead, StampClean, StampRemoved,
           DropRoute, Return, AdoptCheck, AdoptHealth, AdoptStalled, Adopted, Adopt, End, Go,
           TaskTypes, OnPath
  <2>4. QED
    BY <2>2, <2>3 DEF IPath
<1>2. CASE c \notin Calls
  <2>1. \A d \in Calls : pc'[d] = pc[d]
    BY <1>2 DEF StatusStep, ReadRecord, Reconcile, StampDead, StampClean, StampRemoved,
           DropRoute, Return, AdoptCheck, AdoptHealth, AdoptStalled, Adopted, Adopt, Go,
           TaskTypes
  <2>2. lock' = lock \/ lock' = Nobody
    BY DEF StatusStep, ReadRecord, Reconcile, StampDead, StampClean, StampRemoved, DropRoute,
           Return, AdoptCheck, AdoptHealth, AdoptStalled, Adopted, Release
  <2>3. CASE state' = state
    BY <2>1, <2>2, <2>3, PathOther
  <2>4. CASE \E to \in States : Stamp(c, to, {})
    <3>1. tail'[c] # None /\ pc'[c] # pc[c]
      BY <1>2, <2>4 DEF Stamp, RecordTypes, States, None, StatusStep, ReadRecord, Reconcile,
             StampDead, StampClean, StampRemoved, DropRoute, Return, AdoptCheck, AdoptHealth,
             AdoptStalled, Adopted, Adopt, Go, TaskTypes
    <3>2. disturbed' \/ lock' # lock
      BY <1>2, <3>1 DEF Remember, PollWrites
    <3>3. QED
      BY <2>1, <2>2, <3>2 DEF IPath
  <2>5. QED
    BY <2>3, <2>4 DEF StatusStep, ReadRecord, Reconcile, StampDead, StampClean, StampRemoved,
           DropRoute, Return, AdoptCheck, AdoptHealth, AdoptStalled, Adopted, Adopt, record,
           States
<1>3. QED
  BY <1>1, <1>2

\* The others hold the lock themselves, or find a dispatchable slot.
LEMMA PathOthers ==
    ASSUME TaskTypes, RecordTypes, LockDiscipline, IPath, Remember,
           \/ \E p \in Procs : Tail(p)
           \/ \E p \in Polls : Poll(p)
           \/ \E r \in Requests : RequestArrives(r) \/ RequestEnters(r) \/ RequestLeaves(r)
           \/ BootReconcile \/ WatcherStep \/ PromoterStep \/ SweepDemotes
           \/ UnitAnswers \/ UnitFault \/ Unassign \/ CoolDown \/ ApiRestart
    PROVE  IPath'
<1> USE Kinds, CallKinds
<1>1. ASSUME NEW p \in Procs, Tail(p)
      PROVE  IPath'
  <2>1. state' = state
    BY <1>1 DEF Tail, record
  <2>2. lock' \in Calls => lock' = lock
    BY <1>1 DEF Tail
  <2>3. \A d \in Calls : lock' = d => pc'[d] = pc[d]
    BY <1>1 DEF Tail
  <2>4. QED
    BY <2>1, <2>2, <2>3, PathOther
<1>2. ASSUME NEW r \in Requests, RequestArrives(r) \/ RequestEnters(r) \/ RequestLeaves(r)
      PROVE  IPath'
  <2>1. lock' = lock /\ \A d \in Calls : pc'[d] = pc[d]
    BY <1>2 DEF RequestArrives, RequestEnters, RequestLeaves, EnterServing, Go, TaskTypes
  <2>2. state' = state \/ state \in Dispatchable
    BY <1>2 DEF RequestArrives, RequestEnters, RequestLeaves, EnterServing, Stamp, record,
                Dispatchable
  <2>3. QED
    BY <2>1, <2>2, PathOther
<1>3. CASE SweepDemotes \/ PromoterStep
  <2>1. \A d \in Calls : pc'[d] = pc[d]
    BY <1>3 DEF SweepDemotes, PromoterStep, PromoterPolls, Promote, Go, TaskTypes
  <2>2. lock' \in Calls => lock' = lock
    BY <1>3 DEF SweepDemotes, PromoterStep, PromoterPolls, Promote
  <2>3. state' = state \/ state \in Dispatchable \/ lock = Nobody
    BY <1>3 DEF SweepDemotes, PromoterStep, PromoterPolls, Promote, Stamp, record, Dispatchable
  <2>4. QED
    BY <2>1, <2>2, <2>3, PathOther
<1>4. CASE WatcherStep
  <2>1. lock' \in Calls => lock' = lock
    BY <1>4 DEF WatcherStep, WatcherPolls, WatcherLocks, WatcherStamps, WatcherDeclines, Release
  <2>2. \A d \in Calls : pc'[d] = pc[d] \/ pc'[d] = "unload"
    BY <1>4 DEF WatcherStep, WatcherPolls, WatcherLocks, WatcherStamps, WatcherDeclines,
                KeepOrEndWatch, Go, TaskTypes
  <2>3. state' = state \/ lock = Watchdog
    BY <1>4 DEF WatcherStep, WatcherPolls, WatcherLocks, WatcherStamps, WatcherDeclines, Stamp,
                record
  <2>4. CASE lock' \in Calls /\ pc'[lock'] = "unload"
    BY <2>4 DEF IPath, OnPath
  <2>5. CASE ~(lock' \in Calls /\ pc'[lock'] = "unload")
    BY <2>1, <2>2, <2>3, <2>5, PathOther
  <2>6. QED
    BY <2>4, <2>5
<1>5. CASE UnitAnswers \/ UnitFault \/ Unassign \/ CoolDown
  BY <1>5, PathOther DEF UnitAnswers, UnitFault, Unassign, CoolDown, tasks, record
<1>6. CASE BootReconcile \/ \E p \in Polls : Poll(p)
  <2>1. lock' = lock /\ state' = state /\ \A d \in Calls : pc'[d] = pc[d]
    BY <1>6 DEF BootReconcile, Poll, Go, TaskTypes, record
  <2>2. QED
    BY <2>1, PathOther
<1>7. CASE ApiRestart
  BY <1>7 DEF ApiRestart, IPath
<1>8. QED
  BY <1>1, <1>2, <1>3, <1>4, <1>5, <1>6, <1>7

\* The history variables do not restrict the slot.
LEMMA HistoryRuns == HSpec => Spec
<1>1. HInit => Init
  BY DEF HInit
<1>2. [HNext]_hvars => [Next]_vars
  BY DEF HNext, hvars
<1>3. QED
  BY <1>1, <1>2, PTL DEF HSpec, Spec

\* For every set of calls, polls and requests, every fault and any number of API restarts,
\* a load trips over the state machine only if a status() wrote the record while it held
\* the lock, or if it began on UNLOADING: the watcher, the promotion poll, requests, sweeps,
\* recoveries, late stops and cancelled tasks write only where no load is on its path.
THEOREM LoadsAreLegal == HSpec => []NoIllegalLoad
<1>1. HInit => IPath
  BY Kinds DEF HInit, Init, IPath
<1>2. IInv /\ IPath /\ [HNext]_hvars => IPath'
  <2> SUFFICES ASSUME IInv, IPath, [HNext]_hvars PROVE IPath'
    OBVIOUS
  <2>1. TaskTypes /\ RecordTypes /\ LockDiscipline
    BY TypeParts DEF IInv
  <2>2. CASE UNCHANGED hvars
    BY <2>2 DEF hvars, vars, history, record, tasks, IPath, OnPath
  <2>3. CASE HNext
    BY <2>1, <2>3, PathCallStep, PathLoadStep, PathStopStep, PathStatusStep, PathOthers
       DEF Next, HNext
  <2>4. QED
    BY <2>2, <2>3
<1>3. IInv /\ IPath => NoIllegalLoad
  BY LockedPlaces DEF IPath, OnPath, NoIllegalLoad, IInv, LockDiscipline
<1>4. QED
  BY <1>1, <1>2, <1>3, Invariance, HistoryRuns, PTL DEF HSpec

-----------------------------------------------------------------------------
(* The verdict of the sanity gate.                                         *)

Condemned == "sanity" \in marks

\* Where a task is about to make the slot dispatchable, or to have it polled for that.
Past == {"health", "restall", "adopted_warming"}

\* A condemned slot is not dispatchable.  Unless an adoption that was already past its
\* check is running over the verdict, nobody is adopting the slot, and a promotion poll
\* that is still there is about to be ended by the load that holds the lock.
IVerdict ==
    /\ Condemned => state \notin Dispatchable
    /\ Condemned /\ ~overrun => \A p \in Calls \union Polls \union {Boot} : pc[p] \notin Past
    /\ Condemned /\ ~overrun /\ pc[Promoter] \in {"polling", "answered"} =>
           \E c \in Calls : lock = c /\ tail[c] # None

\* What a _transition does to the verdict.
LEMMA StampVerdict ==
    ASSUME NEW p, NEW to, NEW extra, extra \subseteq {"stall"} \union Calls, Stamp(p, to, extra)
    PROVE  /\ to \notin {"ready", "idle"} => (Condemned' <=> Condemned)
           /\ to \in {"ready", "idle"} => ~Condemned'
           /\ state' = to
BY LifecycleAssumption DEF Stamp, Carry, Condemned

\* The gate has passed the unit of a load.
Passes == sane /\ \E c \in Calls : pc[c] = "await_ready" /\ pc'[c] = "persist"

\* A verdict that goes away goes with a unit that passed, or was overrun.
Justified == Condemned /\ ~Condemned' => overrun \/ Passes

\* A step that records no verdict remembers whether the last one was overrun.
LEMMA OverrunKept ==
    ASSUME Remember, restarts' = restarts, \A d \in Calls : pc'[d] = "raise" => pc[d] = "raise"
    PROVE  overrun' <=> overrun
BY DEF Remember, Verdict

\* A step of a task that is not on its way to READY.
LEMMA VerdictKept ==
    ASSUME IVerdict, overrun' <=> overrun, Condemned' <=> Condemned,
           state' \notin Dispatchable \/ state' = state,
           \A p \in Calls \union Polls \union {Boot} :
               pc'[p] \in Past => pc[p] \in Past \/ ~Condemned,
           pc'[Promoter] \in {"polling", "answered"} =>
               pc[Promoter] \in {"polling", "answered"} \/ ~Condemned \/ overrun,
           \A c \in Calls : lock = c /\ tail[c] # None =>
               (lock' = c /\ tail'[c] # None) \/ pc'[Promoter] \notin {"polling", "answered"}
    PROVE  IVerdict' /\ Justified
<1>1. Condemned' => state' \notin Dispatchable
  BY DEF IVerdict
<1>2. Condemned' /\ ~overrun' => \A p \in Calls \union Polls \union {Boot} : pc'[p] \notin Past
  BY DEF IVerdict
<1>3. Condemned' /\ ~overrun' /\ pc'[Promoter] \in {"polling", "answered"} =>
          \E c \in Calls : lock' = c /\ tail'[c] # None
  BY DEF IVerdict
<1>4. QED
  BY <1>1, <1>2, <1>3 DEF IVerdict, Justified

\* The start of a call and its first step under the lock.
LEMMA VerdictCallStep ==
    ASSUME TaskTypes, RecordTypes, LockDiscipline, IVerdict, Remember, NEW c \in Calls,
           CallStep(c) \/ LockStep(c)
    PROVE  IVerdict' /\ Justified
<1> USE Kinds
<1>1. restarts' = restarts /\ \A d \in Procs : d # c => pc'[d] = pc[d]
  BY DEF CallStep, LockStep, CallLoad, CallUnload, CallRestart, CallSwap, SweepEvicts,
         LoadAbandoned, LoadBegin, UnloadBegin, EnterUnload, ResetBegin, Go, TaskTypes
<1>2. pc'[c] \notin Past \union {"raise"}
  BY DEF CallStep, LockStep, CallLoad, CallUnload, CallRestart, CallSwap, SweepEvicts,
         LoadAbandoned, LoadBegin, UnloadBegin, EnterUnload, ResetBegin, Go, TaskTypes, Past
<1>3. overrun' <=> overrun
  BY <1>1, <1>2, OverrunKept
<1>4. lock = Nobody \/ (lock' = lock /\ tail' = tail)
  BY DEF CallStep, LockStep, CallLoad, CallUnload, CallRestart, CallSwap, SweepEvicts,
         LoadAbandoned, LoadBegin, UnloadBegin, EnterUnload, ResetBegin, Acquire
<1>5. CASE Stamp(c, "unloading", {})
  <2>1. (Condemned' <=> Condemned) /\ state' \notin Dispatchable
    BY <1>5, StampVerdict DEF Dispatchable
  <2>2. QED
    BY <1>1, <1>2, <1>3, <1>4, <2>1, VerdictKept
<1>6. CASE ~Stamp(c, "unloading", {})
  <2>1. state' = state /\ marks' = marks
    BY <1>6 DEF CallStep, LockStep, CallLoad, CallUnload, CallRestart, CallSwap, SweepEvicts,
                LoadAbandoned, LoadBegin, UnloadBegin, EnterUnload, ResetBegin, record
  <2>2. QED
    BY <1>1, <1>2, <1>3, <1>4, <2>1, VerdictKept DEF Condemned
<1>7. QED
  BY <1>5, <1>6

\* A load clears the verdict only by READY, after the unit has passed; when it
\* condemns the slot it holds the lock until its _transition has ended the poll.
LEMMA VerdictLoadStep ==
    ASSUME TaskTypes, RecordTypes, LockDiscipline, IVerdict, Remember, NEW c \in Calls,
           LoadStep(c)
    PROVE  IVerdict' /\ Justified
<1> USE Kinds
<1>1. restarts' = restarts /\ (\A d \in Calls : d # c => pc'[d] = pc[d])
      /\ pc'[Promoter] = pc[Promoter]
      /\ \A p \in Polls \union {Boot} : pc'[p] = pc[p]
  BY DEF LoadStep, StallCheck, DriftCheck, Prepare, Pulled, Preflight, Spawned, Advance,
         SpawnRaises, AwaitReady, Persist, CountFailure, StampError, Raise, End, Go, TaskTypes
<1>2. pc'[c] \notin Past
  BY DEF LoadStep, StallCheck, DriftCheck, Prepare, Pulled, Preflight, Spawned, Advance,
         SpawnRaises, AwaitReady, Persist, CountFailure, StampError, Raise, End, Go, TaskTypes,
         Past
<1>3. pc[c] \in Locked
  BY LockedPlaces
     DEF LoadStep, StallCheck, DriftCheck, Prepare, Pulled, Preflight, Spawned,
         SpawnRaises, AwaitReady, Persist, CountFailure, StampError, Raise
<1>4. lock = c
  BY <1>3 DEF LockDiscipline
<1>5. ~Verdict => (overrun' <=> overrun)
  BY <1>1 DEF Remember
<1>6. CASE StampError(c)
  <2>1. state' = "error" /\ lock' = lock /\ tail'[c] = "error" /\ (Condemned => Condemned')
    BY <1>6, LifecycleAssumption DEF StampError, Stamp, Carry, RecordTypes, Condemned
  <2>2. CASE pc[c] = "crashline_sanity"
    <3>1. Verdict
      BY <1>6, <2>2 DEF Verdict, StampError, Go, TaskTypes
    <3>2. ~overrun' => \A p \in Calls \union Polls \union {Boot} : pc[p] \notin Past
      BY <3>1 DEF Remember, Adopting, Past
    <3>3. QED
      BY <1>1, <1>2, <1>4, <2>1, <3>2 DEF IVerdict, Justified, Dispatchable, None
  <2>3. CASE pc[c] # "crashline_sanity"
    <3>1. overrun' <=> overrun
      BY <1>1, <1>5, <2>3 DEF Verdict
    <3>2. Condemned' <=> Condemned
      BY <1>6, <2>3, LifecycleAssumption DEF StampError, Stamp, Carry, Condemned
    <3>3. QED
      BY <1>1, <1>2, <1>4, <2>1, <3>1, <3>2, VerdictKept DEF Dispatchable, None
  <2>4. QED
    BY <2>2, <2>3
<1>7. CASE ~StampError(c)
  <2>1. overrun' <=> overrun
    <3>1. pc[c] # "crashline_sanity" \/ pc'[c] # "raise"
      BY <1>7 DEF LoadStep, StallCheck, DriftCheck, Prepare, Pulled, Preflight, Spawned,
             SpawnRaises, AwaitReady, Persist, CountFailure, Raise
    <3>2. QED
      BY <1>1, <1>5, <3>1 DEF Verdict
  <2>2. lock' = lock \/ (Raise(c) /\ tail[c] = None)
    BY <1>7 DEF LoadStep, StallCheck, DriftCheck, Prepare, Pulled, Preflight, Spawned,
                SpawnRaises, AwaitReady, Persist, CountFailure, Raise, Runs
  <2>3. CASE \E to \in {"offline", "pulling", "starting", "warming"} : Stamp(c, to, {})
    <3>1. state' \notin Dispatchable /\ tail'[c] # None /\ (Condemned' <=> Condemned)
      BY <2>3, StampVerdict DEF Stamp, RecordTypes, Dispatchable, None
    <3>2. tail[c] # None => lock' = lock
      BY <2>2
    <3>3. QED
      BY <1>1, <1>2, <1>4, <2>1, <3>1, <3>2, VerdictKept
  <2>4. CASE Stamp(c, "ready", {})
    <3>1. ~Condemned'
      BY <2>4, StampVerdict
    <3>2. state' = "ready"
      BY <2>4 DEF Stamp
    <3>3. Condemned => AwaitReady(c) /\ state' # state
      BY <1>7, <2>4, <3>2 DEF LoadStep, StallCheck, DriftCheck, Prepare, Pulled, Preflight,
             Spawned, SpawnRaises, Persist, CountFailure, Raise, Advance, Stamp, record,
             IVerdict, Dispatchable
    <3>4. AwaitReady(c) /\ state' # state => sane /\ pc[c] = "await_ready" /\ pc'[c] = "persist"
      BY <3>2 DEF AwaitReady, Advance, Stamp, Go, TaskTypes, record
    <3>5. QED
      BY <3>1, <3>3, <3>4 DEF IVerdict, Justified, Passes
  <2>5. CASE state' = state /\ marks' = marks /\ tail' = tail
    BY <1>1, <1>2, <1>4, <2>1, <2>2, <2>5, VerdictKept DEF Condemned
  <2>6. QED
    BY <1>7, <2>3, <2>4, <2>5
       DEF LoadStep, StallCheck, DriftCheck, Prepare, Pulled, Preflight, Spawned, Advance,
           SpawnRaises, AwaitReady, Persist, CountFailure, Raise, record
<1>8. QED
  BY <1>6, <1>7

\* A stop clears no verdict; nor does the task of an abandoned one.
LEMMA VerdictStopStep ==
    ASSUME TaskTypes, RecordTypes, IVerdict, Remember, NEW c \in Calls, StopStep(c) \/ LateStep(c)
    PROVE  IVerdict' /\ Justified
<1> USE Kinds
<1>1. lock' = lock /\ restarts' = restarts
      /\ \A d \in Procs : pc'[d] = pc[d] \/ (d = c /\ pc'[c] \notin Past)
  BY DEF StopStep, ReloadStopped, SanityStopped, UnloadStopped, ResetStopped, Go, TaskTypes,
         LateStep, LateStopReturns, LateStopRaises, SlowStopEnds, tasks, Past
<1>2. overrun' <=> overrun
  <2>1. ~Verdict
    BY DEF Verdict, StopStep, ReloadStopped, SanityStopped, UnloadStopped, ResetStopped, Go,
           TaskTypes, LateStep, LateStopReturns, LateStopRaises, SlowStopEnds, tasks
  <2>2. QED
    BY <1>1, <2>1 DEF Remember
<1>3. CASE \E to \in {"offline", "error"}, extra \in {{}, {c}} : Stamp(c, to, extra)
  <2>1. state' \notin Dispatchable /\ (Condemned' <=> Condemned)
    BY <1>3, StampVerdict DEF Dispatchable
  <2>2. \A d \in Calls : tail[d] # None => tail'[d] # None
    BY <1>3 DEF Stamp, RecordTypes, None
  <2>3. QED
    BY <1>1, <1>2, <2>1, <2>2, VerdictKept
<1>4. CASE tail' = tail /\ (Condemned' <=> Condemned) /\ (state' = state \/ state' = "offline")
  BY <1>1, <1>2, <1>4, VerdictKept DEF Dispatchable
<1>5. QED
  <2>1. CASE LateStep(c)
    BY <1>4, <2>1, LifecycleAssumption DEF LateStep, LateStopReturns, LateStopRaises,
                SlowStopEnds, Carry, Condemned, record, tasks
  <2>2. CASE StopStep(c)
    BY <1>3, <1>4, <2>2 DEF StopStep, HowStopEnds, ReloadStopped, UnloadStopped, ResetStopped,
                SanityStopped, Condemned, record
  <2>3. QED
    BY <2>1, <2>2

\* A status() that looks at the verdict after it was recorded does not adopt, and one that
\* adopts a condemned slot had looked before.
LEMMA VerdictStatusStep ==
    ASSUME TaskTypes, RecordTypes, LockDiscipline, IVerdict, Remember,
           NEW p \in Calls \union Polls \union {Boot}, StatusStep(p)
    PROVE  IVerdict' /\ Justified
<1> USE Kinds
<1>1. restarts' = restarts /\ \A q \in Calls \union Polls \union {Boot} : q # p => pc'[q] = pc[q]
  BY DEF StatusStep, ReadRecord, Reconcile, StampDead, StampClean, StampRemoved, DropRoute,
         Return, AdoptCheck, AdoptHealth, AdoptStalled, Adopted, Adopt, End, Go, TaskTypes
<1>2. overrun' <=> overrun
  <2>1. pc'[p] # "raise"
    BY DEF StatusStep, ReadRecord, Reconcile, StampDead, StampClean, StampRemoved, DropRoute,
           Return, AdoptCheck, AdoptHealth, AdoptStalled, Adopted, Adopt, End, Go, TaskTypes
  <2>2. QED
    BY <1>1, <2>1, OverrunKept
<1>3. pc'[p] \in Past => pc[p] \in Past \/ ~Condemned
  BY DEF StatusStep, ReadRecord, Reconcile, StampDead, StampClean, StampRemoved, DropRoute,
         Return, AdoptCheck, AdoptHealth, AdoptStalled, Adopted, Adopt, End, Go, TaskTypes,
         Past, Condemned
<1>4. CASE Return(p)
  <2>1. state' = state /\ marks' = marks /\ tail' = tail /\ tail[p] = None
        /\ pc'[Promoter] = pc[Promoter] /\ lock' = (IF lock = p THEN Nobody ELSE lock)
    BY <1>4 DEF Return, Runs, Release, End, Go, TaskTypes, record
  <2>2. QED
    BY <1>1, <1>2, <1>3, <2>1, VerdictKept DEF Condemned
<1>5. CASE Adopted(p)
  <2>1. state' = state /\ marks' = marks /\ tail' = tail /\ lock' = lock
    BY <1>5 DEF Adopted, record
  <2>2. pc'[Promoter] = pc[Promoter] \/ pc[p] \in Past
    BY <1>5 DEF Adopted, TaskTypes, Past
  <2>3. pc[p] \in Past => ~Condemned \/ overrun
    BY DEF IVerdict
  <2>4. QED
    BY <1>1, <1>2, <1>3, <2>1, <2>2, <2>3, VerdictKept DEF Condemned
<1>6. CASE ~Return(p) /\ ~Adopted(p)
  <2>1. pc'[Promoter] = pc[Promoter] /\ lock' = lock
    BY <1>6 DEF StatusStep, ReadRecord, Reconcile, StampDead, StampClean, StampRemoved,
           DropRoute, AdoptCheck, AdoptHealth, AdoptStalled, Adopt, Go, TaskTypes
  <2>2. CASE \E to \in {"offline", "error", "warming"} : Stamp(p, to, {})
    <3>1. state' \notin Dispatchable /\ (Condemned' <=> Condemned)
      BY <2>2, StampVerdict DEF Dispatchable
    <3>2. \A d \in Calls : tail[d] # None => tail'[d] # None
      BY <2>2 DEF Stamp, RecordTypes, None
    <3>3. QED
      BY <1>1, <1>2, <1>3, <2>1, <3>1, <3>2, VerdictKept
  <2>3. CASE Stamp(p, "ready", {}) /\ pc[p] \in Past
    <3>1. ~Condemned'
      BY <2>3, StampVerdict
    <3>2. ~Condemned \/ overrun
      BY <2>3 DEF IVerdict
    <3>3. QED
      BY <3>1, <3>2 DEF IVerdict, Justified
  <2>4. CASE state' = state /\ marks' = marks /\ tail' = tail
    BY <1>1, <1>2, <1>3, <2>1, <2>4, VerdictKept DEF Condemned
  <2>5. QED
    BY <1>6, <2>2, <2>3, <2>4
       DEF StatusStep, ReadRecord, Reconcile, StampDead, StampClean, StampRemoved, DropRoute,
           AdoptCheck, AdoptHealth, AdoptStalled, Adopt, record, Past
<1>7. QED
  BY <1>4, <1>5, <1>6

\* Requests and the sweep find a dispatchable slot, and the promotion poll a free lock:
\* none of them finds a condemned one.  The watcher clears no verdict.
LEMMA VerdictOthers ==
    ASSUME TaskTypes, RecordTypes, IVerdict, Remember,
           \/ \E p \in Procs : Tail(p)
           \/ \E p \in Polls : Poll(p)
           \/ \E r \in Requests : RequestArrives(r) \/ RequestEnters(r) \/ RequestLeaves(r)
           \/ BootReconcile \/ WatcherStep \/ PromoterStep \/ SweepDemotes
           \/ UnitAnswers \/ UnitFault \/ Unassign \/ CoolDown
    PROVE  IVerdict' /\ Justified
<1> USE Kinds, CallKinds
<1>1. ASSUME NEW p \in Procs, Tail(p)
      PROVE  IVerdict' /\ Justified
  <2>1. state' = state /\ marks' = marks /\ restarts' = restarts
    BY <1>1 DEF Tail, record
  <2>2. \A q \in Calls \union Polls \union {Boot} : pc'[q] = pc[q] \/ pc'[q] = "raised"
    BY <1>1 DEF Tail
  <2>3. pc'[Promoter] \notin {"polling", "answered"}
    BY <1>1 DEF Tail
  <2>4. overrun' <=> overrun
    BY <2>1, <2>2, OverrunKept
  <2>5. QED
    BY <2>1, <2>2, <2>3, <2>4, VerdictKept DEF Condemned, Past
<1>2. ASSUME NEW r \in Requests, RequestArrives(r) \/ RequestEnters(r) \/ RequestLeaves(r)
      PROVE  IVerdict' /\ Justified
  <2>1. restarts' = restarts /\ lock' = lock /\ \A q \in Procs : q # r => pc'[q] = pc[q]
    BY <1>2 DEF RequestArrives, RequestEnters, RequestLeaves, EnterServing, Go, TaskTypes
  <2>2. CASE state' = state /\ marks' = marks /\ tail' = tail
    <3>1. overrun' <=> overrun
      BY <2>1, OverrunKept
    <3>2. QED
      BY <2>1, <2>2, <3>1, VerdictKept DEF Condemned
  <2>3. CASE (Stamp(r, "serving", {}) \/ Stamp(r, "ready", {})) /\ state \in Dispatchable
    <3>1. ~Condemned
      BY <2>3 DEF IVerdict
    <3>2. ~Condemned'
      BY <2>3, <3>1, StampVerdict
    <3>3. QED
      BY <3>1, <3>2 DEF IVerdict, Justified
  <2>4. QED
    BY <1>2, <2>2, <2>3
       DEF RequestArrives, RequestEnters, RequestLeaves, EnterServing, record, Dispatchable
<1>3. CASE SweepDemotes
  <2>1. ~Condemned /\ ~Condemned'
    BY <1>3 DEF SweepDemotes, IVerdict, Dispatchable, Carry, Condemned
  <2>2. QED
    BY <2>1 DEF IVerdict, Justified
<1>4. CASE PromoterPolls
  <2>1. state' = state /\ marks' = marks /\ tail' = tail /\ lock' = lock /\ restarts' = restarts
        /\ pc[Promoter] = "polling" /\ \A q \in Procs : q # Promoter => pc'[q] = pc[q]
    BY <1>4 DEF PromoterPolls, Go, TaskTypes, record
  <2>2. overrun' <=> overrun
    BY <2>1, OverrunKept
  <2>3. QED
    BY <2>1, <2>2, VerdictKept DEF Condemned
<1>5. CASE Promote
  <2>1. CASE state' = state /\ marks' = marks
    <3>1. tail' = tail /\ lock' = lock /\ restarts' = restarts /\ pc'[Promoter] = "off"
          /\ \A q \in Procs : q # Promoter => pc'[q] = pc[q]
      BY <1>5, <2>1 DEF Promote, Go, TaskTypes, Stamp, record
    <3>2. overrun' <=> overrun
      BY <3>1, OverrunKept
    <3>3. QED
      BY <2>1, <3>1, <3>2, VerdictKept DEF Condemned
  <2>2. CASE Stamp(Promoter, "ready", {})
    <3>1. ~Condemned \/ overrun
      BY <1>5 DEF Promote, IVerdict
    <3>2. ~Condemned'
      BY <2>2, StampVerdict
    <3>3. QED
      BY <3>1, <3>2 DEF IVerdict, Justified
  <2>3. QED
    BY <1>5, <2>1, <2>2 DEF Promote, record
<1>6. CASE WatcherStep
  <2>1. restarts' = restarts /\ pc'[Promoter] = pc[Promoter]
        /\ (\A d \in Calls : pc'[d] = pc[d] \/ pc'[d] = "unload")
        /\ \A q \in Polls \union {Boot} : pc'[q] = pc[q]
    BY <1>6 DEF WatcherStep, WatcherPolls, WatcherLocks, WatcherStamps, WatcherDeclines,
                KeepOrEndWatch, Go, TaskTypes
  <2>2. (lock' = lock /\ tail' = tail) \/ lock \notin Calls
    BY <1>6 DEF WatcherStep, WatcherPolls, WatcherLocks, WatcherStamps, WatcherDeclines
  <2>3. overrun' <=> overrun
    BY <2>1, OverrunKept
  <2>4. CASE \E to \in {"offline", "error"}, extra \in {{}, {"stall"}} :
               Stamp(Watchdog, to, extra)
    <3>1. state' \notin Dispatchable /\ (Condemned' <=> Condemned)
      BY <2>4, StampVerdict DEF Dispatchable
    <3>2. QED
      BY <2>1, <2>2, <2>3, <3>1, VerdictKept DEF Past
  <2>5. CASE state' = state /\ marks' = marks
    BY <2>1, <2>2, <2>3, <2>5, VerdictKept DEF Condemned, Past
  <2>6. QED
    BY <1>6, <2>4, <2>5
       DEF WatcherStep, WatcherPolls, WatcherLocks, WatcherStamps, WatcherDeclines, record
<1>7. CASE UnitAnswers \/ UnitFault \/ Unassign \/ CoolDown
  <2>1. state' = state /\ marks' = marks /\ tail' = tail /\ lock' = lock /\ pc' = pc
        /\ restarts' = restarts
    BY <1>7 DEF UnitAnswers, UnitFault, Unassign, CoolDown, tasks, record
  <2>2. overrun' <=> overrun
    BY <2>1, OverrunKept
  <2>3. QED
    BY <2>1, <2>2, VerdictKept DEF Condemned
<1>8. CASE BootReconcile \/ \E p \in Polls : Poll(p)
  <2>1. state' = state /\ marks' = marks /\ tail' = tail /\ lock' = lock /\ restarts' = restarts
        /\ pc'[Promoter] = pc[Promoter]
        /\ \A q \in Procs : pc'[q] = pc[q] \/ pc'[q] \in {"adopt", "return", "status"}
    BY <1>8 DEF BootReconcile, Poll, Go, TaskTypes, record
  <2>2. overrun' <=> overrun
    BY <2>1, OverrunKept
  <2>3. QED
    BY <2>1, <2>2, VerdictKept DEF Condemned, Past
<1>9. QED
  BY <1>1, <1>2, <1>3, <1>4, <1>5, <1>6, <1>7, <1>8 DEF PromoterStep

\* A restart ends every adoption with the process; the record keeps the verdict.
LEMMA VerdictRestart == ASSUME TaskTypes, IVerdict, ApiRestart PROVE IVerdict' /\ Justified
<1> USE Kinds
<1>1. state' = state /\ marks' = marks /\ pc'[Promoter] = "off"
  BY DEF ApiRestart, record
<1>2. \A p \in Calls \union Polls \union {Boot} : pc'[p] \notin Past
  BY DEF ApiRestart, Final, Past
<1>3. QED
  BY <1>1, <1>2 DEF IVerdict, Justified, Condemned

\* For every set of calls, polls and requests and any number of API restarts, a failed
\* sanity verdict is cleared by a load whose unit has passed the gate, or else by an
\* adoption that had looked at the marks before the verdict was recorded: no later poll,
\* no startup pass, promotion poll, request, sweep or watcher clears it.
THEOREM VerdictStands == HSpec => VerdictSticks
<1>1. HInit => IVerdict
  BY Kinds DEF HInit, Init, IVerdict, Condemned
<1>2. IInv /\ IVerdict /\ [HNext]_hvars =>
        /\ IVerdict'
        /\ [("sanity" \in marks /\ "sanity" \notin marks') =>
               overrun \/ (sane /\ \E c \in Calls : pc[c] = "await_ready" /\ pc'[c] = "persist")]_hvars
  <2> SUFFICES ASSUME IInv, IVerdict, [HNext]_hvars
               PROVE  IVerdict' /\ (UNCHANGED hvars \/ Justified)
    BY DEF Justified, Condemned, Passes
  <2>1. TaskTypes /\ RecordTypes /\ LockDiscipline
    BY TypeParts DEF IInv
  <2>2. CASE UNCHANGED hvars
    BY <2>2 DEF hvars, vars, history, record, tasks, IVerdict, Condemned
  <2>3. CASE HNext
    BY <2>1, <2>3, VerdictCallStep, VerdictLoadStep, VerdictStopStep, VerdictStatusStep,
       VerdictOthers, VerdictRestart DEF Next, HNext
  <2>4. QED
    BY <2>2, <2>3
<1>3. QED
  BY <1>1, <1>2, Invariance, HistoryRuns, PTL DEF HSpec, VerdictSticks
=============================================================================
