------------------------ MODULE LoadAdmissionProofs ------------------------
(***************************************************************************)
(* That no reservation outlives its load, no lock its holder, that the     *)
(* memory held and reserved leaves the headroom free, and that a victim is *)
(* taken down only when the load is short of memory, for every finite set  *)
(* of slots, every set of loads and unloads and any number of faults.      *)
(***************************************************************************)
EXTENDS LoadAdmission, FiniteSetTheorems, WellFoundedInduction, TLAPS

\* Between its first and its last step a load holds its slot's lock.
Inside == {"clear", "guard", "listed", "admit", "gather", "evict", "evicting",
           "spawn", "warm", "loaded", "broken"}
LoadsLock == \A l \in Loads : pc[l] \in Inside => lock[Of[l]] = l

\* While it takes a victim down it holds that slot's lock as well, and the
\* victim is another slot. So does an operator's unload.
VictimsLock ==
    /\ \A l \in Loads : pc[l] = "evicting" /\ Head(plan) \in Slots
                            => lock[Head(plan)] = l /\ Head(plan) # Of[l]
    /\ \A u \in Unloads : pc[u] = "evicting" => lock[Of[u]] = u

\* Only GPU and NPU slots are ever pending.
Guarded == \A l \in Loads : pc[l] \in {"guard", "listed"} => Of[l] \in Npu \cup Gpu

Inv == TypeOK /\ LoadsLock /\ VictimsLock /\ Guarded /\ ReservationsOwned

----------------------------------------------------------------------------
\* What the proofs use of the constants.
LEMMA Constants ==
    /\ Npu \subseteq Slots /\ Gpu \subseteq Slots /\ Resident \subseteq Slots
    /\ Of \in [Calls -> Slots] /\ Loads \cap Unloads = {} /\ Nobody \notin Calls
  BY AdmissionConstants DEF AdmissionConstants

\* Nothing is reserved and no lock is held.
LEMMA InitInv == Init => Inv
  BY Constants DEF Init, Inv, TypeOK, LoadsLock, VictimsLock, Guarded,
     ReservationsOwned, Inside, Calls, Pcs, Reserving

----------------------------------------------------------------------------
(* Before the admission: the lock, the old unit, the fabric guard. *)

LEMMA LoadBeginsKeeps == ASSUME Inv, NEW l \in Loads, LoadBegins(l) PROVE Inv'
  BY Constants DEF LoadBegins, snapshot, Inv, TypeOK, LoadsLock, VictimsLock, Guarded,
     ReservationsOwned, Inside, Calls, Pcs, Reserving, Cold, Fault

LEMMA LoadClearsKeeps == ASSUME Inv, NEW l \in Loads, LoadClears(l) PROVE Inv'
  BY Constants DEF LoadClears, snapshot, Inv, TypeOK, LoadsLock, VictimsLock, Guarded,
     ReservationsOwned, Inside, Calls, Pcs, Reserving, Cold, Fault, locks

LEMMA GuardListsKeeps == ASSUME Inv, NEW l \in Loads, GuardLists(l) PROVE Inv'
  BY Constants DEF GuardLists, snapshot, Inv, TypeOK, LoadsLock, VictimsLock, Guarded,
     ReservationsOwned, Inside, Calls, Pcs, Reserving, Opposite

LEMMA GuardPassesKeeps == ASSUME Inv, NEW l \in Loads, GuardPasses(l) PROVE Inv'
  BY Constants DEF GuardPasses, snapshot, Inv, TypeOK, LoadsLock, VictimsLock, Guarded,
     ReservationsOwned, Inside, Calls, Pcs, Reserving

LEMMA GuardRefusesKeeps == ASSUME Inv, NEW l \in Loads, GuardRefuses(l) PROVE Inv'
  BY Constants DEF GuardRefuses, snapshot, Inv, TypeOK, LoadsLock, VictimsLock, Guarded,
     ReservationsOwned, Inside, Calls, Pcs, Reserving

----------------------------------------------------------------------------
(* The admission. Its lock tells the load that is in it, hence whose plan it is. *)

LEMMA AdmitBeginsKeeps == ASSUME Inv, NEW l \in Loads, AdmitBegins(l) PROVE Inv'
<1>1. TypeOK'
  BY Constants DEF Inv, AdmitBegins, TypeOK, Calls, Pcs, Reserving, Admitted, Short
<1>2. LoadsLock'
  BY Constants DEF Inv, AdmitBegins, Short, TypeOK, LoadsLock, VictimsLock, Inside, Calls, Admitted
<1>3. VictimsLock'
  BY Constants DEF Inv, AdmitBegins, Short, TypeOK, LoadsLock, VictimsLock, Inside, Calls, Admitted
<1>4. Guarded'
  BY Constants DEF Inv, AdmitBegins, Short, TypeOK, Guarded, Calls, Admitted
<1>5. ReservationsOwned'
  BY Constants DEF Inv, AdmitBegins, Short, TypeOK, LoadsLock, VictimsLock, ReservationsOwned, Inside, Reserving, Calls, Admitted
<1> QED BY <1>1, <1>2, <1>3, <1>4, <1>5 DEF Inv

LEMMA AdmitOpenKeeps == ASSUME Inv, NEW l \in Loads, AdmitOpen(l) PROVE Inv'
  BY Constants DEF AdmitOpen, Inv, TypeOK, LoadsLock, VictimsLock, Guarded,
     ReservationsOwned, Inside, Calls, Pcs, Reserving, locks, snapshot, Fault

LEMMA PlanKeeps == ASSUME Inv, NEW l \in Loads, PlanEvictions(l) PROVE Inv'
  BY Constants DEF PlanEvictions, Inv, TypeOK, LoadsLock, VictimsLock, Guarded,
     ReservationsOwned, Inside, Calls, Pcs, Reserving, locks

LEMMA GatherKeeps == ASSUME Inv, NEW l \in Loads, Gather(l) PROVE Inv'
  BY Constants DEF Gather, Inv, TypeOK, LoadsLock, VictimsLock, Guarded,
     ReservationsOwned, Inside, Calls, Pcs, Reserving, locks

LEMMA EvictBeginsKeeps == ASSUME Inv, NEW l \in Loads, EvictBegins(l) PROVE Inv'
<1>1. TypeOK'
  BY Constants DEF Inv, EvictBegins, TypeOK, Calls, Pcs, Reserving
<1>2. LoadsLock'
  BY Constants DEF Inv, EvictBegins, snapshot, TypeOK, LoadsLock, VictimsLock, Inside, Calls
<1>3. VictimsLock'
  BY Constants DEF Inv, EvictBegins, snapshot, TypeOK, LoadsLock, VictimsLock, Inside, Calls
<1>4. Guarded'
  BY Constants DEF Inv, EvictBegins, TypeOK, Guarded, Calls
<1>5. ReservationsOwned'
  BY Constants DEF Inv, EvictBegins, snapshot, TypeOK, LoadsLock, VictimsLock, ReservationsOwned, Inside, Reserving, Calls
<1> QED BY <1>1, <1>2, <1>3, <1>4, <1>5 DEF Inv

LEMMA EvictEndsKeeps == ASSUME Inv, NEW l \in Loads, EvictEnds(l) PROVE Inv'
<1>1. TypeOK'
  <2>1. \/ /\ pc' = [pc EXCEPT ![l] = "spawn"] /\ admission' = Nobody
           /\ reserved' = reserved \cup {Of[l]}
        \/ /\ pc' = [pc EXCEPT ![l] = "evict"] /\ UNCHANGED <<admission, reserved>>
    BY DEF EvictEnds, Admitted
  <2>2. slot' \in [Slots -> {"off", "starting", "ready", "parked", "stop", "error", "slow"}]
        /\ held' \subseteq Slots /\ lock' \in [Slots -> Calls \cup {Nobody}]
    BY DEF EvictEnds, Inv, TypeOK
  <2>3. pc[l] = "evicting" /\ UNCHANGED <<fabric, pending, clock, seen, faults>>
        /\ late' \subseteq late
    BY DEF EvictEnds, Admitted
  <2> QED BY <2>1, <2>2, <2>3, Constants DEF Inv, TypeOK, Calls, Pcs, Reserving
<1>2. LoadsLock'
  BY Constants DEF Inv, EvictEnds, TypeOK, LoadsLock, VictimsLock, Inside, Calls, Admitted
<1>3. VictimsLock'
  BY Constants DEF Inv, EvictEnds, TypeOK, LoadsLock, VictimsLock, Inside, Calls, Admitted
<1>4. Guarded'
  BY Constants DEF Inv, EvictEnds, TypeOK, Guarded, Calls, Admitted
<1>5. ReservationsOwned'
  BY Constants DEF Inv, EvictEnds, TypeOK, LoadsLock, VictimsLock, ReservationsOwned, Inside, Reserving, Calls, Admitted
<1> QED BY <1>1, <1>2, <1>3, <1>4, <1>5 DEF Inv

LEMMA EvictFailsKeeps == ASSUME Inv, NEW l \in Loads, EvictFails(l) PROVE Inv'
<1>1. TypeOK'
  <2>1. slot' \in [Slots -> {"off", "starting", "ready", "parked", "stop", "error", "slow"}]
        /\ lock' \in [Slots -> Calls \cup {Nobody}]
    BY DEF EvictFails, Inv, TypeOK
  <2>2. /\ pc[l] = "evicting" /\ pc' = [pc EXCEPT ![l] = "evict"] /\ faults' = faults + 1
        /\ UNCHANGED <<held, fabric, pending, admission, reserved, clock, late, seen>>
    BY DEF EvictFails, Fault
  <2> QED BY <2>1, <2>2, Constants DEF Inv, TypeOK, Calls, Pcs, Reserving
<1>2. LoadsLock'
  BY Constants DEF Inv, EvictFails, TypeOK, LoadsLock, VictimsLock, Inside, Calls, Fault
<1>3. VictimsLock'
  BY Constants DEF Inv, EvictFails, TypeOK, LoadsLock, VictimsLock, Inside, Calls, Fault
<1>4. Guarded'
  BY Constants DEF Inv, EvictFails, TypeOK, Guarded, Calls, Fault
<1>5. ReservationsOwned'
  BY Constants DEF Inv, EvictFails, TypeOK, LoadsLock, VictimsLock, ReservationsOwned, Inside, Reserving, Calls, Fault
<1> QED BY <1>1, <1>2, <1>3, <1>4, <1>5 DEF Inv

LEMMA AdmitRefusesKeeps == ASSUME Inv, NEW l \in Loads, AdmitRefuses(l) PROVE Inv'
<1>1. TypeOK'
  BY Constants DEF Inv, AdmitRefuses, TypeOK, Calls, Pcs, Reserving
<1>2. LoadsLock'
  BY Constants DEF Inv, AdmitRefuses, TypeOK, LoadsLock, VictimsLock, Inside, Calls
<1>3. VictimsLock'
  BY Constants DEF Inv, AdmitRefuses, TypeOK, LoadsLock, VictimsLock, Inside, Calls
<1>4. Guarded'
  BY Constants DEF Inv, AdmitRefuses, TypeOK, Guarded, Calls
<1>5. ReservationsOwned'
  BY Constants DEF Inv, AdmitRefuses, TypeOK, LoadsLock, VictimsLock, ReservationsOwned, Inside, Reserving, Calls
<1> QED BY <1>1, <1>2, <1>3, <1>4, <1>5 DEF Inv

----------------------------------------------------------------------------
(* The unit, and the end. *)

LEMMA SpawnKeeps == ASSUME Inv, NEW l \in Loads, Spawn(l) PROVE Inv'
  BY Constants DEF Spawn, snapshot, Inv, TypeOK, LoadsLock, VictimsLock, Guarded,
     ReservationsOwned, Inside, Calls, Pcs, Reserving, locks

LEMMA WarmedKeeps == ASSUME Inv, NEW l \in Loads, Warmed(l) PROVE Inv'
  BY Constants DEF Warmed, snapshot, Inv, TypeOK, LoadsLock, VictimsLock, Guarded,
     ReservationsOwned, Inside, Calls, Pcs, Reserving, locks, Fault

LEMMA LoadEndsKeeps == ASSUME Inv, NEW l \in Loads, LoadEnds(l) PROVE Inv'
  BY Constants DEF LoadEnds, snapshot, Inv, TypeOK, LoadsLock, VictimsLock, Guarded,
     ReservationsOwned, Inside, Calls, Pcs, Reserving

----------------------------------------------------------------------------
(* Unloads, units and late stops. *)

LEMMA UnloadBeginsKeeps == ASSUME Inv, NEW u \in Unloads, UnloadBegins(u) PROVE Inv'
  BY Constants DEF UnloadBegins, snapshot, Inv, TypeOK, LoadsLock, VictimsLock, Guarded,
     ReservationsOwned, Inside, Calls, Pcs, Reserving

LEMMA UnloadEndsKeeps == ASSUME Inv, NEW u \in Unloads, UnloadEnds(u) PROVE Inv'
  BY Constants DEF UnloadEnds, snapshot, Inv, TypeOK, LoadsLock, VictimsLock, Guarded,
     ReservationsOwned, Inside, Calls, Pcs, Reserving, Fault

LEMMA AllocateKeeps == ASSUME Inv, NEW s \in Slots, Allocate(s) PROVE Inv'
  BY Constants DEF Allocate, snapshot, Inv, TypeOK, LoadsLock, VictimsLock, Guarded,
     ReservationsOwned, Inside, Calls, Pcs, Reserving, locks

LEMMA LateStopKeeps == ASSUME Inv, NEW s \in Slots, LateStop(s) PROVE Inv'
  BY Constants DEF LateStop, snapshot, Inv, TypeOK, LoadsLock, VictimsLock, Guarded,
     ReservationsOwned, Inside, Calls, Pcs, Reserving, locks

----------------------------------------------------------------------------
\* One step per action.
LEMMA NextKeeps == Inv /\ [Next]_vars => Inv'
<1> SUFFICES ASSUME Inv, [Next]_vars PROVE Inv'
  OBVIOUS
<1>1. ASSUME NEW l \in Loads, Load(l) PROVE Inv'
  BY <1>1, LoadBeginsKeeps, LoadClearsKeeps, GuardListsKeeps, GuardPassesKeeps, GuardRefusesKeeps,
     AdmitBeginsKeeps, AdmitOpenKeeps, GatherKeeps, PlanKeeps, EvictBeginsKeeps, EvictEndsKeeps, EvictFailsKeeps,
     AdmitRefusesKeeps, SpawnKeeps, WarmedKeeps, LoadEndsKeeps DEF Load
<1>2. ASSUME NEW u \in Unloads, Unload(u) PROVE Inv'
  BY <1>2, UnloadBeginsKeeps, UnloadEndsKeeps DEF Unload
<1>3. ASSUME NEW s \in Slots, Allocate(s) \/ LateStop(s) PROVE Inv'
  BY <1>3, AllocateKeeps, LateStopKeeps
<1>4. CASE UNCHANGED vars
  BY <1>4 DEF vars, locks, snapshot, Inv, TypeOK, LoadsLock, VictimsLock, Guarded, ReservationsOwned, Calls
<1> QED BY <1>1, <1>2, <1>3, <1>4 DEF Next

\* Whatever fails on the way, an entry of _fabric_pending or _preload_reserved_mb
\* belongs to a load under way that holds its slot's lock and will take it out, and
\* the fabric and admission locks are held exactly by the load inside (manager.py
\* _load and _guard_fabric_clock, preload_evict.py admit).
THEOREM ReservationsSafe == Spec => []Safety
<1>1. Inv => Safety
  BY DEF Inv, Safety
<1>2. Spec => []Inv
  BY InitInv, NextKeeps, PTL DEF Spec
<1> QED BY <1>1, <1>2, PTL
----------------------------------------------------------------------------
(* SizeOf adds up: the fold of the community modules, for finite sets. *)

\* The element that the fold of SizeOf takes next, and what it is to add up the
\* sizes of the subsets of S that way.
Pick(S) == CHOOSE x \in S : TRUE
Adds(f, S) == f = [t \in SUBSET S |-> IF t = {} THEN 0 ELSE Size[Pick(t)] + f[t \ {Pick(t)}]]

Sum(S) == CHOOSE f : Adds(f, S)

LEMMA SizeOfIs == ASSUME NEW S PROVE SizeOf(S) = Sum(S)[S]
  BY DEF Sum, SizeOf, MapThenSumSet, MapThenFoldSet, Adds, Pick

LEMMA PickIn == ASSUME NEW S, S # {} PROVE Pick(S) \in S
  BY DEF Pick

\* Induction over finite sets, first order: a set of subsets of a finite set has a
\* smallest member, so a smallest counterexample.
LEMMA SmallestSet ==
    ASSUME NEW S, IsFiniteSet(S), NEW T, T \subseteq SUBSET S, T # {}
    PROVE  \E x \in T : \A y \in T : y \subseteq x => y = x
<1>1. IsWellFoundedOn(StrictSubsetOrdering(S), FiniteSubsetsOf(S))
  BY FS_StrictSubsetOrderingWellFounded
<1>2. T \subseteq FiniteSubsetsOf(S)
  BY FS_Subset DEF FiniteSubsetsOf
<1>3. PICK x \in T : \A y \in T : ~(<<y, x>> \in StrictSubsetOrdering(S))
  BY <1>1, <1>2, WFMin
<1> QED BY <1>3 DEF StrictSubsetOrdering

\* Two functions that add up agree where both are defined.
LEMMA AddsUnique ==
    ASSUME NEW S, NEW W, IsFiniteSet(S), NEW f, NEW h, Adds(f, S), Adds(h, W)
    PROVE  \A v \in SUBSET (S \cap W) : f[v] = h[v]
<1> DEFINE Bad == {v \in SUBSET (S \cap W) : f[v] # h[v]}
<1>1. SUFFICES ASSUME Bad # {} PROVE FALSE
  OBVIOUS
<1>2. PICK v \in Bad : \A y \in Bad : y \subseteq v => y = v
  <2>1. Bad \subseteq SUBSET S
    OBVIOUS
  <2> HIDE DEF Bad
  <2> QED BY <1>1, <2>1, SmallestSet
<1>3. v \in SUBSET S /\ v \in SUBSET W /\ f[v] # h[v]
  OBVIOUS
<1>4. v # {}
  BY <1>3 DEF Adds
<1>5. v \ {Pick(v)} \notin Bad
  BY <1>2, <1>4, PickIn
<1>6. f[v \ {Pick(v)}] = h[v \ {Pick(v)}]
  BY <1>3, <1>5
<1>7. f[v] = Size[Pick(v)] + f[v \ {Pick(v)}]
  BY <1>3, <1>4 DEF Adds
<1>8. h[v] = Size[Pick(v)] + h[v \ {Pick(v)}]
  BY <1>3, <1>4 DEF Adds
<1> QED BY <1>3, <1>6, <1>7, <1>8

\* There is such a function for every finite set.
LEMMA AddsExists == ASSUME NEW A, IsFiniteSet(A), NEW B \in SUBSET A PROVE \E f : Adds(f, B)
<1> DEFINE Bad == {v \in SUBSET A : ~\E f : Adds(f, v)}
<1>1. SUFFICES ASSUME Bad # {} PROVE FALSE
  OBVIOUS
<1>2. PICK S \in Bad : \A y \in Bad : y \subseteq S => y = S
  <2>1. Bad \subseteq SUBSET A
    OBVIOUS
  <2> HIDE DEF Bad
  <2> QED BY <1>1, <2>1, SmallestSet
<1>3. ASSUME NEW u \in SUBSET S, u # S PROVE Adds(Sum(u), u)
  <2>1. \E f : Adds(f, u)
    BY <1>2, <1>3
  <2> QED BY <2>1 DEF Sum
<1> DEFINE g == [t \in SUBSET S |-> IF t = {} THEN 0 ELSE Size[Pick(t)] + Sum(t \ {Pick(t)})[t \ {Pick(t)}]]
<1>4. ASSUME NEW u \in SUBSET S, u # S PROVE g[u] = Sum(u)[u]
  <2>0. Adds(Sum(u), u)
    BY <1>3, <1>4
  <2>1. CASE u = {}
    BY <2>0, <2>1 DEF Adds
  <2>2. CASE u # {}
    <3> DEFINE w == u \ {Pick(u)}
    <3>1. w \in SUBSET u /\ w \in SUBSET S /\ w # S /\ IsFiniteSet(u) /\ u \cap w = w
      <4>1. IsFiniteSet(u)
        BY FS_Subset
      <4> QED BY <2>2, <4>1, PickIn
    <3>2. Adds(Sum(w), w)
      BY <3>1, <1>3
    <3>3. Sum(u)[w] = Sum(w)[w]
      BY <2>0, <3>1, <3>2, AddsUnique
    <3>4. Sum(u)[u] = Size[Pick(u)] + Sum(u)[w]
      BY <2>0, <2>2 DEF Adds
    <3>5. g[u] = Size[Pick(u)] + Sum(w)[w]
      BY <2>2
    <3> QED BY <3>3, <3>4, <3>5
  <2> QED BY <2>1, <2>2
<1>5. ASSUME NEW t \in SUBSET S, t # {}
      PROVE  Sum(t \ {Pick(t)})[t \ {Pick(t)}] = g[t \ {Pick(t)}]
  <2>1. t \ {Pick(t)} \in SUBSET S /\ t \ {Pick(t)} # S
    BY <1>5, PickIn
  <2> HIDE DEF g
  <2> QED BY <1>4, <2>1
<1>6. g = [t \in SUBSET S |-> IF t = {} THEN 0 ELSE Size[Pick(t)] + g[t \ {Pick(t)}]]
  <2> DEFINE k == [t \in SUBSET S |-> IF t = {} THEN 0 ELSE Size[Pick(t)] + g[t \ {Pick(t)}]]
  <2>1. \A t \in SUBSET S : g[t] = k[t]
    <3> TAKE t \in SUBSET S
    <3>1. CASE t = {}
      BY <3>1
    <3>2. CASE t # {}
      <4>1. k[t] = Size[Pick(t)] + g[t \ {Pick(t)}]
        BY <3>2
      <4>2. g[t] = Size[Pick(t)] + Sum(t \ {Pick(t)})[t \ {Pick(t)}]
        BY <3>2
      <4> QED BY <3>2, <4>1, <4>2, <1>5
    <3> QED BY <3>1, <3>2
  <2>2. DOMAIN g = SUBSET S /\ DOMAIN k = SUBSET S
    OBVIOUS
  <2>3. g = [t \in SUBSET S |-> g[t]] /\ k = [t \in SUBSET S |-> k[t]]
    OBVIOUS
  <2> HIDE DEF g, k
  <2>4. g = k
    BY <2>1, <2>3
  <2> QED BY <2>4 DEF k
<1> HIDE DEF g
<1>7. Adds(g, S)
  BY <1>6 DEF Adds
<1> QED BY <1>2, <1>7

\* SizeOf of a finite set is 0, or the size of the element that is picked and
\* the rest.
LEMMA SizeOfStep ==
    ASSUME NEW S, IsFiniteSet(S)
    PROVE  SizeOf(S) = IF S = {} THEN 0 ELSE Size[Pick(S)] + SizeOf(S \ {Pick(S)})
<1>1. \A u \in SUBSET S : Adds(Sum(u), u)
  <2> TAKE u \in SUBSET S
  <2>1. \E f : Adds(f, u)
    BY AddsExists
  <2> QED BY <2>1 DEF Sum
<1>2. SizeOf(S) = Sum(S)[S]
  BY SizeOfIs
<1>3. CASE S = {}
  BY <1>1, <1>2, <1>3 DEF Adds
<1>4. CASE S # {}
  <2> DEFINE w == S \ {Pick(S)}
  <2>1. SizeOf(w) = Sum(w)[w]
    BY SizeOfIs
  <2>2. Sum(S)[w] = Sum(w)[w]
    BY <1>1, AddsUnique
  <2>3. Sum(S)[S] = Size[Pick(S)] + Sum(S)[w]
    BY <1>1, <1>4 DEF Adds
  <2> QED BY <1>2, <1>4, <2>1, <2>2, <2>3
<1> QED BY <1>3, <1>4

\* The order in which the sizes are added does not matter.
LEMMA SizeOfSplit ==
    ASSUME NEW A, IsFiniteSet(A), A \subseteq Slots
    PROVE  SizeOf(A) \in Nat /\ \A x \in A : SizeOf(A) = Size[x] + SizeOf(A \ {x})
<1> DEFINE Good(v) == SizeOf(v) \in Nat /\ \A x \in v : SizeOf(v) = Size[x] + SizeOf(v \ {x})
<1> DEFINE Bad == {v \in SUBSET A : ~Good(v)}
<1>1. SUFFICES ASSUME Bad # {} PROVE FALSE
  OBVIOUS
<1>2. PICK S \in Bad : \A y \in Bad : y \subseteq S => y = S
  <2>1. Bad \subseteq SUBSET A
    OBVIOUS
  <2> HIDE DEF Bad
  <2> QED BY <1>1, <2>1, SmallestSet
<1>3. IsFiniteSet(S) /\ S \subseteq Slots
  BY FS_Subset
<1>4. \A u \in SUBSET S : u # S => Good(u)
  BY <1>2
<1>5. S # {}
  <2>1. SizeOf({}) = 0
    BY SizeOfStep, FS_EmptySet
  <2>2. Good({})
    BY <2>1
  <2> QED BY <2>2
<1> DEFINE p == Pick(S)
<1>6. p \in S /\ Size[p] \in Nat /\ S \ {p} # S
  BY <1>3, <1>5, PickIn, AdmissionConstants DEF AdmissionConstants
<1>7. SizeOf(S) = Size[p] + SizeOf(S \ {p})
  BY <1>3, <1>5, SizeOfStep
<1>8. SizeOf(S) \in Nat
  BY <1>4, <1>6, <1>7
<1>9. ASSUME NEW x \in S PROVE SizeOf(S) = Size[x] + SizeOf(S \ {x})
  <2>1. CASE x = p
    BY <1>7, <2>1
  <2>2. CASE x # p
    <3>1. PICK n \in Nat : n = SizeOf(S \ {p, x})
      BY <1>4, <1>6
    <3>2. SizeOf(S \ {p}) = Size[x] + n
      <4>1. (S \ {p}) \ {x} = S \ {p, x}
        OBVIOUS
      <4> QED BY <1>4, <1>6, <2>2, <3>1, <4>1
    <3>3. SizeOf(S \ {x}) = Size[p] + n
      <4>1. (S \ {x}) \ {p} = S \ {p, x}
        OBVIOUS
      <4> QED BY <1>4, <1>6, <2>2, <3>1, <4>1
    <3>4. Size[x] \in Nat
      BY <1>3, AdmissionConstants DEF AdmissionConstants
    <3> HIDE DEF p
    <3>5. SizeOf(S) = Size[p] + (Size[x] + n)
      BY <1>7, <3>2
    <3> QED BY <1>6, <3>3, <3>4, <3>5
  <2> QED BY <2>1, <2>2
<1> QED BY <1>8, <1>9

\* A subset is no larger.
LEMMA SizeMonotone ==
    ASSUME NEW A, NEW B, A \subseteq B, B \subseteq Slots PROVE SizeOf(A) <= SizeOf(B)
<1> DEFINE Bad == {T \in SUBSET B : \E S \in SUBSET T : ~(SizeOf(S) <= SizeOf(T))}
<1>1. SUFFICES ASSUME Bad # {} PROVE FALSE
  OBVIOUS
<1>2. IsFiniteSet(B) /\ \A T \in SUBSET B : IsFiniteSet(T)
  BY FS_Subset, AdmissionConstants DEF AdmissionConstants
<1>3. PICK T \in Bad : \A y \in Bad : y \subseteq T => y = T
  <2>1. Bad \subseteq SUBSET B
    OBVIOUS
  <2> HIDE DEF Bad
  <2> QED BY <1>1, <1>2, <2>1, SmallestSet
<1>4. PICK S \in SUBSET T : ~(SizeOf(S) <= SizeOf(T))
  OBVIOUS
<1>5. SizeOf(T) \in Nat /\ SizeOf(S) \in Nat
  BY <1>2, SizeOfSplit
<1>6. PICK x \in T : x \notin S
  BY <1>4, <1>5
<1>7. T \ {x} \notin Bad
  BY <1>3
<1>8. SizeOf(S) <= SizeOf(T \ {x})
  BY <1>6, <1>7
<1>9. SizeOf(T) = Size[x] + SizeOf(T \ {x}) /\ SizeOf(T \ {x}) \in Nat /\ Size[x] \in Nat
  BY <1>2, SizeOfSplit, AdmissionConstants DEF AdmissionConstants
<1> QED BY <1>4, <1>5, <1>8, <1>9

\* What two sets hold is no more than what each holds, added.
LEMMA SizeUnion ==
    ASSUME NEW A \in SUBSET Slots, NEW B \in SUBSET Slots
    PROVE  SizeOf(A \cup B) <= SizeOf(A) + SizeOf(B)
<1> DEFINE Bad == {T \in SUBSET B : ~(SizeOf(A \cup T) <= SizeOf(A) + SizeOf(T))}
<1>1. SUFFICES ASSUME Bad # {} PROVE FALSE
  OBVIOUS
<1>2. \A T \in SUBSET Slots : IsFiniteSet(T) /\ SizeOf(T) \in Nat
  BY FS_Subset, SizeOfSplit, AdmissionConstants DEF AdmissionConstants
<1>3. PICK T \in Bad : \A y \in Bad : y \subseteq T => y = T
  <2>1. Bad \subseteq SUBSET B /\ IsFiniteSet(B)
    BY <1>2
  <2> HIDE DEF Bad
  <2> QED BY <1>1, <2>1, SmallestSet
<1>4. T # {}
  <2>1. A \cup {} = A /\ SizeOf({}) \in Nat /\ SizeOf(A) \in Nat
    BY <1>2
  <2>2. SizeOf(A \cup {}) <= SizeOf(A) + SizeOf({})
    BY <2>1
  <2> QED BY <2>2
<1>5. PICK x \in T : TRUE
  BY <1>4
<1>6. SizeOf(A \cup (T \ {x})) <= SizeOf(A) + SizeOf(T \ {x})
  BY <1>3
<1>7. SizeOf(T) = Size[x] + SizeOf(T \ {x}) /\ Size[x] \in Nat
  BY <1>2, SizeOfSplit, AdmissionConstants DEF AdmissionConstants
<1>8. SizeOf(A \cup T) = Size[x] + SizeOf((A \cup T) \ {x})
  <2>1. A \cup T \subseteq Slots /\ x \in A \cup T
    OBVIOUS
  <2> QED BY <1>2, <2>1, SizeOfSplit
<1>9. SizeOf((A \cup T) \ {x}) <= SizeOf(A \cup (T \ {x}))
  BY SizeMonotone
<1>10. /\ SizeOf(A) \in Nat /\ SizeOf(T \ {x}) \in Nat /\ SizeOf(A \cup (T \ {x})) \in Nat
       /\ SizeOf((A \cup T) \ {x}) \in Nat
  BY <1>2
<1>11. ~(SizeOf(A \cup T) <= SizeOf(A) + SizeOf(T))
  OBVIOUS
<1> HIDE DEF Bad
<1> QED BY <1>6, <1>7, <1>8, <1>9, <1>10, <1>11

----------------------------------------------------------------------------
(* The memory. *)

\* What units hold and loads have reserved.
Committed == (held \ late) \cup reserved

\* A load past its admission has its reservation or made none, and a unit that is starting
\* has such a load.
Covered ==
    /\ \A l \in Loads : pc[l] \in Reserving => Of[l] \in reserved \cup late
    /\ \A s \in Slots : slot[s] = "starting" =>
           \E l \in Loads : Of[l] = s /\ pc[l] \in {"warm", "broken"}

\* No step takes the reservation of another load, or starts a unit without one.
LEMMA CoveredKeeps == ASSUME Inv, Covered, [Next]_vars PROVE Covered'
<1> USE Constants DEF Inv, TypeOK, Calls, LoadsLock, Inside, Covered, Reserving
<1>1. ASSUME NEW l \in Loads, LoadBegins(l) PROVE Covered'
  BY <1>1 DEF LoadBegins, Cold
<1>2. ASSUME NEW l \in Loads, LoadClears(l) PROVE Covered'
  BY <1>2 DEF LoadClears, Cold
<1>3. ASSUME NEW l \in Loads, GuardLists(l) \/ GuardPasses(l) \/ GuardRefuses(l) PROVE Covered'
  BY <1>3 DEF GuardLists, GuardPasses, GuardRefuses
<1>4. ASSUME NEW l \in Loads, AdmitBegins(l) PROVE Covered'
  BY <1>4 DEF AdmitBegins, Admitted, Short
<1>5. ASSUME NEW l \in Loads, AdmitOpen(l) \/ Gather(l) \/ PlanEvictions(l) PROVE Covered'
  BY <1>5 DEF AdmitOpen, Gather, PlanEvictions, locks, snapshot
<1>6. ASSUME NEW l \in Loads, EvictBegins(l) PROVE Covered'
  BY <1>6 DEF EvictBegins
<1>7. ASSUME NEW l \in Loads, EvictEnds(l) PROVE Covered'
  BY <1>7 DEF EvictEnds, Admitted
<1>8. ASSUME NEW l \in Loads, EvictFails(l) PROVE Covered'
  BY <1>8 DEF EvictFails
<1>9. ASSUME NEW l \in Loads, AdmitRefuses(l) PROVE Covered'
  BY <1>9 DEF AdmitRefuses
<1>10. ASSUME NEW l \in Loads, Spawn(l) PROVE Covered'
  BY <1>10 DEF Spawn
<1>11. ASSUME NEW l \in Loads, Warmed(l) PROVE Covered'
  BY <1>11 DEF Warmed
<1>12. ASSUME NEW l \in Loads, LoadEnds(l) PROVE Covered'
  BY <1>12 DEF LoadEnds
<1>13. ASSUME NEW u \in Unloads, Unload(u) PROVE Covered'
  BY <1>13 DEF Unload, UnloadBegins, UnloadEnds
<1>14. ASSUME NEW s \in Slots, Allocate(s) \/ LateStop(s) PROVE Covered'
  BY <1>14 DEF Allocate, LateStop
<1>15. CASE UNCHANGED vars
  BY <1>15 DEF vars
<1> QED BY <1>1, <1>2, <1>3, <1>4, <1>5, <1>6, <1>7, <1>8, <1>9, <1>10, <1>11, <1>12, <1>13,
           <1>14, <1>15 DEF Next, Load

\* A step adds nothing to what is committed, or is an admission that fitted.
LEMMA CommittedStep ==
    ASSUME Inv, Covered, [Next]_vars
    PROVE  \/ Committed' \subseteq Committed
           \/ \E s \in Slots : /\ Committed' \subseteq held' \cup ((reserved \ {s}) \cup {s})
                               /\ held' \subseteq Slots
                               /\ Capacity - SizeOf(held') - SizeOf(reserved \ {s}) >= Size[s] + Headroom
<1> USE Constants DEF Inv, TypeOK, Calls, Committed
<1>1. ASSUME NEW l \in Loads,
             \/ LoadBegins(l) \/ LoadClears(l) \/ GuardLists(l) \/ GuardPasses(l) \/ GuardRefuses(l)
             \/ AdmitOpen(l) \/ Gather(l) \/ PlanEvictions(l) \/ EvictBegins(l) \/ EvictFails(l) \/ AdmitRefuses(l) \/ Warmed(l)
             \/ LoadEnds(l)
      PROVE  Committed' \subseteq Committed
  BY <1>1 DEF LoadBegins, LoadClears, GuardLists, GuardPasses, GuardRefuses, AdmitOpen, Gather,
       PlanEvictions, EvictBegins, EvictFails, AdmitRefuses, Warmed, LoadEnds, locks
<1>2. ASSUME NEW l \in Loads, AdmitBegins(l)
      PROVE  \/ Committed' \subseteq Committed
             \/ /\ Committed' \subseteq held' \cup ((reserved \ {Of[l]}) \cup {Of[l]})
                /\ held' \subseteq Slots
                /\ Capacity - SizeOf(held') - SizeOf(reserved \ {Of[l]}) >= Size[Of[l]] + Headroom
  BY <1>2 DEF AdmitBegins, Admitted, Short, Fits, FreeMb, Target
<1>3. ASSUME NEW l \in Loads, EvictEnds(l)
      PROVE  \/ Committed' \subseteq Committed
             \/ /\ Committed' \subseteq held' \cup ((reserved \ {Of[l]}) \cup {Of[l]})
                /\ held' \subseteq Slots
                /\ Capacity - SizeOf(held') - SizeOf(reserved \ {Of[l]}) >= Size[Of[l]] + Headroom
  BY <1>3 DEF EvictEnds, Admitted, FreeMb, Target
<1>4. ASSUME NEW l \in Loads, Spawn(l) PROVE Committed' \subseteq Committed
  BY <1>4 DEF Spawn, locks
<1>5. ASSUME NEW u \in Unloads, Unload(u) PROVE Committed' \subseteq Committed
  BY <1>5 DEF Unload, UnloadBegins, UnloadEnds
<1>6. ASSUME NEW s \in Slots, Allocate(s) PROVE Committed' \subseteq Committed
  BY <1>6 DEF Allocate, Covered, Reserving
<1>7. ASSUME NEW s \in Slots, LateStop(s) PROVE Committed' \subseteq Committed
  BY <1>7 DEF LateStop
<1>8. CASE UNCHANGED vars
  BY <1>8 DEF vars
<1>9. \A l \in Loads : Of[l] \in Slots
  OBVIOUS
<1>10. ASSUME NEW l \in Loads, Load(l)
       PROVE  \/ Committed' \subseteq Committed
              \/ /\ Committed' \subseteq held' \cup ((reserved \ {Of[l]}) \cup {Of[l]})
                 /\ held' \subseteq Slots
                 /\ Capacity - SizeOf(held') - SizeOf(reserved \ {Of[l]}) >= Size[Of[l]] + Headroom
  BY <1>1, <1>2, <1>3, <1>4, <1>10, Zenon DEF Load
<1> QED BY <1>5, <1>6, <1>7, <1>8, <1>9, <1>10 DEF Next

\* An admission that fitted leaves the headroom free.
LEMMA AdmissionFits ==
    ASSUME NEW A, NEW H \in SUBSET Slots, NEW R \in SUBSET Slots, NEW s \in Slots, s \notin R,
           A \subseteq H \cup (R \cup {s}),
           Capacity - SizeOf(H) - SizeOf(R) >= Size[s] + Headroom
    PROVE  SizeOf(A) + Headroom <= Capacity
<1>1. \A T \in SUBSET Slots : IsFiniteSet(T) /\ SizeOf(T) \in Nat
  BY FS_Subset, SizeOfSplit, AdmissionConstants DEF AdmissionConstants
<1>2. SizeOf(R \cup {s}) = Size[s] + SizeOf(R)
  <2>1. (R \cup {s}) \ {s} = R
    OBVIOUS
  <2> QED BY <1>1, <2>1, SizeOfSplit
<1>3. SizeOf(A) <= SizeOf(H \cup (R \cup {s}))
  BY SizeMonotone
<1>4. SizeOf(H \cup (R \cup {s})) <= SizeOf(H) + SizeOf(R \cup {s})
  BY SizeUnion
<1>5. /\ SizeOf(A) \in Nat /\ SizeOf(H) \in Nat /\ SizeOf(R) \in Nat
      /\ SizeOf(H \cup (R \cup {s})) \in Nat
  BY <1>1
<1>6. Size[s] \in Nat /\ Headroom \in Nat /\ Capacity \in Nat
  BY AdmissionConstants DEF AdmissionConstants
<1> QED BY <1>2, <1>3, <1>4, <1>5, <1>6

\* However many loads race, evictions fail and stops come late, what units hold
\* and what loads have reserved never exceeds the memory less the headroom
\* (preload_evict.py admit under _admission_lock, manager.py _load's finally).
THEOREM MemoryBounded == Spec => []NoOvercommit
<1>1. ASSUME Init PROVE Covered /\ NoOvercommit
  <2>1. (held \ late) \cup reserved = Resident
    BY <1>1 DEF Init
  <2>2. Covered
    BY <1>1, Constants DEF Init, Covered, Reserving, Calls
  <2> QED BY <2>1, <2>2, AdmissionConstants DEF AdmissionConstants, NoOvercommit
<1>2. ASSUME Inv, Covered, NoOvercommit, [Next]_vars PROVE NoOvercommit'
  <2>1. CASE Committed' \subseteq Committed
    <3>1. Committed \subseteq Slots
      BY <1>2 DEF Inv, TypeOK, Committed
    <3>2. SizeOf(Committed') <= SizeOf(Committed)
      BY <2>1, <3>1, SizeMonotone
    <3>3. /\ SizeOf(Committed) \in Nat /\ SizeOf(Committed') \in Nat
          /\ Headroom \in Nat /\ Capacity \in Nat
      BY <2>1, <3>1, FS_Subset, SizeOfSplit, AdmissionConstants DEF AdmissionConstants
    <3>4. SizeOf(Committed) + Headroom <= Capacity
      BY <1>2 DEF NoOvercommit, Committed
    <3>5. SizeOf(Committed') + Headroom <= Capacity
      BY <3>2, <3>3, <3>4
    <3> QED BY <3>5 DEF NoOvercommit, Committed
  <2>2. ASSUME NEW s \in Slots, Committed' \subseteq held' \cup ((reserved \ {s}) \cup {s}),
               held' \subseteq Slots,
               Capacity - SizeOf(held') - SizeOf(reserved \ {s}) >= Size[s] + Headroom
        PROVE  NoOvercommit'
    <3>1. reserved \ {s} \in SUBSET Slots
      BY <1>2 DEF Inv, TypeOK
    <3>2. SizeOf(Committed') + Headroom <= Capacity
      BY <2>2, <3>1, AdmissionFits
    <3> QED BY <3>2 DEF NoOvercommit, Committed
  <2> QED BY <1>2, <2>1, <2>2, CommittedStep
<1>3. Spec => [](Inv /\ Covered /\ NoOvercommit)
  BY <1>1, <1>2, InitInv, NextKeeps, CoveredKeeps, PTL DEF Spec
<1> QED BY <1>3, PTL

----------------------------------------------------------------------------
(* Who is evicted. *)

\* From its first probe on, the last reading of the load that holds the admission
\* lock was short; nobody else reserves or releases memory in the meantime.
ReadShort ==
    \A l \in Loads : pc[l] \in {"gather", "evict", "evicting"} =>
        probed \subseteq Slots /\ ~(FreeMb(Of[l], probed) >= Target(Of[l]))

\* No step makes such a reading good while it stands.
LEMMA ReadShortKeeps == ASSUME Inv, ReadShort, [Next]_vars PROVE ReadShort'
<1> DEFINE In == {"gather", "evict", "evicting"}
           Keeps == \/ \A l \in Loads : pc'[l] \notin In
                    \/ /\ UNCHANGED <<probed, reserved>>
                       /\ \A l \in Loads : pc'[l] \in In => pc[l] \in In
<1>1. Keeps => ReadShort'
  BY DEF ReadShort, FreeMb, Target
<1>2. ASSUME UNCHANGED vars PROVE Keeps
  BY <1>2 DEF vars, snapshot
<1> USE Constants DEF Inv, TypeOK, Calls
<1>3. ASSUME NEW l \in Loads, LoadBegins(l) PROVE Keeps
  BY <1>3 DEF LoadBegins, Cold, snapshot
<1>4. ASSUME NEW l \in Loads, LoadClears(l) PROVE Keeps
  BY <1>4 DEF LoadClears, Cold, snapshot
<1>5. ASSUME NEW l \in Loads, GuardLists(l) \/ GuardPasses(l) \/ GuardRefuses(l) PROVE Keeps
  BY <1>5 DEF GuardLists, GuardPasses, GuardRefuses, snapshot
<1>6. ASSUME NEW l \in Loads, AdmitBegins(l) PROVE ReadShort'
  <2>1. CASE Fits(Of[l])
    <3>1. \A k \in Loads : pc'[k] \notin In
      BY <1>6, <2>1 DEF AdmitBegins, Admitted
    <3> QED BY <3>1 DEF ReadShort
  <2>2. CASE ~Fits(Of[l])
    <3>1. /\ probed' = held /\ UNCHANGED reserved /\ held \subseteq Slots
          /\ \A k \in Loads : pc'[k] \in In => k = l
      BY <1>6, <2>2 DEF AdmitBegins, Short
    <3> QED BY <2>2, <3>1 DEF ReadShort, Fits, FreeMb, Target
  <2> QED BY <2>1, <2>2
<1>7. ASSUME NEW l \in Loads, AdmitOpen(l) \/ Gather(l) \/ PlanEvictions(l) PROVE Keeps
  BY <1>7 DEF AdmitOpen, Gather, PlanEvictions, snapshot
<1>8. ASSUME NEW l \in Loads, EvictBegins(l) \/ EvictFails(l) \/ AdmitRefuses(l) PROVE Keeps
  BY <1>8 DEF EvictBegins, EvictFails, AdmitRefuses, snapshot
<1>9. ASSUME NEW l \in Loads, EvictEnds(l) PROVE ReadShort'
  <2>1. CASE FreeMb(Of[l], held') >= Target(Of[l])
    <3>1. \A k \in Loads : pc'[k] \notin In
      BY <1>9, <2>1 DEF EvictEnds, Admitted
    <3> QED BY <3>1 DEF ReadShort
  <2>2. CASE ~(FreeMb(Of[l], held') >= Target(Of[l]))
    <3>1. /\ probed' = held' /\ UNCHANGED reserved /\ held' \subseteq Slots
          /\ \A k \in Loads : pc'[k] \in In => k = l
      BY <1>9, <2>2 DEF EvictEnds
    <3> QED BY <2>2, <3>1 DEF ReadShort, FreeMb, Target
  <2> QED BY <2>1, <2>2
<1>10. ASSUME NEW l \in Loads, Spawn(l) \/ Warmed(l) PROVE Keeps
  BY <1>10 DEF Spawn, Warmed, snapshot
<1>11. ASSUME NEW l \in Loads, LoadEnds(l) PROVE Keeps
  <2>1. CASE Of[l] \in reserved
    BY <1>11, <2>1 DEF LoadEnds, snapshot
  <2>2. CASE Of[l] \notin reserved
    BY <1>11, <2>2 DEF LoadEnds, snapshot
  <2> QED BY <2>1, <2>2
<1>12. ASSUME NEW u \in Unloads, Unload(u) PROVE Keeps
  BY <1>12 DEF Unload, UnloadBegins, UnloadEnds, snapshot
<1>13. ASSUME NEW s \in Slots, Allocate(s) \/ LateStop(s) PROVE Keeps
  BY <1>13 DEF Allocate, LateStop, snapshot
<1> HIDE DEF Keeps
<1> QED BY <1>1, <1>3, <1>4, <1>5, <1>6, <1>7, <1>8, <1>9, <1>10, <1>11, <1>12, <1>13, <1>2
        DEF Next, Load

\* A reading that was short stays short unless a unit it counted is gone.
LEMMA StaysShort ==
    ASSUME NEW s \in Slots, Inv, probed \subseteq held, ~(FreeMb(s, probed) >= Target(s))
    PROVE  ~Fits(s)
<1>1. /\ SizeOf(probed) <= SizeOf(held) /\ SizeOf(probed) \in Nat /\ SizeOf(held) \in Nat
      /\ SizeOf(reserved \ {s}) \in Nat
  <2>1. held \subseteq Slots /\ reserved \ {s} \subseteq Slots /\ probed \subseteq Slots
    BY DEF Inv, TypeOK
  <2> QED BY <2>1, SizeMonotone, SizeOfSplit, FS_Subset, AdmissionConstants DEF AdmissionConstants
<1>2. Size[s] \in Nat /\ Headroom \in Nat /\ Capacity \in Nat
  BY AdmissionConstants DEF AdmissionConstants
<1> QED BY <1>1, <1>2 DEF Fits, FreeMb, Target

\* For every finite set of slots: admit takes a victim down, or refuses the load, only
\* when the model does not fit, except for memory given back since the last reading of
\* free_mb, which is read before the candidates and not again (preload_evict.py admit).
THEOREM EvictionsNeeded == Spec => EvictsOnlyWhenShort
<1>1. Inv /\ ReadShort =>
        \A l \in Loads : pc[l] = "evict" => ~Fits(Of[l]) \/ probed \ held # {}
  <2> SUFFICES ASSUME Inv, ReadShort, NEW l \in Loads, pc[l] = "evict", probed \ held = {}
               PROVE  ~Fits(Of[l])
    OBVIOUS
  <2>1. Of[l] \in Slots /\ probed \subseteq held /\ ~(FreeMb(Of[l], probed) >= Target(Of[l]))
    BY Constants DEF ReadShort, Calls
  <2> QED BY <2>1, StaysShort
<1>2. Inv /\ ReadShort =>
        \A l \in Loads : pc[l] = "evict" /\ pc'[l] \in {"evicting", "failed"} =>
            ~Fits(Of[l]) \/ probed \ held # {}
  BY <1>1
<1>3. Init => ReadShort
  BY Constants DEF Init, ReadShort, Calls
<1>4. Spec => [](Inv /\ ReadShort)
  BY <1>3, InitInv, NextKeeps, ReadShortKeeps, PTL DEF Spec
<1> QED BY <1>2, <1>4, PTL DEF Spec, EvictsOnlyWhenShort
=============================================================================
