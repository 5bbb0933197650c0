------------------------ MODULE SlotAdmissionProofs ------------------------
(***************************************************************************)
(* For every finite set of requests and every set of caps: the gate's      *)
(* count is the number of requests that own a unit of it, never more than  *)
(* the cap, and a ticket is queued only while the gate is full.            *)
(***************************************************************************)
EXTENDS SlotAdmission, FiniteSetTheorems, TLAPS

\* Where a request may be while its ticket is queued, and while it refers to a
\* gate at all; a request that is waiting has its ticket in its gate's queue.
QueueInv ==
    /\ \A g \in Gates : \A r \in waiters[g] :
          gate[r] = g /\ pc[r] \in {"waiting", "expired", "cancelled"}
    /\ \A r \in Requests :
          gate[r] # NoGate => pc[r] \in {"waiting", "granted", "expired", "running", "cancelled"}
    /\ \A r \in Requests :
          /\ pc[r] \in {"waiting", "granted", "expired"} => gate[r] # NoGate
          /\ pc[r] = "waiting" => r \in waiters[gate[r]]

\* A gate that does not exist yet is empty.
FreshInv == \A g \in Gates \ created : inflight[g] = 0 /\ waiters[g] = {}

WithinLimit == \A g \in Gates : inflight[g] <= limit[g]

\* The count of each gate, its bound and its queue: what a step does to a gate
\* is judged by this part alone.
CountInv == FreshInv /\ WithinLimit /\ QueueOnlyWhenFull

IInv == TypeOK /\ QueueInv /\ CountInv /\ GateConserved

----------------------------------------------------------------------------

\* The owners of a unit are finitely many.
LEMMA HoldersFinite == ASSUME NEW g PROVE IsFiniteSet(Holders(g))
<1>1. Holders(g) \subseteq Requests
  BY DEF Holders
<1>2. QED
  BY <1>1, AdmissionAssumption, FS_Subset

\* Handing a unit from one owner to a request that had none keeps the count.
LEMMA HandOver ==
    ASSUME NEW S, IsFiniteSet(S), NEW r \in S, NEW w, w \notin S
    PROVE  Cardinality((S \ {r}) \cup {w}) = Cardinality(S)
<1>1. IsFiniteSet(S \ {r}) /\ Cardinality(S \ {r}) = Cardinality(S) - 1
  BY FS_RemoveElement
<1>2. Cardinality((S \ {r}) \cup {w}) = Cardinality(S \ {r}) + 1
  BY <1>1, FS_AddElement
<1>3. Cardinality(S) \in Nat
  BY FS_CardinalityType
<1>4. QED
  BY <1>1, <1>2, <1>3

\* Owners that stay the same keep the count they had.
LEMMA SameOwners ==
    ASSUME GateConserved, UNCHANGED inflight, \A g \in Gates : Holders(g)' = Holders(g)
    PROVE  GateConserved'
BY DEF GateConserved

\* The initial states satisfy the invariant.
LEMMA InitIInv == Init => IInv
<1> SUFFICES ASSUME Init PROVE IInv
  OBVIOUS
<1>1. TypeOK
  BY DEF Init, TypeOK, Places
<1>2. QueueInv
  BY AdmissionAssumption DEF Init, QueueInv
<1>3. CountInv
  BY DEF Init, CountInv, FreshInv, WithinLimit, QueueOnlyWhenFull
<1>4. GateConserved
  <2>1. \A g \in Gates : Holders(g) = {} /\ inflight[g] = 0
    BY AdmissionAssumption DEF Init, Holders
  <2>2. QED
    BY <2>1, FS_EmptySet DEF GateConserved
<1>5. QED
  BY <1>1, <1>2, <1>3, <1>4 DEF IInv

\* A step that leaves gates, queues and counts alone moves one request between
\* places that mean the same to the invariant.
LEMMA PlaceOnly ==
    ASSUME IInv, NEW r \in Requests, NEW place \in Places,
           pc' = [pc EXCEPT ![r] = place],
           UNCHANGED <<cap, registry, created, limit, inflight, waiters, seq, gate, stamp>>,
           gate[r] # NoGate => place \in {"granted", "expired", "running", "cancelled"},
           place \in {"granted", "expired"} => gate[r] # NoGate,
           place # "waiting",
           \A g \in Gates : r \in waiters[g] => place \in {"expired", "cancelled"}
    PROVE  IInv'
<1>1. TypeOK /\ QueueInv /\ CountInv /\ GateConserved
  BY DEF IInv
<1>2. /\ pc'[r] = place
      /\ \A q \in Requests \ {r} : pc'[q] = pc[q]
      /\ pc' \in [Requests -> Places]
  BY <1>1 DEF TypeOK
<1>3. TypeOK'
  BY <1>1, <1>2 DEF TypeOK
<1>4. \A g \in Gates : waiters[g] \subseteq Requests
  BY <1>1 DEF TypeOK
<1>5. QueueInv'
  BY <1>1, <1>2, <1>4 DEF QueueInv
<1>6. CountInv'
  BY <1>1 DEF CountInv, FreshInv, WithinLimit, QueueOnlyWhenFull
<1>7. \A g \in Gates : Holders(g)' = Holders(g)
  BY DEF Holders
<1>8. GateConserved'
  BY <1>1, <1>7, SameOwners
<1>9. QED
  BY <1>3, <1>5, <1>6, <1>8 DEF IInv

\* configure leaves every existing gate its limit, and a new one is empty.
LEMMA ConfigureStep ==
    ASSUME TypeOK, CountInv, configure
    PROVE  /\ created \subseteq created' /\ created' \subseteq Gates
           /\ registry' \in created' \cup {NoGate}
           /\ limit' \in [Gates -> Nat]
           /\ \A g \in Gates : inflight[g] <= limit'[g]
           /\ \A g \in Gates : waiters[g] # {} => inflight[g] = limit'[g]
<1>1. /\ cap \in Caps /\ created \subseteq Gates /\ registry \in created \cup {NoGate}
      /\ limit \in [Gates -> Nat] /\ inflight \in [Gates -> Nat]
  BY DEF TypeOK
<1>2. /\ \A g \in Gates : inflight[g] <= limit[g]
      /\ \A g \in Gates : waiters[g] # {} => inflight[g] = limit[g]
      /\ \A g \in Gates \ created : inflight[g] = 0 /\ waiters[g] = {}
  BY DEF CountInv, FreshInv, WithinLimit, QueueOnlyWhenFull
<1>3. CASE UNCHANGED <<created, limit>> /\ registry' \in {registry, NoGate}
  BY <1>1, <1>2, <1>3
<1>4. ASSUME NEW g \in Gates \ created, cap # NoCap,
             created' = created \cup {g}, registry' = g, limit' = [limit EXCEPT ![g] = cap]
      PROVE  /\ created \subseteq created' /\ created' \subseteq Gates
             /\ registry' \in created' \cup {NoGate}
             /\ limit' \in [Gates -> Nat]
             /\ \A h \in Gates : inflight[h] <= limit'[h]
             /\ \A h \in Gates : waiters[h] # {} => inflight[h] = limit'[h]
  <2>1. cap \in Nat
    BY <1>1, <1>4, AdmissionAssumption
  <2>2. limit' \in [Gates -> Nat] /\ limit'[g] = cap /\ \A h \in Gates \ {g} : limit'[h] = limit[h]
    BY <1>1, <1>4, <2>1
  <2>3. inflight[g] = 0 /\ waiters[g] = {}
    BY <1>2, <1>4
  <2>4. QED
    BY <1>1, <1>2, <1>4, <2>1, <2>2, <2>3
<1>5. QED
  BY <1>3, <1>4 DEF configure

\* An arriving request passes the gate, queues at it, or finds no gate.
LEMMA ArriveStep ==
    ASSUME IInv, NEW r \in Requests, Arrive(r)
    PROVE  IInv'
<1>1. TypeOK /\ QueueInv /\ CountInv /\ GateConserved
  BY DEF IInv
<1>2. /\ pc[r] = "new" /\ gate[r] = NoGate
      /\ \A g \in Gates : r \notin waiters[g]
      /\ cap' = cap
  BY <1>1 DEF Arrive, QueueInv
<1>3. /\ created \subseteq created' /\ created' \subseteq Gates
      /\ registry' \in created' \cup {NoGate}
      /\ limit' \in [Gates -> Nat]
      /\ \A g \in Gates : inflight[g] <= limit'[g]
      /\ \A g \in Gates : waiters[g] # {} => inflight[g] = limit'[g]
  BY <1>1, ConfigureStep DEF Arrive
<1>4. CASE /\ pc' = [pc EXCEPT ![r] = "running"]
           /\ UNCHANGED <<inflight, waiters, seq, gate, stamp>>
  <2>1. TypeOK'
    BY <1>1, <1>2, <1>3, <1>4 DEF TypeOK, Places
  <2>2. QueueInv'
    <3>1. pc'[r] = "running" /\ \A q \in Requests \ {r} : pc'[q] = pc[q]
      BY <1>1, <1>4 DEF TypeOK
    <3>2. \A g \in Gates : waiters[g] \subseteq Requests
      BY <1>1 DEF TypeOK
    <3>3. QED
      BY <1>1, <1>2, <1>4, <3>1, <3>2 DEF QueueInv
  <2>3. CountInv'
    BY <1>1, <1>3, <1>4 DEF CountInv, FreshInv, WithinLimit, QueueOnlyWhenFull
  <2>4. \A g \in Gates : Holders(g)' = Holders(g)
    BY <1>4 DEF Holders
  <2>5. GateConserved'
    BY <1>1, <1>4, <2>4, SameOwners
  <2>6. QED
    BY <2>1, <2>2, <2>3, <2>5 DEF IInv
<1>5. CASE registry' # NoGate /\ HasRoom(registry') /\ Admit(r, registry')
  <2>0. PICK h : h = registry'
    OBVIOUS
  <2>1. h \in created' /\ h \in Gates /\ h # NoGate
    BY <1>3, <1>5, <2>0
  <2>2. /\ inflight' = [inflight EXCEPT ![h] = @ + 1]
        /\ pc' = [pc EXCEPT ![r] = "running"]
        /\ gate' = [gate EXCEPT ![r] = h]
        /\ UNCHANGED <<waiters, seq, stamp>>
    BY <1>5, <2>0 DEF Admit
  <2>3. /\ inflight' \in [Gates -> Nat]
        /\ inflight'[h] = inflight[h] + 1
        /\ \A g \in Gates \ {h} : inflight'[g] = inflight[g]
    BY <1>1, <2>1, <2>2 DEF TypeOK
  <2>4. /\ pc'[r] = "running" /\ gate'[r] = h
        /\ \A q \in Requests \ {r} : pc'[q] = pc[q] /\ gate'[q] = gate[q]
    BY <1>1, <2>2 DEF TypeOK
  <2>5. TypeOK'
    BY <1>1, <1>2, <1>3, <2>1, <2>2, <2>3 DEF TypeOK, Places
  <2>6. \A g \in Gates : waiters[g] \subseteq Requests
    BY <1>1 DEF TypeOK
  <2>7. QueueInv'
    BY <1>1, <1>2, <2>1, <2>2, <2>4, <2>6 DEF QueueInv
  <2>8. inflight[h] < limit'[h] /\ waiters[h] = {}
    BY <1>5, <2>0 DEF HasRoom
  <2>9. inflight \in [Gates -> Nat]
    BY <1>1 DEF TypeOK
  <2>10. CountInv'
    BY <1>1, <1>3, <2>1, <2>2, <2>3, <2>8, <2>9 DEF CountInv, FreshInv, WithinLimit, QueueOnlyWhenFull
  <2>11. GateConserved'
    <3>1. Holders(h)' = Holders(h) \cup {r} /\ r \notin Holders(h)
      BY <1>2, <2>1, <2>2, <2>4 DEF Holders
    <3>2. \A g \in Gates \ {h} : Holders(g)' = Holders(g)
      BY <1>2, <2>1, <2>2, <2>4, AdmissionAssumption DEF Holders
    <3>3. Cardinality(Holders(h)') = inflight[h] + 1
      BY <1>1, <3>1, <2>1, HoldersFinite, FS_AddElement DEF GateConserved
    <3>4. QED
      BY <1>1, <2>1, <2>3, <3>2, <3>3 DEF GateConserved
  <2>12. QED
    BY <2>5, <2>7, <2>10, <2>11 DEF IInv
<1>6. CASE registry' # NoGate /\ ~HasRoom(registry') /\ Enqueue(r, registry')
  <2>0. PICK h : h = registry'
    OBVIOUS
  <2>1. h \in created' /\ h \in Gates /\ h # NoGate
    BY <1>3, <1>6, <2>0
  <2>2. /\ waiters' = [waiters EXCEPT ![h] = @ \cup {r}]
        /\ stamp' = [stamp EXCEPT ![r] = seq[h]]
        /\ seq' = [seq EXCEPT ![h] = @ + 1]
        /\ pc' = [pc EXCEPT ![r] = "waiting"]
        /\ gate' = [gate EXCEPT ![r] = h]
        /\ UNCHANGED inflight
    BY <1>6, <2>0 DEF Enqueue
  <2>3. /\ waiters' \in [Gates -> SUBSET Requests]
        /\ waiters'[h] = waiters[h] \cup {r}
        /\ \A g \in Gates \ {h} : waiters'[g] = waiters[g]
    BY <1>1, <2>1, <2>2 DEF TypeOK
  <2>4. /\ pc'[r] = "waiting" /\ gate'[r] = h
        /\ \A q \in Requests \ {r} : pc'[q] = pc[q] /\ gate'[q] = gate[q]
    BY <1>1, <2>2 DEF TypeOK
  <2>5. seq' \in [Gates -> Nat] /\ stamp' \in [Requests -> Nat]
    BY <1>1, <2>1, <2>2 DEF TypeOK
  <2>6. TypeOK'
    BY <1>1, <1>2, <1>3, <2>1, <2>2, <2>3, <2>5 DEF TypeOK, Places
  <2>7. \A g \in Gates : waiters[g] \subseteq Requests
    BY <1>1 DEF TypeOK
  <2>8. QueueInv'
    BY <1>1, <1>2, <2>1, <2>3, <2>4, <2>7, AdmissionAssumption DEF QueueInv, TypeOK
  <2>9. inflight \in [Gates -> Nat]
    BY <1>1 DEF TypeOK
  <2>10. inflight[h] = limit'[h]
    BY <1>3, <1>6, <2>0, <2>1, <2>9 DEF HasRoom
  <2>11. CountInv'
    BY <1>1, <1>3, <2>1, <2>2, <2>3, <2>10 DEF CountInv, FreshInv, WithinLimit, QueueOnlyWhenFull
  <2>12. \A g \in Gates : Holders(g)' = Holders(g)
    BY <1>2, <2>1, <2>3, <2>4, AdmissionAssumption DEF Holders
  <2>13. GateConserved'
    BY <1>1, <2>2, <2>12, SameOwners
  <2>14. QED
    BY <2>6, <2>8, <2>11, <2>13 DEF IInv
<1>7. QED
  BY <1>4, <1>5, <1>6 DEF Arrive

\* A timed-out request withdraws its ticket, or keeps the unit it was handed.
LEMMA ResumeExpiredStep ==
    ASSUME IInv, NEW r \in Requests, ResumeExpired(r)
    PROVE  IInv'
<1>1. TypeOK /\ QueueInv /\ CountInv /\ GateConserved
  BY DEF IInv
<1>2. pc[r] = "expired" /\ gate[r] # NoGate /\ gate[r] \in Gates
  BY <1>1 DEF ResumeExpired, QueueInv, TypeOK
<1>3. CASE r \in waiters[gate[r]]
  <2> DEFINE h == gate[r]
  <2>1. /\ waiters' = [waiters EXCEPT ![h] = @ \ {r}]
        /\ pc' = [pc EXCEPT ![r] = "refused"]
        /\ gate' = [gate EXCEPT ![r] = NoGate]
        /\ UNCHANGED <<cap, registry, created, limit, inflight, seq, stamp>>
    BY <1>3 DEF ResumeExpired
  <2>2. /\ waiters' \in [Gates -> SUBSET Requests]
        /\ waiters'[h] = waiters[h] \ {r}
        /\ \A g \in Gates \ {h} : waiters'[g] = waiters[g] /\ r \notin waiters[g]
    BY <1>1, <1>2, <2>1 DEF TypeOK, QueueInv
  <2>3. /\ pc'[r] = "refused" /\ gate'[r] = NoGate
        /\ \A q \in Requests \ {r} : pc'[q] = pc[q] /\ gate'[q] = gate[q]
    BY <1>1, <2>1 DEF TypeOK
  <2>4. TypeOK'
    BY <1>1, <2>1, <2>2 DEF TypeOK, Places, Final
  <2>5. \A g \in Gates : waiters[g] \subseteq Requests /\ waiters'[g] = waiters[g] \ {r}
    BY <1>1, <2>2 DEF TypeOK
  <2>6. QueueInv'
    <3>1. \A q \in Requests : gate[q] # NoGate => gate[q] \in Gates
      BY <1>1 DEF TypeOK
    <3>2. QED
      BY <1>1, <2>3, <2>5, <3>1 DEF QueueInv
  <2>7. CountInv'
    BY <1>1, <2>1, <2>5 DEF CountInv, FreshInv, WithinLimit, QueueOnlyWhenFull
  <2>8. \A g \in Gates : Holders(g)' = Holders(g)
    BY <1>3, <2>3, <2>5, AdmissionAssumption DEF Holders
  <2>9. GateConserved'
    BY <1>1, <2>1, <2>8, SameOwners
  <2>10. QED
    BY <2>4, <2>6, <2>7, <2>9 DEF IInv
<1>4. CASE r \notin waiters[gate[r]]
  <2>1. \A g \in Gates : r \notin waiters[g]
    BY <1>1, <1>4 DEF QueueInv
  <2>2. /\ pc' = [pc EXCEPT ![r] = "running"]
        /\ UNCHANGED <<cap, registry, created, limit, inflight, waiters, seq, gate, stamp>>
    BY <1>4 DEF ResumeExpired
  <2>3. "running" \in Places
    BY DEF Places
  <2>4. QED
    BY <2>1, <2>2, <2>3, PlaceOnly
<1>5. QED
  BY <1>3, <1>4

\* A request leaves its gate: the unit goes to the first waiter, or back.
LEMMA LeaveGateStep ==
    ASSUME IInv, NEW r \in Requests, NEW place \in {"done", "streaming"},
           pc[r] = "running", LeaveGate(r, place)
    PROVE  IInv'
<1>1. TypeOK /\ QueueInv /\ CountInv /\ GateConserved
  BY DEF IInv
<1>2. /\ gate' = [gate EXCEPT ![r] = NoGate]
      /\ UNCHANGED <<cap, registry, created, limit, seq, stamp>>
  BY DEF LeaveGate
<1>3. place \in Places /\ place \notin {"waiting", "granted", "expired", "running", "cancelled"}
  BY DEF Places, Final
<1>4. CASE gate[r] = NoGate
  <2>1. pc' = [pc EXCEPT ![r] = place] /\ UNCHANGED <<inflight, waiters>>
    BY <1>4 DEF LeaveGate
  <2>2. gate' = gate
    BY <1>1, <1>2, <1>4 DEF TypeOK
  <2>3. \A g \in Gates : r \notin waiters[g]
    BY <1>1 DEF QueueInv
  <2>4. QED
    BY <1>2, <1>3, <1>4, <2>1, <2>2, <2>3, PlaceOnly
<1>5. CASE gate[r] # NoGate
  <2>0. PICK g : g = gate[r]
    OBVIOUS
  <2> DEFINE places == [pc EXCEPT ![r] = place]
  <2>1. /\ g \in Gates /\ g \in created /\ r \in Holders(g) /\ gate[r] = g /\ g # NoGate
        /\ \A k \in Gates : r \notin waiters[k]
    BY <1>1, <1>5, <2>0 DEF TypeOK, QueueInv, Holders
  <2>2. /\ gate'[r] = NoGate
        /\ \A q \in Requests \ {r} : gate'[q] = gate[q]
        /\ gate' \in [Requests -> created \cup {NoGate}]
    BY <1>1, <1>2 DEF TypeOK
  <2>3. /\ inflight \in [Gates -> Nat]
        /\ \A k \in Gates : waiters[k] \subseteq Requests
        /\ \A q \in Requests : gate[q] # NoGate => gate[q] \in Gates
        /\ places \in [Requests -> Places] /\ places[r] = place
        /\ \A q \in Requests \ {r} : places[q] = pc[q]
    BY <1>1, <1>3 DEF TypeOK
  <2>4. CASE /\ waiters[g] = {}
             /\ inflight' = [inflight EXCEPT ![g] = IF @ > 0 THEN @ - 1 ELSE 0]
             /\ pc' = places
             /\ UNCHANGED waiters
    <3>1. Holders(g)' = Holders(g) \ {r}
      BY <2>1, <2>2, <2>4, AdmissionAssumption DEF Holders
    <3>2. \A k \in Gates \ {g} : Holders(k)' = Holders(k)
      BY <2>1, <2>2, <2>4, AdmissionAssumption DEF Holders
    <3>3. Cardinality(Holders(g)') = inflight[g] - 1
      BY <1>1, <2>1, <3>1, HoldersFinite, FS_RemoveElement DEF GateConserved
    <3>4. inflight[g] > 0
      <4>1. Cardinality(Holders(g)) # 0
        BY <2>1, HoldersFinite, FS_EmptySet
      <4>2. QED
        BY <1>1, <2>1, <2>3, <4>1 DEF GateConserved
    <3>5. /\ inflight' \in [Gates -> Nat]
          /\ inflight'[g] = inflight[g] - 1
          /\ \A k \in Gates \ {g} : inflight'[k] = inflight[k]
      BY <2>1, <2>3, <2>4, <3>4
    <3>6. TypeOK'
      BY <1>1, <1>2, <2>2, <2>3, <2>4, <3>5 DEF TypeOK
    <3>7. QueueInv'
      BY <1>1, <1>3, <2>1, <2>2, <2>3, <2>4 DEF QueueInv
    <3>8. limit \in [Gates -> Nat]
      BY <1>1 DEF TypeOK
    <3>9. CountInv'
      BY <1>1, <1>2, <2>1, <2>3, <2>4, <3>5, <3>8
         DEF CountInv, FreshInv, WithinLimit, QueueOnlyWhenFull
    <3>10. GateConserved'
      BY <1>1, <2>1, <3>2, <3>3, <3>5 DEF GateConserved
    <3>11. QED
      BY <3>6, <3>7, <3>9, <3>10 DEF IInv
  <2>5. ASSUME NEW w \in waiters[g],
               waiters' = [waiters EXCEPT ![g] = @ \ {w}],
               pc' = [places EXCEPT ![w] = IF @ = "waiting" THEN "granted" ELSE @],
               UNCHANGED inflight
        PROVE  IInv'
    <3>1. /\ w \in Requests /\ w # r /\ gate[w] = g /\ w \notin Holders(g)
          /\ pc[w] \in {"waiting", "expired", "cancelled"}
      BY <1>1, <2>1, <2>3, <2>5 DEF QueueInv, Holders
    <3>2. /\ waiters' \in [Gates -> SUBSET Requests]
          /\ waiters'[g] = waiters[g] \ {w}
          /\ \A k \in Gates \ {g} : waiters'[k] = waiters[k]
      BY <1>1, <2>1, <2>5 DEF TypeOK
    <3>3. /\ pc' \in [Requests -> Places]
          /\ pc'[r] = place
          /\ pc'[w] \in {"granted", "expired", "cancelled"}
          /\ \A q \in Requests \ {r, w} : pc'[q] = pc[q]
      <4>1. pc'[w] = IF pc[w] = "waiting" THEN "granted" ELSE pc[w]
        BY <2>3, <2>5, <3>1
      <4>2. pc'[w] \in {"granted", "expired", "cancelled"}
        BY <3>1, <4>1
      <4>3. pc' \in [Requests -> Places]
        BY <2>3, <2>5, <3>1 DEF Places, Final
      <4>4. QED
        BY <2>3, <2>5, <3>1, <4>2, <4>3
    <3>4. TypeOK'
      BY <1>1, <1>2, <2>2, <2>5, <3>2, <3>3 DEF TypeOK
    <3>5. \A k \in Gates : \A q \in waiters'[k] :
             q \in waiters[k] /\ q \in Requests \ {r, w}
      BY <1>1, <2>1, <2>3, <3>1, <3>2 DEF QueueInv
    <3>6. QueueInv'
      <4>1. \A k \in Gates : \A q \in waiters'[k] :
               gate'[q] = k /\ pc'[q] \in {"waiting", "expired", "cancelled"}
        BY <1>1, <2>2, <3>3, <3>5 DEF QueueInv
      <4>2. \A q \in Requests :
               gate'[q] # NoGate => pc'[q] \in {"waiting", "granted", "expired", "running", "cancelled"}
        BY <1>1, <2>2, <3>1, <3>3 DEF QueueInv
      <4>3. \A q \in Requests :
               /\ pc'[q] \in {"waiting", "granted", "expired"} => gate'[q] # NoGate
               /\ pc'[q] = "waiting" => q \in waiters'[gate'[q]]
        <5> SUFFICES ASSUME NEW q \in Requests
                     PROVE  /\ pc'[q] \in {"waiting", "granted", "expired"} => gate'[q] # NoGate
                            /\ pc'[q] = "waiting" => q \in waiters'[gate'[q]]
          OBVIOUS
        <5>1. CASE q = r
          BY <1>3, <3>3, <5>1
        <5>2. CASE q = w
          BY <2>1, <2>2, <3>1, <3>3, <5>2
        <5>3. CASE q \in Requests \ {r, w}
          <6>1. pc'[q] = pc[q] /\ gate'[q] = gate[q]
            BY <2>2, <3>3, <5>3
          <6>2. pc[q] = "waiting" => q \in waiters[gate[q]] /\ gate[q] \in Gates
            BY <1>1, <2>3 DEF QueueInv
          <6>3. QED
            BY <1>1, <3>2, <5>3, <6>1, <6>2 DEF QueueInv
        <5>4. QED
          BY <5>1, <5>2, <5>3
      <4>4. QED
        BY <4>1, <4>2, <4>3 DEF QueueInv
    <3>7. CountInv'
      BY <1>1, <1>2, <2>1, <2>5, <3>2 DEF CountInv, FreshInv, WithinLimit, QueueOnlyWhenFull
    <3>8. Holders(g)' = (Holders(g) \ {r}) \cup {w}
      BY <2>1, <2>2, <3>1, <3>2, AdmissionAssumption DEF Holders
    <3>9. \A k \in Gates \ {g} : Holders(k)' = Holders(k)
      BY <2>1, <2>2, <3>1, <3>2, AdmissionAssumption DEF Holders
    <3>10. Cardinality(Holders(g)') = Cardinality(Holders(g))
      BY <2>1, <3>1, <3>8, HoldersFinite, HandOver
    <3>11. GateConserved'
      BY <1>1, <2>1, <2>5, <3>9, <3>10 DEF GateConserved
    <3>12. QED
      BY <3>4, <3>6, <3>7, <3>11 DEF IInv
  <2>6. release(g, places)
    BY <1>5, <2>0 DEF LeaveGate
  <2>7. QED
    BY <2>4, <2>5, <2>6 DEF release
<1>6. QED
  BY <1>4, <1>5

\* Every step keeps the invariant.
LEMMA NextIInv == IInv /\ [Next]_vars => IInv'
<1> SUFFICES ASSUME IInv, [Next]_vars PROVE IInv'
  OBVIOUS
<1>1. CASE EditConfig
  <2>1. TypeOK'
    BY <1>1 DEF EditConfig, IInv, TypeOK
  <2>2. UNCHANGED <<registry, created, limit, inflight, waiters, seq, pc, gate, stamp>>
    BY <1>1 DEF EditConfig
  <2>3. \A g \in Gates : Holders(g)' = Holders(g)
    BY <2>2 DEF Holders
  <2>4. GateConserved'
    BY <2>2, <2>3, SameOwners DEF IInv
  <2>5. QED
    BY <2>1, <2>2, <2>4
       DEF IInv, QueueInv, CountInv, FreshInv, WithinLimit, QueueOnlyWhenFull
<1>2. ASSUME NEW r \in Requests, Arrive(r) PROVE IInv'
  BY <1>2, ArriveStep
<1>3. ASSUME NEW r \in Requests, Resume(r) PROVE IInv'
  <2>1. gate[r] # NoGate /\ \A g \in Gates : r \notin waiters[g]
    BY <1>3 DEF Resume, IInv, QueueInv
  <2>2. QED
    BY <1>3, <2>1, PlaceOnly DEF Resume, Places
<1>4. ASSUME NEW r \in Requests, TimerFires(r) PROVE IInv'
  BY <1>4, PlaceOnly DEF TimerFires, Places, IInv, QueueInv
<1>5. ASSUME NEW r \in Requests, ResumeExpired(r) PROVE IInv'
  BY <1>5, ResumeExpiredStep
<1>6. ASSUME NEW r \in Requests, Finish(r) PROVE IInv'
  BY <1>6, LeaveGateStep DEF Finish
<1>7. ASSUME NEW r \in Requests, ReturnStream(r) PROVE IInv'
  BY <1>7, LeaveGateStep DEF ReturnStream
<1>8. ASSUME NEW r \in Requests, StreamEnds(r) PROVE IInv'
  <2>1. gate[r] = NoGate /\ \A g \in Gates : r \notin waiters[g]
    BY <1>8 DEF StreamEnds, IInv, QueueInv
  <2>2. QED
    BY <1>8, <2>1, PlaceOnly DEF StreamEnds, Places, Final
<1>9. ASSUME NEW r \in Requests, Cancel(r) PROVE IInv'
  BY <1>9, PlaceOnly DEF Cancel, Places, Final, IInv, QueueInv
<1>10. CASE UNCHANGED vars
  <2>1. \A g \in Gates : Holders(g)' = Holders(g)
    BY <1>10 DEF Holders, vars
  <2>2. QED
    BY <1>10, <2>1
       DEF vars, IInv, TypeOK, QueueInv, CountInv, FreshInv, GateConserved, WithinLimit, QueueOnlyWhenFull
<1>11. QED
  BY <1>1, <1>2, <1>3, <1>4, <1>5, <1>6, <1>7, <1>8, <1>9, <1>10 DEF Next, Terminated

\* The variables of acquire, release and configure keep their types.
THEOREM TypeCorrect == Spec => []TypeOK
<1>1. IInv => TypeOK
  BY DEF IInv
<1>2. QED
  BY <1>1, InitIInv, NextIInv, PTL DEF Spec

\* No unit of a gate is lost or duplicated: release() hands it over without
\* touching the count, and the timeout branch of acquire keeps it.
THEOREM Conservation == Spec => []GateConserved
<1>1. IInv => GateConserved
  BY DEF IInv
<1>2. QED
  BY <1>1, InitIInv, NextIInv, PTL DEF Spec

\* A gate never has more owners than its max_inflight.
THEOREM Bounded == Spec => []GateBounded
<1>1. IInv => GateBounded
  BY DEF IInv, CountInv, GateBounded, GateConserved, WithinLimit
<1>2. QED
  BY <1>1, InitIInv, NextIInv, PTL DEF Spec

\* No lost wakeup: a ticket is queued only while every unit has an owner, who
\* will hand it over.
THEOREM NoLostWakeup == Spec => []QueueOnlyWhenFull
<1>1. IInv => QueueOnlyWhenFull
  BY DEF IInv, CountInv
<1>2. QED
  BY <1>1, InitIInv, NextIInv, PTL DEF Spec

\* What a step may do to the queues: a timed-out request withdraws its own
\* ticket, release() pops the first ticket of the gate that is left, acquire()
\* adds the ticket of a new request.
LEMMA QueueStep ==
    ASSUME IInv, [Next]_vars, NEW g \in Gates, NEW r \in waiters[g], r \notin waiters'[g]
    PROVE  pc[r] = "expired" \/ \A w \in waiters'[g] : Before(r, w)
<1>1. TypeOK /\ QueueInv /\ r \in Requests
  BY DEF IInv, TypeOK
<1>2. ASSUME NEW q \in Requests, Arrive(q) PROVE FALSE
  <2>1. UNCHANGED waiters \/ Enqueue(q, registry')
    BY <1>2 DEF Arrive, Admit
  <2> QED BY <1>1, <2>1 DEF Enqueue, TypeOK
<1>3. ASSUME NEW q \in Requests, ResumeExpired(q) PROVE pc[r] = "expired"
  <2>1. gate[q] \in Gates
    BY <1>1, <1>3 DEF ResumeExpired, TypeOK, QueueInv
  <2>2. q = r
    BY <1>1, <1>3, <2>1 DEF ResumeExpired, TypeOK
  <2> QED BY <1>3, <2>2 DEF ResumeExpired
<1>4. ASSUME NEW q \in Requests, NEW place, LeaveGate(q, place), gate[q] \in Gates \/ gate[q] = NoGate
      PROVE  \A w \in waiters'[g] : Before(r, w)
  <2>1. gate[q] \in Gates /\ release(gate[q], [pc EXCEPT ![q] = place])
    BY <1>4 DEF LeaveGate
  <2>2. PICK w \in waiters[gate[q]] :
          First(gate[q], w) /\ waiters' = [waiters EXCEPT ![gate[q]] = @ \ {w}]
    BY <2>1 DEF release
  <2>3. gate[q] = g /\ w = r /\ waiters'[g] = waiters[g] \ {r}
    BY <1>1, <2>1, <2>2 DEF TypeOK
  <2> QED BY <2>2, <2>3 DEF First
<1>5. ASSUME NEW q \in Requests, Finish(q) \/ ReturnStream(q)
      PROVE  \A w \in waiters'[g] : Before(r, w)
  <2>1. gate[q] \in Gates \/ gate[q] = NoGate
    BY <1>1 DEF TypeOK
  <2> QED BY <1>4, <1>5, <2>1 DEF Finish, ReturnStream
<1>6. ASSUME \/ EditConfig \/ UNCHANGED vars
             \/ \E q \in Requests : Resume(q) \/ TimerFires(q) \/ StreamEnds(q) \/ Cancel(q)
      PROVE  FALSE
  BY <1>6 DEF EditConfig, vars, Resume, TimerFires, StreamEnds, Cancel
<1> QED BY <1>2, <1>3, <1>5, <1>6 DEF Next, Terminated

\* Whoever is admitted on arrival finds nobody queued.
LEMMA NoOvertaking ==
    ASSUME IInv, [Next]_vars, NEW g \in Gates, NEW r \in Requests,
           pc[r] = "new", pc'[r] = "running", gate'[r] = g
    PROVE  waiters[g] = {}
<1>1. TypeOK /\ QueueInv /\ g # NoGate /\ gate[r] = NoGate
  BY AdmissionAssumption DEF IInv, QueueInv
<1>2. ASSUME NEW q \in Requests, Arrive(q) PROVE waiters[g] = {}
  <2>1. q = r
    BY <1>1, <1>2 DEF Arrive, Admit, Enqueue, TypeOK
  <2>2. registry' = g /\ HasRoom(registry')
    BY <1>1, <1>2, <2>1 DEF Arrive, Admit, Enqueue, TypeOK
  <2> QED BY <2>2 DEF HasRoom
<1>3. ASSUME NEW q \in Requests, NEW place, LeaveGate(q, place) PROVE gate'[r] = NoGate
  BY <1>1, <1>3 DEF LeaveGate, TypeOK
<1>4. ASSUME NEW q \in Requests, \/ Resume(q) \/ TimerFires(q) \/ StreamEnds(q) \/ Cancel(q)
                                 \/ ResumeExpired(q)
      PROVE  gate'[r] = NoGate
  BY <1>1, <1>4 DEF Resume, TimerFires, StreamEnds, Cancel, ResumeExpired, TypeOK
<1>5. ASSUME EditConfig \/ UNCHANGED vars PROVE gate'[r] = NoGate
  BY <1>1, <1>5 DEF EditConfig, vars
<1> QED BY <1>1, <1>2, <1>3, <1>4, <1>5 DEF Next, Terminated, Finish, ReturnStream

\* PRIORITY_DECISION before PRIORITY_DEFAULT and FIFO within a class, for every
\* interleaving of arrivals, timeouts, cancellations and releases: the ticket
\* release() grants was before every ticket left, and nobody is admitted past it.
THEOREM Ordered == Spec => PriorityOrder
<1>1. ASSUME IInv, [Next]_vars
      PROVE  [\A g \in Gates : \A r \in Requests :
                 /\ r \in waiters[g] /\ r \notin waiters'[g] /\ pc[r] # "expired"
                       => \A w \in waiters'[g] : Before(r, w)
                 /\ pc[r] = "new" /\ pc'[r] = "running" /\ gate'[r] = g
                       => waiters[g] = {}]_vars
  BY <1>1, QueueStep, NoOvertaking
<1> QED BY <1>1, InitIInv, NextIInv, PTL DEF Spec, PriorityOrder

\* A request that release() handed a unit is never answered with the 503 of
\* AdmissionTimeout, even when its timer fired before its task ran.
THEOREM GrantBeatsTimeout == Spec => GrantStands
<1>1. ASSUME IInv, [Next]_vars, NEW r \in Requests, gate[r] # NoGate, r \notin waiters[gate[r]]
      PROVE  pc'[r] # "refused"
  <2>1. TypeOK /\ QueueInv /\ gate[r] \in Gates /\ pc[r] # "refused"
    BY <1>1 DEF IInv, QueueInv, TypeOK
  <2>2. ASSUME NEW q \in Requests, NEW place \in {"done", "streaming"}, LeaveGate(q, place)
        PROVE  pc'[r] # "refused"
    <3>1. [pc EXCEPT ![q] = place] \in [Requests -> Places] /\ [pc EXCEPT ![q] = place][r] # "refused"
      BY <2>1 DEF TypeOK, Places, Final
    <3>2. CASE gate[q] = NoGate
      BY <2>2, <3>1, <3>2 DEF LeaveGate
    <3>3. CASE release(gate[q], [pc EXCEPT ![q] = place])
      BY <3>1, <3>3 DEF release
    <3> QED BY <2>2, <3>2, <3>3 DEF LeaveGate
  <2>3. ASSUME NEW q \in Requests, ResumeExpired(q) PROVE pc'[r] # "refused"
    BY <1>1, <2>1, <2>3 DEF ResumeExpired, TypeOK
  <2>4. ASSUME NEW q \in Requests, Arrive(q) PROVE pc'[r] # "refused"
    BY <2>1, <2>4 DEF Arrive, Admit, Enqueue, TypeOK
  <2>5. ASSUME NEW q \in Requests, Resume(q) \/ TimerFires(q) \/ StreamEnds(q) \/ Cancel(q)
        PROVE  pc'[r] # "refused"
    BY <2>1, <2>5 DEF Resume, TimerFires, StreamEnds, Cancel, TypeOK
  <2>6. ASSUME EditConfig \/ UNCHANGED vars PROVE pc'[r] # "refused"
    BY <2>1, <2>6 DEF EditConfig, vars
  <2> QED BY <1>1, <2>2, <2>3, <2>4, <2>5, <2>6 DEF Next, Terminated, Finish, ReturnStream
<1>2. ASSUME IInv, [Next]_vars
      PROVE  [\A r \in Requests : gate[r] # NoGate /\ r \notin waiters[gate[r]] => pc'[r] # "refused"]_vars
  BY <1>1, <1>2
<1> QED BY <1>2, InitIInv, NextIInv, PTL DEF Spec, GrantStands
============================================================================
