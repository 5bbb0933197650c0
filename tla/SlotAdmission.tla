--------------------------- MODULE SlotAdmission ---------------------------
(***************************************************************************)
(* The serial admission gate in front of a slot                            *)
(* (dispatcher/admission.py, ADR-0056) and the part of Dispatcher.forward  *)
(* that uses it.                                                           *)
(*                                                                         *)
(* One slot, many requests, all on one asyncio event loop.  An action is   *)
(* the code between two suspension points.  SlotAdmission._lock never      *)
(* suspends a caller (no await happens while it is held), so it does not   *)
(* appear.  AdmissionRegistry.configure replaces the SlotAdmission object  *)
(* when the cap changes; a gate here is one such object, and a request     *)
(* keeps the object it was admitted by.                                    *)
(***************************************************************************)
EXTENDS Integers, FiniteSets

CONSTANTS
    Requests,     \* the requests the slot receives
    Decision,     \* those of them with PRIORITY_DECISION; the others have PRIORITY_DEFAULT
    Streaming,    \* those answered with a StreamingResponse
    Cancellable,  \* those whose task may be cancelled while it waits for admission
    Caps,         \* the values effective_max_inflight can take
    NoCap,        \* ... one of which may be None
    Gates,        \* the SlotAdmission objects a behaviour may create
    NoGate        \* no such object

ASSUME AdmissionAssumption ==
    /\ IsFiniteSet(Requests)
    /\ Decision \subseteq Requests
    /\ Streaming \subseteq Requests
    /\ Cancellable \subseteq Requests
    /\ NoCap \notin Nat
    /\ Caps \subseteq (Nat \ {0}) \cup {NoCap}
    /\ NoGate \notin Gates

VARIABLES
    cap,       \* what SlotManager.effective_max_inflight reads from the slot TOML
    registry,  \* AdmissionRegistry._slots[slot]: a gate, or NoGate for no entry
    created,   \* the gates created so far
    limit,     \* limit[g]: SlotAdmission.max_inflight
    inflight,  \* inflight[g]: SlotAdmission._inflight
    waiters,   \* waiters[g]: the requests whose tickets are in SlotAdmission._waiters
    seq,       \* seq[g]: the next value of SlotAdmission._seq
    pc,        \* pc[r]: where request r is
    gate,      \* gate[r]: the gate r holds or waits at, or NoGate
    stamp      \* stamp[r]: the sequence number in r's ticket

vars == <<cap, registry, created, limit, inflight, waiters, seq, pc, gate, stamp>>

(***************************************************************************)
(* waiting    suspended on its ticket's event                              *)
(* granted    the event is set, the task has not run yet                   *)
(* expired    admission_wait_timeout_s fired, the task has not run yet     *)
(* running    past the gate, the backend works on the request              *)
(* streaming  forward has returned a StreamingResponse that the client is  *)
(*            still reading                                                *)
(* refused    AdmissionTimeout, answered 503                               *)
(* cancelled  CancelledError left acquire                                  *)
(***************************************************************************)
Final == {"done", "refused", "cancelled"}
Places == {"new", "waiting", "granted", "expired", "running", "streaming"} \cup Final

priority(r) == IF r \in Decision THEN 0 ELSE 1

\* _Ticket.sort_key order: priority first, then arrival.
Before(r, s) ==
    \/ priority(r) < priority(s)
    \/ priority(r) = priority(s) /\ stamp[r] < stamp[s]

Init ==
    /\ cap \in Caps
    /\ registry = NoGate
    /\ created = {}
    /\ limit = [g \in Gates |-> 0]
    /\ inflight = [g \in Gates |-> 0]
    /\ waiters = [g \in Gates |-> {}]
    /\ seq = [g \in Gates |-> 0]
    /\ pc = [r \in Requests |-> "new"]
    /\ gate = [r \in Requests |-> NoGate]
    /\ stamp = [r \in Requests |-> 0]

----------------------------------------------------------------------------
(* Registry *)

\* The operator edits [slot].max_inflight (or the slot's provider).
EditConfig ==
    /\ cap' \in Caps \ {cap}
    /\ UNCHANGED <<registry, created, limit, inflight, waiters, seq, pc, gate, stamp>>

\* AdmissionRegistry.configure keeps the object when the cap is the one it has.
SameCap == registry # NoGate /\ limit[registry] = cap

configure ==
    \/ /\ cap = NoCap
       /\ registry' = NoGate
       /\ UNCHANGED <<created, limit>>
    \/ /\ cap # NoCap
       /\ SameCap
       /\ UNCHANGED <<registry, created, limit>>
    \/ /\ cap # NoCap
       /\ ~SameCap
       /\ \E g \in Gates \ created :
             /\ created' = created \cup {g}
             /\ registry' = g
             /\ limit' = [limit EXCEPT ![g] = cap]

----------------------------------------------------------------------------
(* Requests *)

\* Mutant: one request too many.
HasRoomOffByOne(g) == inflight[g] <= limit'[g] /\ waiters[g] = {}

\* SlotAdmission.acquire admits at once when there is room and nobody waits.
HasRoom(g) == inflight[g] < limit'[g] /\ waiters[g] = {}

Admit(r, g) ==
    /\ inflight' = [inflight EXCEPT ![g] = @ + 1]
    /\ pc' = [pc EXCEPT ![r] = "running"]
    /\ gate' = [gate EXCEPT ![r] = g]
    /\ UNCHANGED <<waiters, seq, stamp>>

Enqueue(r, g) ==
    /\ waiters' = [waiters EXCEPT ![g] = @ \cup {r}]
    /\ stamp' = [stamp EXCEPT ![r] = seq[g]]
    /\ seq' = [seq EXCEPT ![g] = @ + 1]
    /\ pc' = [pc EXCEPT ![r] = "waiting"]
    /\ gate' = [gate EXCEPT ![r] = g]
    /\ UNCHANGED inflight

\* _admission_for, then AdmissionRegistry.acquire up to its first suspension:
\* the cap lookup, configure and acquire's critical section are one step.
Arrive(r) ==
    /\ pc[r] = "new"
    /\ configure
    /\ \/ /\ registry' = NoGate
          /\ pc' = [pc EXCEPT ![r] = "running"]
          /\ UNCHANGED <<inflight, waiters, seq, gate, stamp>>
       \/ registry' # NoGate /\ HasRoom(registry') /\ Admit(r, registry')
       \/ registry' # NoGate /\ ~HasRoom(registry') /\ Enqueue(r, registry')
    /\ UNCHANGED cap

\* The granted task runs: ticket.event.wait() returns and the body starts.
Resume(r) ==
    /\ pc[r] = "granted"
    /\ pc' = [pc EXCEPT ![r] = "running"]
    /\ UNCHANGED <<cap, registry, created, limit, inflight, waiters, seq, gate, stamp>>

\* wait_for's timer fires, before or after release() has set the event.
TimerFires(r) ==
    /\ pc[r] \in {"waiting", "granted"}
    /\ pc' = [pc EXCEPT ![r] = "expired"]
    /\ UNCHANGED <<cap, registry, created, limit, inflight, waiters, seq, gate, stamp>>

\* Mutant: a timeout refuses without looking whether the ticket was granted.
ResumeExpiredAlwaysRefuses(r) ==
    /\ pc[r] = "expired"
    /\ waiters' = [waiters EXCEPT ![gate[r]] = @ \ {r}]
    /\ pc' = [pc EXCEPT ![r] = "refused"]
    /\ gate' = [gate EXCEPT ![r] = NoGate]
    /\ UNCHANGED <<cap, registry, created, limit, inflight, seq, stamp>>

\* The except TimeoutError branch: a ticket still queued is withdrawn and the
\* request refused; one that release() popped meanwhile was granted.
ResumeExpired(r) ==
    /\ pc[r] = "expired"
    /\ IF r \in waiters[gate[r]]
         THEN /\ waiters' = [waiters EXCEPT ![gate[r]] = @ \ {r}]
              /\ pc' = [pc EXCEPT ![r] = "refused"]
              /\ gate' = [gate EXCEPT ![r] = NoGate]
         ELSE /\ pc' = [pc EXCEPT ![r] = "running"]
              /\ UNCHANGED <<waiters, gate>>
    /\ UNCHANGED <<cap, registry, created, limit, inflight, seq, stamp>>

\* Mutant: the latest ticket is served first.
FirstIsLatest(g, w) == \A v \in waiters[g] \ {w} : Before(v, w)

\* w's ticket is the one waiters.pop(0) takes from the sorted list.
First(g, w) == \A v \in waiters[g] \ {w} : Before(w, v)

\* Mutant: the count drops and the queue is left for a later arrival.
ReleaseForgetsQueue(g, places) ==
    /\ inflight' = [inflight EXCEPT ![g] = IF @ > 0 THEN @ - 1 ELSE 0]
    /\ pc' = places
    /\ UNCHANGED waiters

\* SlotAdmission.release: the first waiter is handed the unit and its task
\* becomes runnable (one whose timer fired is runnable already, one that was
\* cancelled never runs again); with nobody queued the count drops.
release(g, places) ==
    \/ /\ waiters[g] = {}
       /\ inflight' = [inflight EXCEPT ![g] = IF @ > 0 THEN @ - 1 ELSE 0]
       /\ pc' = places
       /\ UNCHANGED waiters
    \/ \E w \in waiters[g] :
       /\ First(g, w)
       /\ waiters' = [waiters EXCEPT ![g] = @ \ {w}]
       /\ pc' = [places EXCEPT ![w] = IF @ = "waiting" THEN "granted" ELSE @]
       /\ UNCHANGED inflight

\* The finally of AdmissionRegistry.acquire; a slot without a cap has no gate.
LeaveGate(r, place) ==
    /\ \/ /\ gate[r] = NoGate
          /\ pc' = [pc EXCEPT ![r] = place]
          /\ UNCHANGED <<inflight, waiters>>
       \/ /\ gate[r] # NoGate
          /\ release(gate[r], [pc EXCEPT ![r] = place])
    /\ gate' = [gate EXCEPT ![r] = NoGate]
    /\ UNCHANGED <<cap, registry, created, limit, seq, stamp>>

\* forward ends: the answer is complete, or a typed error was raised.
Finish(r) == pc[r] = "running" /\ LeaveGate(r, "done")

\* forward returns a StreamingResponse: `return` leaves the admission context
\* while the body iterator, and so the backend, is still producing.
ReturnStream(r) ==
    /\ pc[r] = "running"
    /\ r \in Streaming
    /\ LeaveGate(r, "streaming")

StreamEnds(r) ==
    /\ pc[r] = "streaming"
    /\ pc' = [pc EXCEPT ![r] = "done"]
    /\ UNCHANGED <<cap, registry, created, limit, inflight, waiters, seq, gate, stamp>>

\* The task is cancelled inside acquire, which catches only TimeoutError: the
\* ticket stays where it is and the context was never entered.
Cancel(r) ==
    /\ r \in Cancellable
    /\ pc[r] \in {"waiting", "granted"}
    /\ pc' = [pc EXCEPT ![r] = "cancelled"]
    /\ UNCHANGED <<cap, registry, created, limit, inflight, waiters, seq, gate, stamp>>

AllDone == \A r \in Requests : pc[r] \in Final

\* Nothing is left to do; stated so that a real deadlock is one.
Terminated == AllDone /\ UNCHANGED vars

Next ==
    \/ EditConfig
    \/ \E r \in Requests :
          \/ Arrive(r)
          \/ Resume(r)
          \/ TimerFires(r)
          \/ ResumeExpired(r)
          \/ Finish(r)
          \/ ReturnStream(r)
          \/ StreamEnds(r)
          \/ Cancel(r)
    \/ Terminated

\* A runnable task runs, and a backend answers in the end (forward bounds every
\* read).  Nothing obliges a timer to fire before an answer, a client to
\* cancel or an operator to edit a file.
Fairness ==
    \A r \in Requests :
        /\ WF_vars(Resume(r))
        /\ WF_vars(ResumeExpired(r))
        /\ WF_vars(Finish(r))
        /\ WF_vars(StreamEnds(r))

Spec == Init /\ [][Next]_vars /\ Fairness

----------------------------------------------------------------------------
(* Properties *)

TypeOK ==
    /\ cap \in Caps
    /\ created \subseteq Gates
    /\ registry \in created \cup {NoGate}
    /\ limit \in [Gates -> Nat]
    /\ inflight \in [Gates -> Nat]
    /\ waiters \in [Gates -> SUBSET Requests]
    /\ seq \in [Gates -> Nat]
    /\ pc \in [Requests -> Places]
    /\ gate \in [Requests -> created \cup {NoGate}]
    /\ stamp \in [Requests -> Nat]

\* The requests that own one unit of gate g: in its body, or handed it by
\* release() and not resumed yet.
Holders(g) ==
    {r \in Requests : gate[r] = g /\ r \notin waiters[g]}

\* release() moves a unit from the leaving request to the best waiter without
\* touching the count, and acquire's timeout branch decides by the queue alone
\* whether it was granted.  However timers, grants and releases interleave,
\* the count is the number of requests that own a unit, and no unit is lost.
GateConserved == \A g \in Gates : inflight[g] = Cardinality(Holders(g))

\* A gate never lets more requests through than its cap, the ones granted in
\* the race with their timeout included.
GateBounded == \A g \in Gates : Cardinality(Holders(g)) <= limit[g]

\* No lost wakeup: while a ticket is queued the gate is full, so a later
\* release() will find it.
QueueOnlyWhenFull ==
    \A g \in Gates : waiters[g] # {} => inflight[g] = limit[g]

\* "PRIORITY_DECISION always jumps ahead of PRIORITY_DEFAULT, FIFO within a
\* class": whoever release() grants was before every ticket left in the queue,
\* and nobody who arrives while a ticket is queued is admitted ahead of it.
PriorityOrder ==
    [][\A g \in Gates : \A r \in Requests :
          /\ r \in waiters[g] /\ r \notin waiters'[g] /\ pc[r] # "expired"
                => \A w \in waiters'[g] : Before(r, w)
          /\ pc[r] = "new" /\ pc'[r] = "running" /\ gate'[r] = g
                => waiters[g] = {}]_vars

\* A request that owns a unit of the gate is not answered with the 503 of
\* AdmissionTimeout: a grant that beats the timeout stands.
GrantStands ==
    [][\A r \in Requests :
          gate[r] # NoGate /\ r \notin waiters[gate[r]] => pc'[r] # "refused"]_vars

\* Every queued request is let through or refused, even if no timer ever
\* fires: each release() finds the queue, so the gate never stalls.  Unless a
\* queued task was cancelled: acquire() then leaves its ticket to be granted.
EveryTicketSettles ==
    \A r \in Requests :
        pc[r] = "waiting" ~> pc[r] \in {"running", "refused"}
                             \/ \E q \in Requests : pc[q] = "cancelled"

\* What admission.py promises the backend: the requests the backend works on,
\* streams included, never exceed the cap in force.
Busy == {r \in Requests : pc[r] \in {"running", "streaming"}}

BackendSerial ==
    cap = NoCap \/ Cardinality(Busy) <= cap
============================================================================
