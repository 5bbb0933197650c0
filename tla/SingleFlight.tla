---------------------------- MODULE SingleFlight ----------------------------
(***************************************************************************)
(* SingleFlightGroup.do (dispatcher/single_flight.py) for one key: the     *)
(* coalescing of concurrent /v1/models prefetches of one upstream.  Keys   *)
(* do not interact.  A flight is one asyncio.Future, installed by the      *)
(* caller that leads it.                                                   *)
(***************************************************************************)
EXTENDS Integers

CONSTANTS
    Callers,     \* the coroutines that call do()
    Impatient    \* those whose task is cancelled if the call takes too long
                 \* (the legs of _cold_prefetch, under its wait_for)

None == "none"

ASSUME SingleFlightAssumption == Impatient \subseteq Callers /\ None \notin Callers

VARIABLES
    inflight,  \* _inflight[key]: the caller that leads the flight there, or None
    future,    \* future[c]: the Future that c installed
    pc,        \* pc[c]: where caller c is
    flight,    \* flight[c]: the leader whose Future c awaits or holds
    outcome    \* outcome[c]: what do() gave c

vars == <<inflight, future, pc, flight, outcome>>

\* absent   not created;  cancelled also stands for a CancelledError set as the exception
Futures == {"absent", "pending", "result", "error", "cancelled"}
Outcomes == {None, "result", "error", "cancelled"}

\* aborted: the caller's own task was cancelled; returned: do() ended by itself
Places == {"idle", "leading", "following", "returned", "aborted"}

Init ==
    /\ inflight = None
    /\ future = [c \in Callers |-> "absent"]
    /\ pc = [c \in Callers |-> "idle"]
    /\ flight = [c \in Callers |-> None]
    /\ outcome = [c \in Callers |-> None]

\* Mutant: the Future is not installed before fn is awaited.
LeadUnannounced(c) ==
    /\ pc[c] = "idle"
    /\ inflight = None
    /\ future' = [future EXCEPT ![c] = "pending"]
    /\ flight' = [flight EXCEPT ![c] = c]
    /\ pc' = [pc EXCEPT ![c] = "leading"]
    /\ UNCHANGED <<inflight, outcome>>

\* No flight for the key: install a Future and await fn.
Lead(c) ==
    /\ pc[c] = "idle"
    /\ inflight = None
    /\ inflight' = c
    /\ future' = [future EXCEPT ![c] = "pending"]
    /\ flight' = [flight EXCEPT ![c] = c]
    /\ pc' = [pc EXCEPT ![c] = "leading"]
    /\ UNCHANGED outcome

\* A flight is in the map: await its Future, whatever the state that is in.
Follow(c) ==
    /\ pc[c] = "idle"
    /\ inflight # None
    /\ flight' = [flight EXCEPT ![c] = inflight]
    /\ pc' = [pc EXCEPT ![c] = "following"]
    /\ UNCHANGED <<inflight, future, outcome>>

\* Mutant: an exception of fn is raised to the leader only.
SettleSwallowsError(c, how, place) ==
    /\ future' = [future EXCEPT ![c] = IF @ = "pending" /\ how = "result" THEN how ELSE @]
    /\ inflight' = None
    /\ outcome' = [outcome EXCEPT ![c] = how]
    /\ pc' = [pc EXCEPT ![c] = place]
    /\ UNCHANGED flight

\* Mutant: a failed fn resolves the Future as well.
SettleAsResult(c, how, place) ==
    /\ future' = [future EXCEPT ![c] = IF @ = "pending" THEN "result" ELSE @]
    /\ inflight' = None
    /\ outcome' = [outcome EXCEPT ![c] = how]
    /\ pc' = [pc EXCEPT ![c] = place]
    /\ UNCHANGED flight

\* fn is over: the Future gets its outcome unless it is done already, and the
\* key is evicted.  No suspension in between.
Settle(c, how, place) ==
    /\ future' = [future EXCEPT ![c] = IF @ = "pending" THEN how ELSE @]
    /\ inflight' = None
    /\ outcome' = [outcome EXCEPT ![c] = how]
    /\ pc' = [pc EXCEPT ![c] = place]
    /\ UNCHANGED flight

FnReturns(c) == pc[c] = "leading" /\ Settle(c, "result", "returned")

FnRaises(c) == pc[c] = "leading" /\ Settle(c, "error", "returned")

\* The leader's task is cancelled while fn runs: except BaseException.
CancelLeader(c) ==
    /\ c \in Impatient
    /\ pc[c] = "leading"
    /\ Settle(c, "cancelled", "aborted")

\* A follower's task is cancelled.  Task.cancel cancels the Future the task
\* awaits, and that is the shared one.
CancelFollower(c) ==
    /\ c \in Impatient
    /\ pc[c] = "following"
    /\ future[flight[c]] = "pending"
    /\ future' = [future EXCEPT ![flight[c]] = "cancelled"]
    /\ pc' = [pc EXCEPT ![c] = "aborted"]
    /\ outcome' = [outcome EXCEPT ![c] = "cancelled"]
    /\ UNCHANGED <<inflight, flight>>

\* The Future is done and the follower runs.
Receive(c) ==
    /\ pc[c] = "following"
    /\ future[flight[c]] # "pending"
    /\ outcome' = [outcome EXCEPT ![c] = future[flight[c]]]
    /\ pc' = [pc EXCEPT ![c] = "returned"]
    /\ UNCHANGED <<inflight, future, flight>>

Terminated ==
    /\ \A c \in Callers : pc[c] \in {"returned", "aborted"}
    /\ UNCHANGED vars

Next ==
    \/ \E c \in Callers :
          \/ Lead(c)
          \/ Follow(c)
          \/ FnReturns(c)
          \/ FnRaises(c)
          \/ CancelLeader(c)
          \/ CancelFollower(c)
          \/ Receive(c)
    \/ Terminated

\* fn ends (fetch_models has its own HTTP timeout) and a runnable task runs.
Fairness ==
    \A c \in Callers :
        /\ WF_vars(FnReturns(c) \/ FnRaises(c))
        /\ WF_vars(Receive(c))

Spec == Init /\ [][Next]_vars /\ Fairness

----------------------------------------------------------------------------

\* Every variable keeps its type: nobody is handed a Future that is not done.
TypeOK ==
    /\ inflight \in Callers \cup {None}
    /\ future \in [Callers -> Futures]
    /\ pc \in [Callers -> Places]
    /\ flight \in [Callers -> Callers \cup {None}]
    /\ outcome \in [Callers -> Outcomes]

\* "Only one HTTP call is made": fn never runs twice at once for a key, a key
\* whose Future was cancelled by a follower included.
OneCallPerKey ==
    \A c, d \in Callers : pc[c] = "leading" /\ pc[d] = "leading" => c = d

\* The map holds a flight exactly as long as its leader runs fn: nobody joins a
\* finished flight, so no caller gets an answer older than its own call.
MapHoldsTheRunningFlight ==
    \A c \in Callers : inflight = c <=> pc[c] = "leading"

\* Every do() ends: neither an error, a cancelled leader nor a cancelled
\* follower strands the others.
EveryCallEnds ==
    \A c \in Callers : pc[c] = "following" ~> pc[c] \in {"returned", "aborted"}

\* "Suspends until the original call resolves, then returns (or raises) the
\* same value/exception": a follower gets what its leader got, unless a caller
\* that shared the Future was cut off, which cancels it for all of them.
SharedOutcome ==
    \A c \in Callers :
        /\ pc[c] = "returned" /\ flight[c] # c
        /\ \A d \in Callers : pc[d] = "aborted" /\ flight[d] = flight[c] => d = flight[c]
        => outcome[c] = outcome[flight[c]]

=============================================================================
