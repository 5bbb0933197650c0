----------------------------- MODULE RunWatcher -----------------------------
(***************************************************************************)
(* One run that a bridge client has delegated to Hermes: the watcher that  *)
(* tails its events into the ledger (bridge/watcher.py), the operator's    *)
(* approval inbox (mcp/approval_queue.py), the client's stop_run and       *)
(* answer_run, and the re-attach after a restart (bridge/service.py).      *)
(*                                                                         *)
(* The ledger is durable; inbox, watcher and timers are in memory. One     *)
(* event loop: an action is the code between two suspensions, and a        *)
(* section of one transaction under the run's lock is one action. The      *)
(* inbox suspends nowhere but in its executors. Hermes is external: it     *)
(* numbers its events and replays those after Last-Event-ID.               *)
(***************************************************************************)
EXTENDS Naturals, Sequences, FiniteSets

CONSTANTS
    MaxEvents,               \* events that Hermes starts by itself before it only reacts
    Deciders,                \* the operator's approve and deny calls
    Clients,                 \* the client's calls: stop_run or answer_run
    Faults, MaxFaults,       \* "stream": no connection, or one that breaks; "post": a post
                             \* or its answer is lost; "ledger": an access to the ledger
                             \* fails; "forget": Hermes restarts without the run;
                             \* "crash": hal0-api restarts
    Nobody

Calls == Deciders \cup Clients

ASSUME BridgeConstants ==
    /\ MaxEvents \in Nat /\ MaxFaults \in Nat
    /\ Faults \subseteq {"stream", "post", "ledger", "forget", "crash"}
    /\ Deciders \cap Clients = {}
    /\ {Nobody, "watcher", "boot"} \cap Calls = {} /\ Nobody \notin {"watcher", "boot"}

VARIABLES
    log,          \* Hermes's events: "text", "ask", "settled", "question", "answered",
                  \* "stopping" and "end"; an event's sequence number is its index
    asking,       \* the request Hermes waits on, by its sequence number, or 0
    hermes,       \* the run there: "going", "stopping", "over" or "gone" (404)
    row,          \* the run's row in the ledger
    inbox,        \* the entries of the approval queue, in the order they were made
    dedup,        \* _dedup of the run, or 0
    filed,        \* the entry that the holder of the lock has just filed
    tail,         \* the watcher's _Tail: what it has stored, and its delta buffer
    pos, moved,   \* the stream: the last frame received, and whether one was new
    wpc, retire,  \* the watcher's place, and the entry it is about to withdraw
    ending,       \* the end it is recording; caught: a failure is retried by _follow
    timer, fired, stopper,   \* the clarify timer, the deadlines past, _deliver_stop
    lock,         \* the run's lock, when it is held across a suspension
    pc, of,       \* the calls, and the request (or entry) that each is about
    boot,         \* reattach: "probe", "storing" or "done"
    faults,
    orphans,      \* history: the entries whose id could not be stored in the row
    dropped       \* history: the requests that a failed access has left without an entry
                  \* of their own, or without their timer

hermesVars == <<log, asking, hermes>>
queue == <<inbox, dedup>>
stream == <<pos, moved>>
watch == <<tail, stream, wpc, retire, ending>>
clocks == <<timer, fired, stopper>>
calls == <<pc, of>>
history == <<orphans, dropped>>
vars == <<hermesVars, row, queue, filed, watch, clocks, lock, calls, boot, faults, history>>

-----------------------------------------------------------------------------
Terminal == {"ended", "unknown"}
Live == row.status \notin Terminal
Requests == {n \in DOMAIN log : log[n] \in {"ask", "question"}}
PendingIs(kind) == row.pending # 0 /\ log[row.pending] = kind

\* The request that a settled event names: the one Hermes was waiting on.
RequestBefore(n) == CHOOSE r \in Requests : r < n /\ \A q \in Requests : q < n => q <= r

\* The text among the first n events, and the whole of it as Hermes sends it at the end.
Texts(n) == {i \in 1..n : log[i] = "text"}
Transcript == SelectSeq([i \in DOMAIN log |-> i], LAMBDA i : log[i] = "text")

Fault(f) == f \in Faults /\ faults < MaxFaults /\ faults' = faults + 1

\* _Tail.of, and the state before any watcher.
TailOf(r) == [last |-> r.last, out |-> r.out, buf |-> <<>>, stop |-> r.stop]

\* Mutant: only what is stored counts as handled.
SeenStored == tail.last

\* The highest sequence number handled, stored or still in the buffer.
Seen == IF tail.buf = <<>> THEN tail.last ELSE tail.buf[Len(tail.buf)]

\* Mutant: the retry joins the entry whose decision failed.
EnqueueJoining(r) ==
    LET same == {i \in DOMAIN inbox : inbox[i] = [req |-> r, state |-> "decided"]} IN
    IF same # {}
    THEN (\E i \in same : filed' = i) /\ UNCHANGED queue
    ELSE /\ inbox' = Append(inbox, [req |-> r, state |-> "pending"])
         /\ filed' = Len(inbox) + 1 /\ dedup' = Len(inbox) + 1

\* ApprovalQueue.enqueue for this run: one pending entry at most.
Enqueue(r) ==
    IF dedup # 0 /\ inbox[dedup].state = "pending"
    THEN filed' = dedup /\ UNCHANGED queue
    ELSE /\ inbox' = Append(inbox, [req |-> r, state |-> "pending"])
         /\ filed' = Len(inbox) + 1 /\ dedup' = Len(inbox) + 1

\* ApprovalQueue.withdraw
Withdraw(i) ==
    IF i \in DOMAIN inbox /\ inbox[i].state = "pending"
    THEN inbox' = [inbox EXCEPT ![i].state = "failed"] /\ dedup' = 0
    ELSE UNCHANGED queue

\* _clear_pending: the pending request has been answered.
Cleared == [row EXCEPT !.pending = 0, !.entry = 0,
                       !.status = IF @ \in {"approval", "clarification"} THEN "running" ELSE @]

\* _file_in_inbox, once the entry is there: _store_approval_id. A failure is only logged,
\* and nothing in the row leads to the entry.
StoreApprovalId(r) ==
    /\ \/ /\ row' = IF Live /\ row.pending = r THEN [row EXCEPT !.entry = filed] ELSE row
          /\ UNCHANGED <<history, faults>>
       \/ /\ Fault("ledger") /\ orphans' = orphans \cup {filed} /\ UNCHANGED <<row, dropped>>
    /\ filed' = 0

\* The request joins an entry that was orphaned, and gets none of its own.
Swallowed(r) ==
    dedup \in orphans /\ inbox[dedup].state = "pending" /\ inbox[dedup].req # r

NoEnding == [status |-> "running", seq |-> 0, caught |-> TRUE]

Init ==
    /\ log = <<>> /\ asking = 0 /\ hermes = "going"
    /\ row = [status |-> "running", pending |-> 0, entry |-> 0, last |-> 0, out |-> <<>>,
              stop |-> FALSE]
    /\ inbox = <<>> /\ dedup = 0 /\ filed = 0
    /\ tail = TailOf(row) /\ pos = 0 /\ moved = FALSE /\ wpc = "connect" /\ retire = 0
    /\ ending = NoEnding
    /\ timer = 0 /\ fired = {} /\ stopper = "off" /\ lock = Nobody
    /\ pc = [c \in Calls |-> "new"] /\ of = [c \in Calls |-> 0]
    /\ boot = "done" /\ faults = 0 /\ orphans = {} /\ dropped = {}

-----------------------------------------------------------------------------
(* Hermes (external) *)

\* Text, a request, or the end of the wait for one without an answer from here.
Works ==
    /\ hermes = "going" /\ Len(log) < MaxEvents
    /\ \/ log' = Append(log, "text") /\ UNCHANGED asking
       \/ \E kind \in {"ask", "question"} :
              log' = Append(log, kind) /\ asking' = Len(log) + 1
       \/ /\ asking # 0 /\ asking' = 0
          /\ log' = Append(log, IF log[asking] = "ask" THEN "settled" ELSE "answered")
    /\ UNCHANGED <<hermes, faults>>

Ends == /\ hermes \in {"going", "stopping"}
        /\ log' = Append(log, "end") /\ asking' = 0 /\ hermes' = "over"
        /\ UNCHANGED faults

Forgets == /\ hermes # "gone" /\ Fault("forget")
           /\ hermes' = "gone" /\ asking' = 0 /\ UNCHANGED log

Hermes ==
    /\ Works \/ Ends \/ Forgets
    /\ UNCHANGED <<row, queue, filed, watch, clocks, lock, calls, boot, history>>

\* What a post does there: a stop ends a run's wait, and an answer is taken for the
\* request that the run waits on.
TakesStop ==
    IF hermes = "going"
    THEN hermes' = "stopping" /\ asking' = 0 /\ log' = Append(log, "stopping")
    ELSE UNCHANGED hermesVars
TakesAnswer(r) ==
    /\ asking' = 0 /\ UNCHANGED hermes
    /\ log' = Append(log, IF log[r] = "ask" THEN "settled" ELSE "answered")

-----------------------------------------------------------------------------
(* _follow: the connection *)

\* _ensure_stop
EnsureStop(t) == stopper' = IF t.stop /\ stopper = "off" THEN "posting" ELSE stopper

\* Hermes may no longer replay the events of a finished run.
Connects ==
    /\ wpc = "connect" /\ EnsureStop(tail)
    /\ \/ /\ hermes # "gone" /\ wpc' = "stream" /\ moved' = FALSE
          /\ pos' \in {tail.last} \cup (IF hermes = "over" THEN {Len(log)} ELSE {})
          /\ UNCHANGED faults
       \/ hermes = "gone" /\ wpc' = "refused" /\ UNCHANGED <<stream, faults>>
       \/ Fault("stream") /\ wpc' = "down" /\ UNCHANGED stream
    /\ UNCHANGED <<tail, retire, ending, timer, fired>>

\* The stream ends, when Hermes has sent what it has, or breaks.
StreamEnds ==
    /\ wpc = "stream"
    /\ \/ pos = Len(log) /\ wpc' = "closed" /\ UNCHANGED faults
       \/ Fault("stream") /\ wpc' = "broken"
    /\ UNCHANGED <<tail, stream, retire, ending, clocks>>

\* Mutant: a quiet end is always retried.
StreamOverQuiet ==
    /\ wpc \in {"closed", "broken", "down"} /\ tail.buf = <<>>
    /\ wpc' = "retry" /\ pos' = 0 /\ moved' = FALSE
    /\ UNCHANGED <<tail, retire, ending, clocks, faults>>

\* After the flush: a quiet end without news asks for the run's snapshot, and
\* anything else is retried after the backoff.
StreamOver ==
    /\ wpc \in {"closed", "broken", "down"} /\ tail.buf = <<>>
    /\ wpc' = IF wpc = "closed" /\ ~moved THEN "snapshot" ELSE "retry"
    /\ pos' = 0 /\ moved' = FALSE
    /\ UNCHANGED <<tail, retire, ending, clocks, faults>>

Retries ==
    /\ \/ wpc = "retry" /\ wpc' = "connect" /\ UNCHANGED faults
       \/ wpc = "snapshot" /\ hermes \notin {"over", "gone"} /\ wpc' = "retry" /\ UNCHANGED faults
       \/ wpc = "snapshot" /\ Fault("stream") /\ wpc' = "retry"
    /\ UNCHANGED <<tail, stream, retire, ending, clocks>>

\* A delta is buffered; a frame that was handled before is passed over.
TakesText ==
    /\ wpc = "stream" /\ pos < Len(log) /\ pos' = pos + 1
    /\ \/ pos' <= Seen /\ UNCHANGED <<tail, moved>>
       \/ /\ pos' > Seen /\ log[pos'] = "text" /\ moved' = TRUE
          /\ tail' = [tail EXCEPT !.buf = Append(@, pos')]
    /\ UNCHANGED <<wpc, retire, ending, clocks, faults>>

\* What ends the task with an exception: _watch cancels its timer and its stop.
Dies == wpc' = "dead" /\ timer' = 0 /\ stopper' = "off" /\ UNCHANGED fired

\* Follow does not write the ledger.
Follow ==
    /\ Connects \/ StreamEnds \/ StreamOver \/ Retries \/ TakesText
    /\ UNCHANGED <<hermesVars, row, queue, filed, lock, calls, boot, history>>

-----------------------------------------------------------------------------
(* The watcher's writes *)

\* _flush, from a coalesced delta, before another frame, or at the end of the stream. A
\* failure inside the try of _follow is retried; one in its handlers is not.
Flush ==
    /\ wpc \in {"stream", "closed", "broken", "down", "refused"} /\ tail.buf # <<>> /\ lock = Nobody
    /\ \/ /\ row' = [row EXCEPT !.out = tail.out \o tail.buf, !.last = Seen]
          /\ tail' = [tail EXCEPT !.out = tail.out \o tail.buf, !.last = Seen, !.buf = <<>>]
          /\ UNCHANGED <<wpc, clocks, faults>>
       \/ /\ Fault("ledger") /\ UNCHANGED <<row, tail>>
          /\ IF wpc \in {"stream", "closed"} THEN wpc' = "retry" /\ UNCHANGED clocks ELSE Dies
    /\ UNCHANGED <<stream, retire, ending, queue, filed, lock>>

\* The next frame is new and of one of these kinds; the buffer has been flushed.
Frame(kinds) ==
    /\ wpc = "stream" /\ tail.buf = <<>> /\ lock = Nobody
    /\ pos < Len(log) /\ pos + 1 > tail.last /\ log[pos + 1] \in kinds

\* The frame has been recorded with the row.
Recorded(r) ==
    /\ row' = [r EXCEPT !.last = pos + 1]
    /\ tail' = [tail EXCEPT !.last = pos + 1] /\ pos' = pos + 1 /\ moved' = TRUE

\* _other_event
OtherEvent ==
    /\ Frame({"settled", "answered", "stopping"})
    /\ LET hit == log[pos + 1] # "stopping" /\ row.pending = RequestBefore(pos + 1) IN
       /\ Recorded(IF hit THEN Cleared
                   ELSE IF log[pos + 1] = "stopping" THEN [row EXCEPT !.status = "stopping"] ELSE row)
       /\ timer' = IF hit /\ PendingIs("question") THEN 0 ELSE timer
       /\ retire' = IF hit THEN row.entry ELSE 0
       /\ wpc' = IF retire' # 0 THEN "withdraw" ELSE "stream"
    /\ UNCHANGED <<ending, queue, filed, lock, fired, stopper, faults>>

\* _clarify_requested
ClarifyRequested ==
    /\ Frame({"question"})
    /\ retire' = IF PendingIs("ask") THEN row.entry ELSE 0
    /\ Recorded([row EXCEPT !.status = "clarification", !.pending = pos + 1, !.entry = 0])
    /\ wpc' = "arming"
    /\ UNCHANGED <<ending, queue, filed, lock, clocks, faults>>

RecordFails ==
    /\ Frame({"settled", "answered", "stopping", "question", "ask"}) /\ Fault("ledger") /\ wpc' = "retry"
    /\ UNCHANGED <<row, tail, stream, retire, ending, queue, filed, lock, clocks>>

\* What follows the record: the entry of the request that is over, the question's timer.
Withdraws ==
    /\ wpc \in {"withdraw", "arming"} /\ Withdraw(retire) /\ retire' = 0
    /\ wpc' = "stream" /\ timer' = IF wpc = "arming" THEN tail.last ELSE timer
    /\ UNCHANGED <<row, tail, stream, ending, filed, lock, fired, stopper, faults>>

\* _approval_requested: it has the lock and has read the row.
ApprovalBegins ==
    /\ Frame({"ask"}) /\ lock' = "watcher" /\ wpc' = "asking"
    /\ Withdraw(row.entry) /\ timer' = IF PendingIs("question") THEN 0 ELSE timer
    /\ UNCHANGED <<row, tail, stream, retire, ending, filed, fired, stopper, faults>>

ApprovalRecorded ==
    /\ wpc = "asking"
    /\ \/ /\ Recorded([row EXCEPT !.status = "approval", !.pending = pos + 1, !.entry = 0])
          /\ Enqueue(pos + 1) /\ wpc' = "storing" /\ UNCHANGED <<lock, faults>>
          /\ dropped' = IF Swallowed(pos + 1) THEN dropped \cup {pos + 1} ELSE dropped
       \/ /\ Fault("ledger") /\ lock' = Nobody /\ wpc' = "retry"
          /\ UNCHANGED <<row, tail, stream, queue, filed, dropped>>
    /\ UNCHANGED <<retire, ending, clocks, orphans>>

ApprovalFiled ==
    /\ wpc = "storing" /\ StoreApprovalId(tail.last) /\ lock' = Nobody /\ wpc' = "stream"
    /\ UNCHANGED <<tail, stream, retire, ending, queue, clocks>>

\* Why a watch ends: the terminal event, the snapshot, a 404, or no contact for give_up_s,
\* by failed attempts or over a silent stream that breaks.
Endings ==
    (IF Frame({"end"}) THEN {[status |-> "ended", seq |-> pos + 1, caught |-> TRUE]} ELSE {})
    \cup (IF wpc = "snapshot" /\ hermes \in {"over", "gone"}
          THEN {[status |-> IF hermes = "over" THEN "ended" ELSE "unknown", seq |-> 0, caught |-> TRUE]}
          ELSE {})
    \cup (IF wpc \in {"refused", "down", "broken"} /\ tail.buf = <<>>
          THEN {[status |-> "unknown", seq |-> 0, caught |-> FALSE]} ELSE {})

\* Mutant: the row ends before its entry is withdrawn, and the request is gone by then.
FinishBeginsKeeping ==
    /\ lock = Nobody /\ ending' \in Endings
    /\ lock' = "watcher" /\ wpc' = "finish" /\ timer' = 0
    /\ pos' = 0 /\ moved' = FALSE
    /\ UNCHANGED <<row, tail, retire, queue, filed, fired, stopper, faults>>

\* _finish: it has the lock and has read the row.
FinishBegins ==
    /\ lock = Nobody /\ ending' \in Endings
    /\ lock' = "watcher" /\ wpc' = "finish" /\ timer' = 0
    /\ IF Live /\ PendingIs("ask") THEN Withdraw(row.entry) ELSE UNCHANGED queue
    /\ pos' = 0 /\ moved' = FALSE
    /\ UNCHANGED <<row, tail, retire, filed, fired, stopper, faults>>

\* The output is Hermes's own, if it sends one.
FinishRecords ==
    /\ wpc = "finish" /\ lock' = Nobody /\ ending' = NoEnding
    /\ \/ /\ \E out \in {tail.out} \cup (IF ending.status = "ended" THEN {Transcript} ELSE {}) :
                 row' = IF Live THEN [row EXCEPT !.status = ending.status, !.pending = 0, !.entry = 0,
                                                 !.stop = FALSE, !.out = out,
                                                 !.last = IF ending.seq > @ THEN ending.seq ELSE @]
                        ELSE row
          /\ wpc' = "off" /\ timer' = 0 /\ stopper' = "off" /\ UNCHANGED <<fired, faults>>
       \/ /\ Fault("ledger") /\ UNCHANGED row
          /\ IF ending.caught THEN wpc' = "retry" /\ UNCHANGED clocks ELSE Dies
    /\ tail' = IF wpc' = "off" THEN TailOf(row') ELSE tail
    /\ UNCHANGED <<stream, retire, queue, filed>>

Writes ==
    /\ \/ /\ \/ Flush \/ OtherEvent \/ ClarifyRequested \/ RecordFails \/ Withdraws
             \/ ApprovalBegins \/ FinishBegins \/ FinishRecords
          /\ UNCHANGED history
       \/ ApprovalRecorded \/ ApprovalFiled
    /\ UNCHANGED <<hermesVars, calls, boot>>

-----------------------------------------------------------------------------
(* The clarify deadline, and the stop that hal0 decided on *)

TimerFires ==
    /\ timer # 0 /\ fired' = fired \cup {timer} /\ timer' = 0
    /\ UNCHANGED <<row, tail, stopper, hermesVars, faults>>

\* _clarify_deadline. A failed write ends the task, and nobody arms the timer again.
Deadline ==
    /\ \E r \in fired :
           /\ lock = Nobody /\ fired' = fired \ {r}
           /\ \/ /\ IF Live /\ row.pending = r
                    THEN /\ row' = [row EXCEPT !.pending = 0, !.status = "stopping", !.stop = TRUE]
                         /\ tail' = [tail EXCEPT !.stop = TRUE]
                         /\ IF wpc # "off" THEN EnsureStop(tail') ELSE UNCHANGED stopper
                    ELSE UNCHANGED <<row, tail, stopper>>
                 /\ UNCHANGED <<dropped, faults>>
              \/ /\ Fault("ledger") /\ dropped' = dropped \cup {r}
                 /\ UNCHANGED <<row, tail, stopper>>
    /\ UNCHANGED <<timer, hermesVars, orphans>>

\* Mutant: any answer is final.
DeliverStopOnce ==
    /\ stopper = "posting" /\ stopper' = "clearing" /\ tail' = [tail EXCEPT !.stop = FALSE]
    /\ \/ TakesStop /\ UNCHANGED faults
       \/ Fault("post") /\ UNCHANGED hermesVars
    /\ UNCHANGED <<row, timer, fired>>

\* _deliver_stop: taken, or refused as there is nothing to stop, it is final; otherwise
\* it is posted again.
DeliverStop ==
    /\ stopper = "posting"
    /\ \/ /\ TakesStop /\ stopper' = "clearing" /\ tail' = [tail EXCEPT !.stop = FALSE]
          /\ UNCHANGED faults
       \/ /\ Fault("post") /\ (TakesStop \/ UNCHANGED hermesVars)
          /\ UNCHANGED <<stopper, tail>>
    /\ UNCHANGED <<row, timer, fired>>

\* A failure leaves the marker behind.
StopDelivers ==
    /\ stopper = "clearing" /\ lock = Nobody /\ stopper' = "off"
    /\ \/ row' = (IF Live THEN [row EXCEPT !.stop = FALSE] ELSE row) /\ UNCHANGED faults
       \/ Fault("ledger") /\ UNCHANGED row
    /\ UNCHANGED <<tail, timer, fired, hermesVars>>

Timers ==
    /\ Deadline \/ ((TimerFires \/ DeliverStop \/ StopDelivers) /\ UNCHANGED history)
    /\ UNCHANGED <<queue, filed, stream, wpc, retire, ending, lock, calls, boot>>

-----------------------------------------------------------------------------
(* The operator's decisions *)

\* The call goes on about request (or entry) r, or is done with it.
Go(c, to, r) == pc' = [pc EXCEPT ![c] = to] /\ of' = [of EXCEPT ![c] = r]
Done(c) == Go(c, "done", 0)

\* ApprovalQueue.approve and deny
Decide(c) ==
    /\ pc[c] = "new" /\ boot = "done"
    /\ \E i \in DOMAIN inbox :
           /\ inbox[i].state = "pending" /\ inbox' = [inbox EXCEPT ![i].state = "decided"]
           /\ dedup' = 0 /\ Go(c, "reading", inbox[i].req)
    /\ UNCHANGED <<row, filed, lock, timer, hermesVars, faults>>

\* _answer_approval. A read that fails, or is cancelled, ends the decision, and its entry
\* is used up.
AnswerReads(c) ==
    /\ pc[c] = "reading" /\ lock = Nobody
    /\ \/ /\ IF Live /\ row.pending = of[c] THEN Go(c, "posting", of[c]) ELSE Done(c)
          /\ UNCHANGED <<dropped, faults>>
       \/ Fault("ledger") /\ Done(c) /\ dropped' = dropped \cup {of[c]}
    /\ UNCHANGED <<row, queue, filed, lock, timer, hermesVars, orphans>>

\* A refusal as no longer pending is final; a 404 or a lost answer is not.
AnswerPosts(c) ==
    /\ pc[c] = "posting"
    /\ \/ asking = of[c] /\ TakesAnswer(of[c]) /\ Go(c, "settling", of[c]) /\ UNCHANGED faults
       \/ asking # of[c] /\ hermes # "gone" /\ Done(c) /\ UNCHANGED <<hermesVars, faults>>
       \/ hermes = "gone" /\ Go(c, "refiling", of[c]) /\ UNCHANGED <<hermesVars, faults>>
       \/ Fault("post") /\ Go(c, "refiling", of[c])
          /\ ((asking = of[c] /\ TakesAnswer(of[c])) \/ UNCHANGED hermesVars)
    /\ UNCHANGED <<row, queue, filed, lock, timer>>

\* _refile, which gives up when it cannot read the row.
Refile(c) ==
    /\ pc[c] = "refiling" /\ lock = Nobody
    /\ \/ /\ Live /\ row.pending = of[c] /\ Enqueue(of[c]) /\ lock' = c
          /\ Go(c, "storing", of[c]) /\ UNCHANGED <<dropped, faults>>
       \/ /\ ~(Live /\ row.pending = of[c]) /\ Done(c)
          /\ UNCHANGED <<queue, filed, lock, dropped, faults>>
       \/ /\ Fault("ledger") /\ Done(c) /\ dropped' = dropped \cup {of[c]}
          /\ UNCHANGED <<queue, filed, lock>>
    /\ UNCHANGED <<row, timer, hermesVars, orphans>>

RefileStores(c) ==
    /\ pc[c] = "storing" /\ StoreApprovalId(of[c]) /\ lock' = Nobody /\ Done(c)
    /\ UNCHANGED <<queue, timer, hermesVars>>

\* settle, of a decision and of an answer.
Settle(c) ==
    /\ pc[c] = "settling" /\ lock = Nobody /\ Done(c)
    /\ \/ /\ IF Live /\ row.pending = of[c]
             THEN row' = Cleared /\ timer' = IF PendingIs("question") THEN 0 ELSE timer
             ELSE UNCHANGED <<row, timer>>
          /\ UNCHANGED faults
       \/ Fault("ledger") /\ UNCHANGED <<row, timer>>
    /\ UNCHANGED <<queue, filed, lock, hermesVars>>

Decision(c) ==
    \/ AnswerReads(c) \/ Refile(c) \/ RefileStores(c)
    \/ (AnswerPosts(c) \/ Settle(c)) /\ UNCHANGED history

-----------------------------------------------------------------------------
(* The client's stop_run and answer_run *)

StopReads(c) ==
    /\ pc[c] = "new" /\ boot = "done" /\ Live /\ Go(c, "stopping", 0)
    /\ UNCHANGED <<row, queue, filed, lock, timer, hermesVars, faults>>

\* A run that is over is refused, or answered with its status.
StopPosts(c) ==
    /\ pc[c] = "stopping"
    /\ \/ hermes \in {"going", "stopping"} /\ TakesStop /\ Go(c, "marking", 0) /\ UNCHANGED faults
       \/ hermes \in {"over", "gone"} /\ Done(c) /\ UNCHANGED <<hermesVars, faults>>
       \/ hermes = "over" /\ Go(c, "marking", 0) /\ UNCHANGED <<hermesVars, faults>>
       \/ Fault("post") /\ (TakesStop \/ UNCHANGED hermesVars) /\ Done(c)
    /\ UNCHANGED <<row, queue, filed, lock, timer>>

\* Mutant: the status is written over whatever the run has become.
StoppingAnyway(c) ==
    /\ pc[c] = "marking" /\ lock = Nobody
    /\ row' = [row EXCEPT !.status = "stopping", !.pending = 0, !.entry = 0, !.stop = FALSE]
    /\ timer' = 0 /\ stopper' = "off" /\ Go(c, "withdraw", row.entry)
    /\ UNCHANGED <<queue, filed, lock, hermesVars, faults>>

\* RunWatcher.stopping
Stopping(c) ==
    /\ pc[c] = "marking" /\ lock = Nobody
    /\ \/ /\ Live /\ Go(c, "withdraw", row.entry)
          /\ row' = [row EXCEPT !.status = "stopping", !.pending = 0, !.entry = 0, !.stop = FALSE]
          /\ timer' = 0 /\ stopper' = "off" /\ UNCHANGED faults
       \/ ~Live /\ Done(c) /\ timer' = 0 /\ stopper' = "off" /\ UNCHANGED <<row, faults>>
       \/ Fault("ledger") /\ Done(c) /\ UNCHANGED <<row, timer, stopper>>
    /\ UNCHANGED <<queue, filed, lock, hermesVars>>

StopWithdraws(c) ==
    /\ pc[c] = "withdraw" /\ Withdraw(of[c]) /\ Done(c)
    /\ UNCHANGED <<row, filed, lock, timer, hermesVars, faults>>

\* answer_run, of the question that the client sees pending.
AnswerRunReads(c) ==
    /\ pc[c] = "new" /\ boot = "done" /\ Live /\ PendingIs("question")
    /\ Go(c, "clarifying", row.pending)
    /\ UNCHANGED <<row, queue, filed, lock, timer, hermesVars, faults>>

AnswerRunPosts(c) ==
    /\ pc[c] = "clarifying"
    /\ \/ asking = of[c] /\ TakesAnswer(of[c]) /\ Go(c, "settling", of[c]) /\ UNCHANGED faults
       \/ asking # of[c] /\ Done(c) /\ UNCHANGED <<hermesVars, faults>>
       \/ Fault("post") /\ Done(c)
          /\ ((asking = of[c] /\ TakesAnswer(of[c])) \/ UNCHANGED hermesVars)
    /\ UNCHANGED <<row, queue, filed, lock, timer>>

\* The calls under way, and how one begins.
CallStep(c) ==
    /\ \/ c \in Deciders /\ Decision(c) /\ UNCHANGED stopper
       \/ /\ c \in Clients /\ UNCHANGED <<stopper, history>>
          /\ StopPosts(c) \/ StopWithdraws(c) \/ AnswerRunPosts(c) \/ Settle(c)
       \/ c \in Clients /\ Stopping(c) /\ UNCHANGED history
    /\ UNCHANGED <<watch, fired, boot>>

CallBegins(c) ==
    /\ \/ c \in Deciders /\ Decide(c)
       \/ c \in Clients /\ (StopReads(c) \/ AnswerRunReads(c))
    /\ UNCHANGED <<watch, fired, stopper, boot, history>>

-----------------------------------------------------------------------------
(* A restart of hal0-api, and reattach *)

\* A crash or a shutdown: the ledger and Hermes stay, the memory is gone.
Restart ==
    /\ Fault("crash")
    /\ inbox' = [i \in DOMAIN inbox |-> [inbox[i] EXCEPT !.state = "lost"]] /\ dedup' = 0 /\ filed' = 0
    /\ tail' = TailOf(row) /\ wpc' = "off" /\ retire' = 0 /\ pos' = 0 /\ moved' = FALSE
    /\ timer' = 0 /\ fired' = {} /\ stopper' = "off" /\ lock' = Nobody
    /\ pc' = [c \in Calls |-> IF pc[c] = "new" THEN "new" ELSE "done"]
    /\ of' = [c \in Calls |-> 0] /\ ending' = NoEnding
    /\ boot' = "probe" /\ orphans' = {} /\ dropped' = {} /\ UNCHANGED <<hermesVars, row>>

\* Nothing to watch, or a 404: mark_unknown. A failure of either leaves the run unwatched.
BootEnds ==
    /\ boot = "probe" /\ boot' = "done"
    /\ \/ ~Live /\ UNCHANGED <<row, faults>>
       \/ Live /\ hermes = "gone" /\ UNCHANGED faults
          /\ row' = [row EXCEPT !.status = "unknown", !.pending = 0, !.entry = 0, !.stop = FALSE]
       \/ Fault("ledger") /\ UNCHANGED row
    /\ UNCHANGED <<tail, wpc, queue, filed, lock, timer, stopper>>

\* Mutant: the question's timeout is not armed again.
AttachUnarmed ==
    /\ boot = "probe" /\ Live
    /\ (hermes # "gone" /\ UNCHANGED faults) \/ Fault("stream")
    /\ tail' = TailOf(row) /\ stopper' = IF row.stop THEN "posting" ELSE "off"
    /\ IF PendingIs("ask")
       THEN /\ Enqueue(row.pending) /\ lock' = "boot" /\ boot' = "storing" /\ UNCHANGED <<wpc, timer>>
       ELSE /\ boot' = "done" /\ wpc' = "connect" /\ UNCHANGED <<queue, filed, lock, timer>>
    /\ UNCHANGED row

\* attach with _resume_pending, of a run that Hermes knows or cannot be asked about.
Attach ==
    /\ boot = "probe" /\ Live
    /\ (hermes # "gone" /\ UNCHANGED faults) \/ Fault("stream")
    /\ tail' = TailOf(row) /\ stopper' = IF row.stop THEN "posting" ELSE "off"
    /\ IF PendingIs("ask")
       THEN /\ Enqueue(row.pending) /\ lock' = "boot" /\ boot' = "storing" /\ UNCHANGED <<wpc, timer>>
       ELSE /\ timer' = IF PendingIs("question") THEN row.pending ELSE 0
            /\ boot' = "done" /\ wpc' = "connect" /\ UNCHANGED <<queue, filed, lock>>
    /\ UNCHANGED row

AttachStores ==
    /\ boot = "storing" /\ StoreApprovalId(row.pending) /\ lock' = Nobody
    /\ boot' = "done" /\ wpc' = "connect"
    /\ UNCHANGED <<tail, queue, timer, stopper>>

Reattach ==
    /\ AttachStores \/ ((BootEnds \/ Attach) /\ UNCHANGED history)
    /\ UNCHANGED <<hermesVars, stream, retire, ending, fired, calls>>

-----------------------------------------------------------------------------
Next == \/ Hermes \/ Follow \/ Writes \/ Timers \/ Restart \/ Reattach
        \/ \E c \in Calls : CallBegins(c) \/ CallStep(c)

Spec == Init /\ [][Next]_vars

\* Every task on the event loop goes on; timers fire; nothing is asked of Hermes, the
\* operator or the client.
Fairness ==
    /\ WF_vars(Follow \/ Writes) /\ WF_vars(Reattach) /\ WF_vars(Timers)
    /\ WF_vars(\E c \in Calls : CallStep(c))

LiveSpec == Spec /\ Fairness

-----------------------------------------------------------------------------
(* Properties *)

Statuses == {"running", "approval", "clarification", "stopping"} \cup Terminal

\* The types of the state: requests are events of the log, entries are in the inbox.
TypeOK ==
    /\ log \in Seq({"text", "ask", "settled", "question", "answered", "stopping", "end"})
    /\ hermes \in {"going", "stopping", "over", "gone"}
    /\ {asking, row.pending, timer} \subseteq {0} \cup Requests /\ fired \subseteq Requests
    /\ row.status \in Statuses /\ row.stop \in BOOLEAN /\ {row.last, tail.last, pos} \subseteq 0..Len(log)
    /\ inbox \in Seq([req : Requests, state : {"pending", "decided", "failed", "lost"}])
    /\ {dedup, filed, row.entry, retire} \subseteq 0..Len(inbox)
    /\ wpc \in {"connect", "stream", "closed", "broken", "down", "refused", "snapshot", "retry",
                "withdraw", "arming", "asking", "storing", "finish", "off", "dead"}
    /\ stopper \in {"off", "posting", "clearing"} /\ boot \in {"probe", "storing", "done"}
    /\ lock \in {Nobody, "watcher", "boot"} \cup Calls
    /\ pc \in [Calls -> {"new", "reading", "posting", "refiling", "storing", "settling",
                         "stopping", "marking", "withdraw", "clarifying", "done"}]
    /\ orphans \cup dropped \subseteq Nat

InOrder(out, events) == /\ \A k, m \in DOMAIN out : k < m => out[k] < out[m]
                        /\ {out[k] : k \in DOMAIN out} = events

\* The recorded output is exactly the text up to the last recorded event, each delta once
\* and in order, whatever was replayed, retried or lost with the buffer (watcher.py
\* _on_event, _flush, stop_all).
OutputExact == Live => InOrder(row.out, Texts(row.last))

\* The recorded output neither doubles nor loses text over reconnects, failed flushes and
\* restarts (OutputExact), and the positions kept in the row, the watcher and the inbox are
\* positions that exist (watcher.py _on_event, _flush, attach).
Safety == TypeOK /\ OutputExact

\* Every entry offered to the operator asks about what the live ledger row has pending,
\* or is about to be withdrawn: an ended, stopped or settled run leaves no question open
\* (watcher.py _finish, _approval_requested, stopping). The exception is an entry whose id
\* could not be stored in the row: nothing withdraws it when the run moves on or ends,
\* although _finish means that "a run they see as ended must not still hold a pending
\* approval" (watcher.py:767).
RowIsCurrent ==
    \A i \in DOMAIN inbox : inbox[i].state = "pending" =>
        \/ Live /\ row.pending = inbox[i].req
        \/ retire = i \/ \E c \in Clients : pc[c] = "withdraw" /\ of[c] = i
        \/ i \in orphans

\* A terminal row is never written again, by a late stop, settle, deadline or attach
\* (store.py record, skip_terminal).
TerminalSticks == [][~Live => row' = row]_vars

\* "The operator must always have a row to answer" (watcher.py:36): a run that waits for
\* approval gets a pending entry, or waits no longer. Until a restart files it again, a
\* request is dropped when the ledger fails as its decision is read or filed again, or
\* when an orphaned entry is in its way.
HasRow == \E i \in DOMAIN inbox : inbox[i] = [req |-> row.pending, state |-> "pending"]
RowToAnswer ==
    (row.status = "approval") ~> (HasRow \/ row.status # "approval" \/ row.pending \in dropped)

\* A question that nobody answers stops waiting, across restarts too (watcher.py
\* _clarify_deadline); unless the ledger fails just as the deadline is recorded, which
\* ends the timer's task for good.
QuestionEnds ==
    (row.status = "clarification") ~> (row.status # "clarification" \/ row.pending \in dropped)

\* A stop that hal0 decided on reaches Hermes, unless the watcher gives up on it: "a stop
\* that fails once cannot leave the run holding its slot while Hermes waits"
\* (watcher.py _deliver_stop).
StopDelivered == row.stop ~> (hermes # "going" \/ row.status = "unknown")

\* A run that is over or gone in Hermes ends in the ledger, also when its terminal event
\* can no longer be replayed (watcher.py _finished_in_snapshot).
RunSettles == (hermes \in {"over", "gone"}) ~> ~Live
=============================================================================
