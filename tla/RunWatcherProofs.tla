-------------------------- MODULE RunWatcherProofs --------------------------
(***************************************************************************)
(* The ledger's row, the watcher, the inbox and the calls agree, for every *)
(* number of events, calls and faults (Inductive). From that: the recorded *)
(* output is exact (OutputIsExact), what is offered to the operator is     *)
(* what the row has pending, except for an entry whose id could not be     *)
(* stored (OffersAreCurrent), and a terminal row is never written again    *)
(* (EndedForGood): the watcher's own writes do not look at the status      *)
(* they overwrite (skip_terminal=False), so what protects the row is that  *)
(* no watcher is left.                                                     *)
(***************************************************************************)
EXTENDS RunWatcher, TLAPS

\* The row is a record of these fields.
IsRow(r) == r = [status |-> r.status, pending |-> r.pending, entry |-> r.entry,
                 last |-> r.last, out |-> r.out, stop |-> r.stop]

\* No watcher runs while reattach does, a pending request is restored for a live run
\* only, and a terminal row has no watcher.
Ended == /\ boot # "done" => wpc = "off"
         /\ boot = "storing" => Live
         /\ ~Live => wpc = "off"

\* The watcher's tail is a record of these.
IsTail(t) == t = [last |-> t.last, out |-> t.out, buf |-> t.buf, stop |-> t.stop]

Events == {"text", "ask", "settled", "question", "answered", "stopping", "end"}
Entries == [req : Nat, state : {"pending", "decided", "failed", "lost"}]
IsAsk(r) == r \in 1..Len(log) /\ log[r] = "ask"
IsQuestion(r) == r \in 1..Len(log) /\ log[r] = "question"

\* Hermes waits on a request that it has sent, and on none when the run is over there.
LogOK ==
    /\ log \in Seq(Events) /\ hermes \in {"going", "stopping", "over", "gone"}
    /\ asking = 0 \/ IsAsk(asking) \/ IsQuestion(asking)
    /\ hermes \in {"over", "gone"} => asking = 0

\* What the row has pending is a request that it has recorded.
RowOK ==
    /\ IsRow(row) /\ row.status \in Statuses /\ row.stop \in BOOLEAN
    /\ row.last \in 0..Len(log) /\ row.pending \in 0..row.last /\ row.entry \in 0..Len(inbox)
    /\ row.pending # 0 => IsAsk(row.pending) \/ IsQuestion(row.pending)

\* The watcher has stored what the row says. Its buffer holds the events right after that,
\* all of them text, and the stream has not run ahead of the buffer, unless Hermes has
\* nothing left to send.
TailOK ==
    /\ IsTail(tail) /\ tail.last = row.last /\ tail.out = row.out
    /\ tail.buf \in Seq(Nat) /\ pos \in 0..Len(log) /\ ending.seq \in 0..Len(log)
    /\ \A k \in 1..Len(tail.buf) : /\ tail.buf[k] = row.last + k /\ row.last + k <= Len(log)
                                   /\ log[row.last + k] = "text"
    /\ pos <= row.last + Len(tail.buf) \/ (hermes \in {"over", "gone"} /\ pos = Len(log))
    /\ wpc = "asking" => pos = row.last /\ tail.buf = <<>> /\ IsAsk(pos + 1)
    /\ wpc = "arming" => IsQuestion(row.last)
    /\ wpc = "finish" => pos = 0 /\ ending.status \in Terminal
    /\ boot # "done" => pos = 0

\* Entries are about approvals, timers about questions.
InboxOK ==
    /\ inbox \in Seq(Entries)
    /\ \A i \in 1..Len(inbox) : IsAsk(inbox[i].req) /\ inbox[i].req <= row.last
    /\ dedup \in 0..Len(inbox) /\ filed \in 0..Len(inbox) /\ retire \in 0..Len(inbox)
ClocksOK ==
    /\ timer = 0 \/ IsQuestion(timer)
    /\ \A r \in fired : IsQuestion(r)
    /\ stopper \in {"off", "posting", "clearing"}

\* Where the watcher and the calls can be, and who holds the lock.
Watching == {"connect", "stream", "closed", "broken", "down", "refused", "snapshot", "retry",
             "withdraw", "arming", "asking", "storing", "finish", "off", "dead"}
Calling == {"new", "reading", "posting", "refiling", "storing", "settling", "stopping",
            "marking", "withdraw", "clarifying", "done"}
CallsOK ==
    /\ pc \in [Calls -> Calling] /\ of \in [Calls -> Nat]
    /\ \A c \in Calls : pc[c] = "storing" <=> lock = c
    /\ \A c \in Clients : pc[c] \notin {"reading", "posting", "refiling", "storing"}
    /\ \A d \in Deciders : pc[d] \notin {"stopping", "marking", "withdraw", "clarifying"}
    /\ boot # "done" => \A c \in Calls : pc[c] \in {"new", "done"}
LockOK ==
    /\ wpc \in Watching /\ boot \in {"probe", "storing", "done"}
    /\ lock \in {Nobody, "watcher", "boot"} \cup Calls
    /\ wpc \in {"asking", "storing", "finish"} <=> lock = "watcher"
    /\ boot = "storing" <=> lock = "boot"
    /\ filed = 0 <=> lock = Nobody \/ wpc \in {"asking", "finish"}
    /\ retire # 0 => wpc \in {"withdraw", "arming"}

\* The text is exact while the run lives; an entry is being stored for what is pending.
Stored ==
    /\ Live => row.out \in Seq(Nat) /\ InOrder(row.out, Texts(row.last))
    /\ wpc = "storing" => row.pending = row.last
    /\ \A d \in Deciders : pc[d] = "storing" => Live /\ row.pending = of[d]

\* A decision that has not been delivered yet: its request has no other, and no entry. A
\* client answers questions.
Deciding(d) == pc[d] \in {"reading", "posting", "settling", "refiling"}
Decided ==
    /\ \A d \in Deciders : Deciding(d) =>
           /\ IsAsk(of[d]) /\ of[d] <= row.last
           /\ \A i \in 1..Len(inbox) : inbox[i].state = "pending" => inbox[i].req # of[d]
    /\ \A d, e \in Deciders : Deciding(d) /\ Deciding(e) /\ of[d] = of[e] => d = e
    /\ \A c \in Clients : pc[c] \in {"clarifying", "settling"} => IsQuestion(of[c])

\* One entry is pending at most. It is about to be withdrawn or its id could not be stored,
\* or it is the row's, filed or being filed; and only the former when the row is about to
\* move on to another request, or to end.
Excused(i) ==
    retire = i \/ (\E c \in Clients : pc[c] = "withdraw" /\ of[c] = i) \/ i \in orphans
Offered ==
    \A i \in 1..Len(inbox) : inbox[i].state = "pending" =>
        /\ dedup = i /\ boot # "probe"
        /\ \/ Excused(i)
           \/ /\ Live /\ row.pending = inbox[i].req /\ wpc \notin {"asking", "finish"}
              /\ i = IF filed # 0 THEN filed ELSE row.entry

IInv == /\ LogOK /\ RowOK /\ TailOK /\ InboxOK /\ ClocksOK /\ CallsOK /\ LockOK
        /\ Ended /\ Stored /\ Decided /\ Offered

-----------------------------------------------------------------------------
(* What Hermes and the inbox do to their sequences *)

\* Hermes's log only grows, and not any more once the run is over there.
Grows ==
    /\ log' \in Seq(Events) /\ Len(log) \in Nat /\ Len(log') \in Nat /\ Len(log) <= Len(log')
    /\ \A n \in 1..Len(log) : log'[n] = log[n]
    /\ \A r : (IsAsk(r) => IsAsk(r)') /\ (IsQuestion(r) => IsQuestion(r)')
    /\ hermes \in {"over", "gone"} => hermes' \in {"over", "gone"} /\ log' = log
    /\ LogOK'

LEMMA Appended ==
  ASSUME LogOK, NEW e \in Events, log' = Append(log, e),
         hermes \notin {"over", "gone"}, hermes' \in {"going", "stopping", "over", "gone"},
         hermes' \in {"over", "gone"} => asking' = 0,
         asking' \in {0, asking} \/ (asking' = Len(log) + 1 /\ e \in {"ask", "question"})
  PROVE  Grows
<1>1. log \in Seq(Events)
  BY DEF LogOK
<1>2. /\ log' \in Seq(Events) /\ Len(log') = Len(log) + 1 /\ log'[Len(log) + 1] = e
      /\ \A n \in 1..Len(log) : log'[n] = log[n]
  BY <1>1
<1>3. Len(log) \in Nat
  BY <1>1
<1>4. \A r : (IsAsk(r) => IsAsk(r)') /\ (IsQuestion(r) => IsQuestion(r)')
  BY <1>2, <1>3 DEF IsAsk, IsQuestion
<1>5. asking' = 0 \/ IsAsk(asking)' \/ IsQuestion(asking)'
  <2>1. CASE asking' \in {0, asking}
    BY <1>4, <2>1 DEF LogOK, IsAsk, IsQuestion
  <2>2. CASE asking' = Len(log) + 1 /\ e \in {"ask", "question"}
    BY <1>2, <1>3, <2>2 DEF IsAsk, IsQuestion
  <2> QED BY <2>1, <2>2
<1> QED BY <1>2, <1>3, <1>4, <1>5 DEF Grows, LogOK

LEMMA StillGrows == ASSUME LogOK, UNCHANGED <<log, asking, hermes>> PROVE Grows
<1>1. Len(log) \in Nat
  BY DEF LogOK
<1> QED BY <1>1 DEF LogOK, Grows, IsAsk, IsQuestion

LEMMA WorkGrows == ASSUME LogOK, Works \/ Ends \/ Forgets PROVE Grows
<1>1. CASE Works
  <2>1. PICK e \in Events : /\ log' = Append(log, e)
                            /\ \/ asking' \in {0, asking}
                               \/ asking' = Len(log) + 1 /\ e \in {"ask", "question"}
    BY <1>1 DEF Works, Events
  <2> QED BY <1>1, <2>1, Appended DEF Works
<1>2. CASE Ends
  <2>1. "end" \in Events
    BY DEF Events
  <2> QED BY <1>2, <2>1, Appended DEF Ends
<1>3. CASE Forgets
  <2>1. Len(log) \in Nat
    BY DEF LogOK
  <2> QED BY <1>3, <2>1 DEF Forgets, LogOK, Grows, IsAsk, IsQuestion
<1> QED BY <1>1, <1>2, <1>3

LEMMA StopGrows == ASSUME LogOK, TakesStop PROVE Grows
<1>1. "stopping" \in Events
  BY DEF Events
<1> QED BY <1>1, Appended, StillGrows DEF TakesStop, hermesVars

LEMMA AnswerGrows == ASSUME LogOK, NEW r \in Nat, r # 0, asking = r, TakesAnswer(r) PROVE Grows
<1>1. PICK e \in Events : log' = Append(log, e)
  BY DEF TakesAnswer, Events
<1>2. hermes \notin {"over", "gone"} /\ hermes' = hermes /\ asking' = 0
      /\ hermes \in {"going", "stopping", "over", "gone"}
  BY DEF TakesAnswer, LogOK
<1> QED BY <1>1, <1>2, Appended

\* The entries stay in the inbox, and none is pending again.
Files == /\ Len(inbox) \in Nat /\ Len(inbox') \in Nat /\ Len(inbox) <= Len(inbox')
         /\ \A i \in 1..Len(inbox) : inbox'[i].req = inbox[i].req
NoneNew == \A i \in 1..Len(inbox') : inbox'[i].state = "pending" =>
               i \in 1..Len(inbox) /\ inbox[i].state = "pending"

LEMMA StillFiles == ASSUME InboxOK, inbox' = inbox PROVE Files /\ NoneNew
<1>1. Len(inbox) \in Nat
  BY DEF InboxOK
<1> QED BY <1>1 DEF Files, NoneNew

\* What an entry becomes when another is withdrawn, or filed.
Single == \A i \in 1..Len(inbox) : inbox[i].state = "pending" => dedup = i
Loses(i) ==
    /\ inbox' \in Seq(Entries) /\ Len(inbox') = Len(inbox) /\ dedup' \in {0, dedup} /\ Files
    /\ \A k \in 1..Len(inbox) : inbox'[k].state = "pending" =>
           inbox[k].state = "pending" /\ k # i /\ dedup' = dedup
Gains(r) ==
    /\ inbox' \in Seq(Entries) /\ Files
    /\ \A k \in 1..Len(inbox) : inbox'[k] = inbox[k]
    /\ filed' \in 1..Len(inbox') /\ dedup' = filed'
    /\ \A k \in 1..Len(inbox') : inbox'[k].state = "pending" => k = filed'
    /\ \/ inbox' = inbox /\ filed' = dedup /\ inbox[dedup].state = "pending"
       \/ /\ filed' = Len(inbox) + 1 /\ Len(inbox') = Len(inbox) + 1 /\ inbox'[filed'].req = r
          /\ \A k \in 1..Len(inbox) : inbox[k].state # "pending"

LEMMA Closed ==
  ASSUME inbox \in Seq(Entries), Single, NEW i \in 1..Len(inbox), inbox[i].state = "pending",
         NEW s \in {"decided", "failed"}, inbox' = [inbox EXCEPT ![i].state = s], dedup' = 0
  PROVE  Loses(i) /\ \A k \in 1..Len(inbox') : inbox'[k].state # "pending"
<1>1. Len(inbox) \in Nat /\ \A k \in 1..Len(inbox) : inbox[k] \in Entries
  OBVIOUS
<1>2. [inbox[i] EXCEPT !.state = s] \in Entries
  BY <1>1 DEF Entries
<1>3. inbox' \in Seq(Entries) /\ Len(inbox') = Len(inbox)
  BY <1>2
<1>4. \A k \in 1..Len(inbox) : inbox'[k] = IF k = i THEN [inbox[i] EXCEPT !.state = s] ELSE inbox[k]
  OBVIOUS
<1>5. inbox'[i].req = inbox[i].req /\ inbox'[i].state = s
  BY <1>1, <1>4 DEF Entries
<1>6. \A k \in 1..Len(inbox) : inbox[k].state = "pending" => k = i
  BY DEF Single
<1> QED BY <1>1, <1>3, <1>4, <1>5, <1>6 DEF Loses, Files

LEMMA Withdrawn ==
  ASSUME inbox \in Seq(Entries), Single, NEW i \in Nat, Withdraw(i)
  PROVE  Loses(i)
<1>0. Len(inbox) \in Nat /\ DOMAIN inbox = 1..Len(inbox)
  OBVIOUS
<1>1. CASE i \in DOMAIN inbox /\ inbox[i].state = "pending"
  <2>1. inbox' = [inbox EXCEPT ![i].state = "failed"] /\ dedup' = 0
    BY <1>1 DEF Withdraw
  <2> QED BY <1>0, <1>1, <2>1, Closed
<1>2. CASE ~(i \in DOMAIN inbox /\ inbox[i].state = "pending")
  <2>1. inbox' = inbox /\ dedup' = dedup
    BY <1>2 DEF Withdraw, queue
  <2> QED BY <1>0, <1>2, <2>1 DEF Loses, Files
<1> QED BY <1>1, <1>2

LEMMA Enqueued ==
  ASSUME inbox \in Seq(Entries), Single, dedup \in 0..Len(inbox), NEW r \in Nat, Enqueue(r)
  PROVE  Gains(r)
<1>0. Len(inbox) \in Nat
  OBVIOUS
<1>1. CASE dedup # 0 /\ inbox[dedup].state = "pending"
  BY <1>0, <1>1 DEF Enqueue, queue, Single, Gains, Files
<1>2. CASE ~(dedup # 0 /\ inbox[dedup].state = "pending")
  <2> DEFINE e == [req |-> r, state |-> "pending"]
  <2>1. inbox' = Append(inbox, e) /\ filed' = Len(inbox) + 1 /\ dedup' = Len(inbox) + 1
    BY <1>2 DEF Enqueue
  <2>2. e \in Entries
    BY DEF Entries
  <2>3. \A k \in 1..Len(inbox) : inbox[k].state # "pending"
    BY <1>2 DEF Single
  <2>4. /\ inbox' \in Seq(Entries) /\ Len(inbox') = Len(inbox) + 1 /\ inbox'[Len(inbox) + 1] = e
        /\ \A k \in 1..Len(inbox) : inbox'[k] = inbox[k]
    <3> HIDE DEF e
    <3> QED BY <2>1, <2>2
  <2> QED BY <1>0, <2>1, <2>3, <2>4 DEF Gains, Files
<1> QED BY <1>1, <1>2

\* The inbox, as the lemmas above want it.
LEMMA Inbox == ASSUME InboxOK, Offered PROVE inbox \in Seq(Entries) /\ Single /\ dedup \in 0..Len(inbox)
  BY DEF InboxOK, Offered, Single

-----------------------------------------------------------------------------
(* What each part of the invariant survives *)

LEMMA RowRecords ==
  ASSUME RowOK, Grows, Files, IsRow(row'), row'.status \in Statuses, row'.stop \in BOOLEAN,
         row'.last \in 0..Len(log), row.last <= row'.last, row'.pending \in {0, row.pending},
         row'.entry \in {0, row.entry}
  PROVE  RowOK'
<1>1. Len(log) <= Len(log') /\ Len(log) \in Nat /\ Len(log') \in Nat
  BY DEF Grows
<1>2. Len(inbox) <= Len(inbox') /\ Len(inbox) \in Nat /\ Len(inbox') \in Nat
  BY DEF Files
<1>3. row'.pending # 0 => IsAsk(row.pending)' \/ IsQuestion(row.pending)'
  <2>1. \A r : (IsAsk(r) => IsAsk(r)') /\ (IsQuestion(r) => IsQuestion(r)')
    BY DEF Grows
  <2> QED BY <2>1 DEF RowOK, IsAsk, IsQuestion
<1> QED BY <1>1, <1>2, <1>3 DEF RowOK

LEMMA RowMoves ==
  ASSUME RowOK, Grows, Files, IsRow(row'), row'.status \in Statuses, row'.stop \in BOOLEAN,
         row'.last = row.last, row'.pending \in {0, row.pending}, row'.entry \in {0, row.entry}
  PROVE  RowOK'
<1>1. row'.last \in 0..Len(log) /\ row.last <= row'.last
  BY DEF RowOK, Grows
<1> QED BY <1>1, RowRecords

LEMMA RowStays == ASSUME RowOK, Grows, Files, row' = row PROVE RowOK'
<1>1. IsRow(row') /\ row'.status \in Statuses /\ row'.stop \in BOOLEAN
  BY DEF RowOK
<1> QED BY <1>1, RowMoves

LEMMA TailStays ==
  ASSUME RowOK, TailOK, Grows, row'.last = row.last, row'.out = row.out,
         IsTail(tail'), tail'.last = tail.last, tail'.out = tail.out, tail'.buf = tail.buf,
         UNCHANGED <<pos, ending>>, wpc' = wpc \/ wpc' \notin {"asking", "arming", "finish"},
         boot' = boot \/ boot' = "done"
  PROVE  TailOK'
<1>1. /\ Len(log) \in Nat /\ Len(log') \in Nat /\ Len(log) <= Len(log')
      /\ \A n \in 1..Len(log) : log'[n] = log[n]
      /\ hermes \in {"over", "gone"} => hermes' \in {"over", "gone"} /\ log' = log
  BY DEF Grows
<1>2. \A r : (IsAsk(r) => IsAsk(r)') /\ (IsQuestion(r) => IsQuestion(r)')
  BY DEF Grows
<1>3. row.last \in Nat /\ Len(tail.buf) \in Nat
  BY <1>1 DEF RowOK, TailOK
<1>4. /\ wpc' = "asking" => pos' = row'.last /\ tail'.buf = <<>> /\ IsAsk(pos + 1)'
      /\ wpc' = "arming" => IsQuestion(row.last)'
  BY <1>2 DEF TailOK, IsAsk, IsQuestion
<1>5. \A k \in 1..Len(tail.buf) :
          /\ row.last + k \in 1..Len(log) /\ tail.buf[k] = row.last + k /\ log[row.last + k] = "text"
  BY <1>1, <1>3 DEF TailOK
<1>6. \A k \in 1..Len(tail'.buf) : /\ tail'.buf[k] = row'.last + k /\ row'.last + k <= Len(log')
                                   /\ log'[row'.last + k] = "text"
  <2> SUFFICES ASSUME NEW k \in 1..Len(tail.buf)
               PROVE  /\ tail.buf[k] = row.last + k /\ row.last + k <= Len(log')
                      /\ log'[row.last + k] = "text"
    OBVIOUS
  <2>1. /\ row.last + k \in 1..Len(log) /\ tail.buf[k] = row.last + k /\ log[row.last + k] = "text"
    BY <1>5
  <2>2. row.last + k <= Len(log')
    BY <1>1, <1>3, <2>1
  <2> QED BY <1>1, <2>1, <2>2
<1>7. pos' <= row'.last + Len(tail'.buf) \/ (hermes' \in {"over", "gone"} /\ pos' = Len(log'))
  BY <1>1 DEF TailOK
<1>8. pos' \in 0..Len(log') /\ ending'.seq \in 0..Len(log')
  BY <1>1 DEF TailOK
<1> QED BY <1>4, <1>6, <1>7, <1>8 DEF TailOK

LEMMA InboxStays ==
  ASSUME InboxOK, RowOK, Grows, inbox' = inbox, row'.last \in Nat, row.last <= row'.last,
         dedup' \in {0, dedup}, filed' \in {0, filed}, retire' \in {0, retire, row.entry}
  PROVE  InboxOK'
<1>1. \A r : IsAsk(r) => IsAsk(r)'
  BY DEF Grows
<1>2. \A i \in 1..Len(inbox) : inbox[i].req \in Nat
  <2>1. \A i \in 1..Len(inbox) : inbox[i] \in Entries
    BY DEF InboxOK
  <2> QED BY <2>1 DEF Entries
<1>3. row.last \in Nat /\ Len(inbox) \in Nat
  BY DEF InboxOK, RowOK, Grows
<1>4. \A i \in 1..Len(inbox) : IsAsk(inbox[i].req)' /\ inbox[i].req <= row'.last
  <2> SUFFICES ASSUME NEW i \in 1..Len(inbox) PROVE IsAsk(inbox[i].req)' /\ inbox[i].req <= row'.last
    OBVIOUS
  <2>1. IsAsk(inbox[i].req) /\ inbox[i].req <= row.last
    BY DEF InboxOK
  <2> QED BY <1>1, <1>2, <1>3, <2>1 DEF IsAsk
<1> QED BY <1>3, <1>4 DEF InboxOK, RowOK

LEMMA ClocksStay ==
  ASSUME ClocksOK, Grows, timer' \in {0, timer}, fired' \subseteq fired \cup ({timer} \ {0}),
         stopper' \in {"off", "posting", "clearing"}
  PROVE  ClocksOK'
<1>1. \A r : IsQuestion(r) => IsQuestion(r)'
  BY DEF Grows
<1>2. timer' = 0 \/ IsQuestion(timer)'
  BY <1>1 DEF ClocksOK, IsQuestion
<1>3. \A r \in fired' : IsQuestion(r)'
  BY <1>1 DEF ClocksOK
<1> QED BY <1>2, <1>3 DEF ClocksOK

LEMMA CallsStay == ASSUME CallsOK, UNCHANGED <<pc, of, lock>>, boot' \in {boot, "done"} PROVE CallsOK'
  BY DEF CallsOK

\* The lock is taken, kept or released by a task that is not a call.
LEMMA LockMoves ==
  ASSUME CallsOK, UNCHANGED <<pc, of>>, boot' \in {boot, "done"},
         {lock, lock'} \subseteq {Nobody, "watcher", "boot"}
  PROVE  CallsOK'
  BY BridgeConstants DEF CallsOK

\* Nobody is storing an entry.
LEMMA NoStoring == ASSUME CallsOK, lock \notin Calls PROVE \A c \in Calls : pc[c] # "storing"
  BY DEF CallsOK

LEMMA StoredStays ==
  ASSUME RowOK, Stored, Grows, row'.out = row.out, row'.last = row.last,
         Live' => Live, wpc' = "storing" => wpc = "storing" /\ row'.pending = row.pending,
         \A d \in Deciders : pc'[d] = "storing" =>
             pc[d] = "storing" /\ of'[d] = of[d] /\ row'.pending = row.pending /\ (Live => Live')
  PROVE  Stored'
<1>1. row.last \in 0..Len(log) /\ \A n \in 1..Len(log) : log'[n] = log[n]
  BY DEF RowOK, Grows
<1>2. Len(log) \in Nat /\ Len(log') \in Nat /\ Len(log) <= Len(log')
  BY DEF Grows
<1>3. Texts(row.last)' = Texts(row.last)
  BY <1>1, <1>2 DEF Texts
<1>4. Live' => row'.out \in Seq(Nat) /\ InOrder(row.out, Texts(row.last))'
  BY <1>3 DEF Stored, InOrder
<1> QED BY <1>4 DEF Stored

\* The undelivered decisions and answers after a step are ones from before it.
Delivers ==
    /\ \A d \in Deciders : Deciding(d)' => Deciding(d) /\ of'[d] = of[d]
    /\ \A c \in Clients : pc'[c] \in {"clarifying", "settling"} =>
           pc[c] \in {"clarifying", "settling"} /\ of'[c] = of[c]
\* All about a decision but the entries.
LEMMA DecidedOn ==
  ASSUME RowOK, Decided, Grows, row'.last \in Nat, row.last <= row'.last, of \in [Calls -> Nat], Delivers
  PROVE  /\ \A d \in Deciders : Deciding(d)' => IsAsk(of[d])' /\ of'[d] <= row'.last
         /\ \A d, e \in Deciders : Deciding(d)' /\ Deciding(e)' /\ of'[d] = of'[e] => d = e
         /\ \A c \in Clients : pc'[c] \in {"clarifying", "settling"} => IsQuestion(of[c])'
<1>1. \A r : (IsAsk(r) => IsAsk(r)') /\ (IsQuestion(r) => IsQuestion(r)')
  BY DEF Grows
<1>2. Deciders \subseteq Calls /\ Clients \subseteq Calls /\ row.last \in Nat
  BY DEF Calls, RowOK, Grows
<1>3. \A d \in Deciders : Deciding(d)' => Deciding(d) /\ of'[d] = of[d]
  BY DEF Delivers
<1>4. ASSUME NEW d \in Deciders, Deciding(d)' PROVE IsAsk(of[d])' /\ of'[d] <= row'.last
  <2>1. IsAsk(of[d]) /\ of[d] <= row.last /\ of'[d] = of[d] /\ of[d] \in Nat
    BY <1>2, <1>3, <1>4 DEF Decided
  <2> QED BY <1>1, <1>2, <2>1 DEF IsAsk
<1>5. ASSUME NEW c \in Clients, pc'[c] \in {"clarifying", "settling"} PROVE IsQuestion(of[c])'
  <2>1. IsQuestion(of[c]) /\ of'[c] = of[c]
    BY <1>5 DEF Decided, Delivers
  <2> QED BY <1>1, <2>1 DEF IsQuestion
<1>6. \A d, e \in Deciders : Deciding(d)' /\ Deciding(e)' /\ of'[d] = of'[e] => d = e
  BY <1>3 DEF Decided
<1> QED BY <1>4, <1>5, <1>6

LEMMA DecidedMoves ==
  ASSUME RowOK, Decided, Grows, Files, NoneNew, row'.last \in Nat, row.last <= row'.last,
         of \in [Calls -> Nat], Delivers
  PROVE  Decided'
<1>1. \A d \in Deciders : Deciding(d)' =>
          \A i \in 1..Len(inbox') : inbox'[i].state = "pending" => inbox'[i].req # of'[d]
  BY DEF Decided, Files, NoneNew, Delivers
<1> QED BY <1>1, DecidedOn DEF Decided

LEMMA DecidedStays ==
  ASSUME RowOK, Decided, Grows, Files, NoneNew, row'.last \in Nat, row.last <= row'.last,
         of \in [Calls -> Nat], UNCHANGED <<pc, of>>
  PROVE  Decided'
<1>1. Delivers
  BY DEF Delivers, Deciding
<1> QED BY <1>1, DecidedMoves

\* No entry becomes pending, and the row keeps what it has pending.
LEMMA OfferedStays ==
  ASSUME Offered, Files, NoneNew, dedup' = dedup, boot' = boot \/ boot' = "done",
         \A i \in 1..Len(inbox) : Excused(i) => Excused(i)',
         Live => Live', row'.pending = row.pending, row'.entry = row.entry, filed' = filed,
         wpc' \in {"asking", "finish"} => wpc \in {"asking", "finish"}
  PROVE  Offered'
<1> SUFFICES ASSUME NEW i \in 1..Len(inbox'), inbox'[i].state = "pending"
             PROVE  /\ dedup' = i /\ boot' # "probe"
                    /\ \/ Excused(i)'
                       \/ /\ Live' /\ row'.pending = inbox'[i].req /\ wpc' \notin {"asking", "finish"}
                          /\ i = IF filed' # 0 THEN filed' ELSE row'.entry
  BY DEF Offered
<1>1. i \in 1..Len(inbox) /\ inbox[i].state = "pending" /\ inbox'[i].req = inbox[i].req
  BY DEF NoneNew, Files
<1> QED BY <1>1 DEF Offered

\* The same for an entry that is withdrawn or decided, and for one that is filed.
LEMMA LosesFiles == ASSUME NEW i, InboxOK, Loses(i) PROVE Files /\ NoneNew
  BY DEF Loses, Files, NoneNew

LEMMA InboxLoses ==
  ASSUME InboxOK, RowOK, Grows, NEW i, Loses(i), row'.last \in Nat, row.last <= row'.last,
         filed' \in {0, filed}, retire' \in {0, retire, row.entry}
  PROVE  InboxOK'
<1>1. \A r : IsAsk(r) => IsAsk(r)'
  BY DEF Grows
<1>2. row.last \in Nat /\ Len(inbox) \in Nat /\ Len(inbox') = Len(inbox)
  BY DEF InboxOK, RowOK, Grows, Loses
<1>3. \A k \in 1..Len(inbox) : IsAsk(inbox[k].req)' /\ inbox'[k].req <= row'.last
  <2> SUFFICES ASSUME NEW k \in 1..Len(inbox) PROVE IsAsk(inbox[k].req)' /\ inbox'[k].req <= row'.last
    OBVIOUS
  <2>1. IsAsk(inbox[k].req) /\ inbox[k].req <= row.last /\ inbox'[k].req = inbox[k].req
    BY DEF InboxOK, Loses, Files
  <2>2. inbox[k].req \in Nat
    BY <2>1, <1>2 DEF IsAsk, Grows
  <2> QED BY <1>1, <1>2, <2>1, <2>2 DEF IsAsk
<1>4. dedup' \in 0..Len(inbox') /\ filed' \in 0..Len(inbox') /\ retire' \in 0..Len(inbox')
  BY <1>2 DEF InboxOK, RowOK, Loses
<1> QED BY <1>2, <1>3, <1>4 DEF InboxOK, Loses

LEMMA OfferedLoses ==
  ASSUME Offered, InboxOK, NEW i, Loses(i), boot' = boot,
         \A k \in 1..Len(inbox) : k # i /\ Excused(k) => Excused(k)',
         Live => Live', row'.pending = row.pending, row'.entry = row.entry, filed' = filed,
         wpc' \in {"asking", "finish"} => wpc \in {"asking", "finish"}
  PROVE  Offered'
<1> SUFFICES ASSUME NEW k \in 1..Len(inbox'), inbox'[k].state = "pending"
             PROVE  /\ dedup' = k /\ boot' # "probe"
                    /\ \/ Excused(k)'
                       \/ /\ Live' /\ row'.pending = inbox'[k].req /\ wpc' \notin {"asking", "finish"}
                          /\ k = IF filed' # 0 THEN filed' ELSE row'.entry
  BY DEF Offered
<1>1. /\ k \in 1..Len(inbox) /\ inbox[k].state = "pending" /\ inbox'[k].req = inbox[k].req
      /\ k # i /\ dedup' = dedup
  BY DEF Loses, Files
<1> QED BY <1>1 DEF Offered

LEMMA InboxGains ==
  ASSUME InboxOK, RowOK, Grows, NEW r \in Nat, Gains(r), IsAsk(r)', r <= row'.last,
         row'.last \in Nat, row.last <= row'.last, retire' = retire
  PROVE  InboxOK'
<1>1. \A q : IsAsk(q) => IsAsk(q)'
  BY DEF Grows
<1>2. row.last \in Nat /\ Len(inbox) \in Nat /\ Len(inbox') \in Nat /\ Len(inbox) <= Len(inbox')
  BY DEF InboxOK, RowOK, Grows, Gains, Files
<1>3. \A k \in 1..Len(inbox) : IsAsk(inbox[k].req)' /\ inbox'[k].req <= row'.last
  <2> SUFFICES ASSUME NEW k \in 1..Len(inbox) PROVE IsAsk(inbox[k].req)' /\ inbox'[k].req <= row'.last
    OBVIOUS
  <2>1. IsAsk(inbox[k].req) /\ inbox[k].req <= row.last /\ inbox'[k] = inbox[k]
    BY DEF InboxOK, Gains
  <2>2. inbox[k].req \in Nat
    BY <2>1, <1>2 DEF IsAsk, Grows
  <2> QED BY <1>1, <1>2, <2>1, <2>2 DEF IsAsk
<1>4. \A k \in 1..Len(inbox') : k \notin 1..Len(inbox) => inbox'[k].req = r
  BY <1>2 DEF Gains
<1>5. \A k \in 1..Len(inbox') : IsAsk(inbox[k].req)' /\ inbox'[k].req <= row'.last
  BY <1>3, <1>4 DEF IsAsk
<1>6. dedup' \in 0..Len(inbox') /\ filed' \in 0..Len(inbox') /\ retire' \in 0..Len(inbox')
  BY <1>2 DEF InboxOK, Gains
<1> QED BY <1>5, <1>6 DEF InboxOK, Gains

\* Nothing undelivered is about the request that is filed.
LEMMA DecidedGains ==
  ASSUME RowOK, InboxOK, Decided, Grows, NEW r, Gains(r), row'.last \in Nat, row.last <= row'.last,
         of \in [Calls -> Nat], Delivers, \A d \in Deciders : Deciding(d)' => of'[d] # r
  PROVE  Decided'
<1>1. ASSUME NEW d \in Deciders, Deciding(d)', NEW i \in 1..Len(inbox'), inbox'[i].state = "pending"
      PROVE  inbox'[i].req # of'[d]
  <2>1. CASE i \in 1..Len(inbox)
    BY <1>1, <2>1 DEF Decided, Gains, Delivers
  <2>2. CASE i \notin 1..Len(inbox)
    <3>1. Len(inbox) \in Nat /\ Len(inbox') \in Nat
      BY DEF Gains, Files
    <3>2. inbox'[i].req = r
      BY <1>1, <2>2, <3>1 DEF Gains
    <3> QED BY <1>1, <3>2
  <2> QED BY <2>1, <2>2
<1> QED BY <1>1, DecidedOn DEF Decided

-----------------------------------------------------------------------------
(* The stream *)

\* What every step may use.
LEMMA Basics ==
  ASSUME IInv
  PROVE  /\ IsRow(row) /\ IsTail(tail) /\ row.status \in Statuses /\ row.stop \in BOOLEAN
         /\ row.last \in Nat /\ Len(log) \in Nat /\ row.last <= Len(log) /\ Len(tail.buf) \in Nat
         /\ of \in [Calls -> Nat] /\ pc \in [Calls -> Calling]
         /\ stopper \in {"off", "posting", "clearing"} /\ pos \in Nat /\ Len(inbox) \in Nat
         /\ row.pending \in Nat /\ row.entry \in Nat /\ retire \in Nat
         /\ tail.last = row.last /\ tail.out = row.out
<1>1. Len(log) \in Nat /\ Len(inbox) \in Nat /\ Len(tail.buf) \in Nat
  BY DEF IInv, LogOK, InboxOK, TailOK
<1> QED BY <1>1 DEF IInv, RowOK, TailOK, CallsOK, ClocksOK, InboxOK

\* The highest event handled is the last one buffered.
LEMMA SeenIs == ASSUME IInv PROVE Seen = row.last + Len(tail.buf)
<1>1. CASE tail.buf = <<>>
  BY <1>1, Basics DEF Seen
<1>2. CASE tail.buf # <<>>
  <2>1. tail.buf \in Seq(Nat)
    BY DEF IInv, TailOK
  <2>2. Len(tail.buf) \in 1..Len(tail.buf)
    BY <1>2, <2>1
  <2>3. tail.buf[Len(tail.buf)] = row.last + Len(tail.buf)
    BY <2>2 DEF IInv, TailOK
  <2> QED BY <1>2, <2>3 DEF Seen
<1> QED BY <1>1, <1>2

\* A frame is the event right after the last one recorded; nobody is filing or withdrawing.
LEMMA FrameIs ==
  ASSUME IInv, NEW kinds, Frame(kinds)
  PROVE  /\ wpc = "stream" /\ pos = row.last /\ pos < Len(log) /\ tail.buf = <<>>
         /\ lock = Nobody /\ filed = 0 /\ retire = 0 /\ boot = "done" /\ Live
         /\ log[pos + 1] \in kinds
<1>1. /\ wpc = "stream" /\ tail.buf = <<>> /\ lock = Nobody /\ pos < Len(log) /\ pos + 1 > tail.last
      /\ log[pos + 1] \in kinds
  BY DEF Frame
<1>2. filed = 0 /\ retire = 0 /\ boot = "done" /\ Live
  BY <1>1 DEF IInv, LockOK, Ended
<1>3. Len(tail.buf) = 0
  BY <1>1
<1>4. pos <= row.last + 0
  BY <1>1, <1>3 DEF IInv, TailOK
<1> QED BY <1>1, <1>2, <1>4, Basics

\* The next event is recorded, and it is no text.
LEMMA RecordedTail ==
  ASSUME IInv, UNCHANGED <<log, asking, hermes, ending, boot>>, pos = row.last, pos < Len(log),
         tail.buf = <<>>, tail' = [tail EXCEPT !.last = pos + 1], pos' = pos + 1,
         row'.last = pos + 1, row'.out = row.out, boot = "done", wpc' \notin {"asking", "finish"},
         wpc' = "arming" => log[pos + 1] = "question"
  PROVE  TailOK'
<1>1. /\ tail'.last = pos + 1 /\ tail'.out = tail.out /\ tail'.buf = <<>> /\ IsTail(tail')
  BY DEF IInv, TailOK, IsTail
<1>2. pos' \in 0..Len(log') /\ row'.last = pos' /\ ending'.seq \in 0..Len(log') /\ Len(tail'.buf) = 0
  BY <1>1, Basics DEF IInv, TailOK
<1>3. wpc' = "arming" => IsQuestion(row.last)'
  BY <1>2, Basics DEF IsQuestion
<1>4. \A k \in 1..Len(tail'.buf) : FALSE
  BY <1>2
<1>5. tail'.last = row'.last /\ tail'.out = row'.out /\ pos' <= row'.last + Len(tail'.buf)
  BY <1>1, <1>2, Basics
<1>6. tail'.buf \in Seq(Nat)
  BY <1>1 DEF IInv, TailOK
<1> QED BY <1>1, <1>2, <1>3, <1>4, <1>5, <1>6 DEF TailOK

LEMMA RecordedText ==
  ASSUME IInv, UNCHANGED log, pos = row.last, pos < Len(log), log[pos + 1] # "text",
         row'.last = pos + 1, row'.out = row.out, Live
  PROVE  row'.out \in Seq(Nat) /\ InOrder(row.out, Texts(row.last))'
<1>1. Texts(row.last)' = Texts(row.last)
  BY Basics DEF Texts
<1> QED BY <1>1 DEF IInv, Stored, InOrder

\* A sequence of text in order, with the text right after it.
Follows(out, buf, last, L) ==
    /\ \A k, l \in 1..Len(out) : k < l => out[k] < out[l]
    /\ \A k \in 1..Len(out) : out[k] \in 1..last /\ L[out[k]] = "text"
    /\ \A t \in 1..last : L[t] = "text" => \E k \in 1..Len(out) : out[k] = t
    /\ \A k \in 1..Len(buf) : buf[k] = last + k /\ L[last + k] = "text"
LEMMA Concatenated ==
  ASSUME NEW out \in Seq(Nat), NEW buf \in Seq(Nat), NEW last \in Nat, NEW L,
         Follows(out, buf, last, L)
  PROVE  Follows(out \o buf, <<>>, last + Len(buf), L)
<1> DEFINE n == Len(out)
           m == Len(buf)
           all == out \o buf
<1>0. /\ \A k, l \in 1..n : k < l => out[k] < out[l]
      /\ \A k \in 1..n : out[k] \in 1..last /\ L[out[k]] = "text"
      /\ \A t \in 1..last : L[t] = "text" => \E k \in 1..n : out[k] = t
      /\ \A k \in 1..m : buf[k] = last + k /\ L[last + k] = "text"
  BY DEF Follows
<1>1. n \in Nat /\ m \in Nat /\ Len(all) = n + m /\ Len(<<>>) = 0
  OBVIOUS
<1>2. \A k \in 1..n : all[k] = out[k]
  OBVIOUS
<1>3. \A k \in 1..m : all[n + k] = last + k
  BY <1>0
<1> HIDE DEF n, m, all
<1>4. \A k \in 1..(n + m) : k \notin 1..n => k - n \in 1..m /\ all[k] = last + (k - n)
  <2> SUFFICES ASSUME NEW k \in 1..(n + m), k \notin 1..n
               PROVE  k - n \in 1..m /\ all[k] = last + (k - n)
    OBVIOUS
  <2>1. k - n \in 1..m /\ n + (k - n) = k
    BY <1>1
  <2> QED BY <1>3, <2>1
<1>5. ASSUME NEW k \in 1..(n + m), NEW l \in 1..(n + m), k < l PROVE all[k] < all[l]
  <2>1. CASE l \in 1..n
    BY <1>0, <1>1, <1>2, <1>5, <2>1
  <2>2. CASE l \notin 1..n /\ k \in 1..n
    <3>1. all[k] \in 1..last
      BY <1>0, <1>1, <1>2, <2>2
    <3> QED BY <1>1, <1>4, <2>2, <3>1
  <2>3. CASE l \notin 1..n /\ k \notin 1..n
    BY <1>1, <1>4, <1>5, <2>3
  <2> QED BY <2>1, <2>2, <2>3
<1>6. ASSUME NEW k \in 1..(n + m) PROVE all[k] \in 1..(last + m) /\ L[all[k]] = "text"
  <2>1. CASE k \in 1..n
    <3>1. all[k] = out[k] /\ out[k] \in 1..last /\ L[out[k]] = "text"
      BY <1>0, <1>2, <2>1
    <3> QED BY <1>1, <3>1
  <2>2. CASE k \notin 1..n
    <3>1. k - n \in 1..m /\ all[k] = last + (k - n)
      BY <1>4, <2>2
    <3>2. L[last + (k - n)] = "text"
      BY <1>0, <3>1
    <3> QED BY <1>1, <3>1, <3>2
  <2> QED BY <2>1, <2>2
<1>7. ASSUME NEW t \in 1..(last + m), L[t] = "text" PROVE \E k \in 1..(n + m) : all[k] = t
  <2>1. CASE t <= last
    <3>1. PICK k \in 1..n : out[k] = t
      BY <1>0, <1>1, <1>7, <2>1
    <3> QED BY <1>1, <1>2, <3>1
  <2>2. CASE t > last
    <3>1. t - last \in 1..m /\ last + (t - last) = t
      BY <1>1, <2>2
    <3>2. PICK j \in 1..m : last + j = t
      BY <3>1
    <3>3. all[n + j] = t
      BY <1>3, <3>2
    <3>4. n + j \in 1..(n + m)
      BY <1>1
    <3> QED BY <3>3, <3>4
  <2> QED BY <1>1, <2>1, <2>2
<1>8. \A k \in 1..Len(<<>>) : FALSE
  BY <1>1
<1>9. /\ \A k, l \in 1..Len(all) : k < l => all[k] < all[l]
      /\ \A k \in 1..Len(all) : all[k] \in 1..(last + m) /\ L[all[k]] = "text"
      /\ \A t \in 1..(last + m) : L[t] = "text" => \E k \in 1..Len(all) : all[k] = t
  BY <1>1, <1>5, <1>6, <1>7
<1> QED BY <1>8, <1>9 DEF Follows, all, m

\* The buffer is stored: the text stays exact.
LEMMA FlushedText ==
  ASSUME IInv, UNCHANGED log, Live, row'.last = row.last + Len(tail.buf), row'.out = row.out \o tail.buf
  PROVE  row'.out \in Seq(Nat) /\ InOrder(row.out, Texts(row.last))'
<1>1. /\ row.out \in Seq(Nat) /\ tail.buf \in Seq(Nat) /\ row.last \in Nat
      /\ Len(row.out) \in Nat /\ Len(tail.buf) \in Nat /\ DOMAIN row.out = 1..Len(row.out)
  BY Basics DEF IInv, Stored, TailOK
<1>2. InOrder(row.out, Texts(row.last))
  BY DEF IInv, Stored
<1>3. \A k \in 1..Len(tail.buf) : tail.buf[k] = row.last + k /\ log[row.last + k] = "text"
  BY DEF IInv, TailOK
<1>4. Follows(row.out, tail.buf, row.last, log)
  <2>1. {row.out[k] : k \in 1..Len(row.out)} = {i \in 1..row.last : log[i] = "text"}
    BY <1>1, <1>2 DEF InOrder, Texts
  <2>2. \A k \in 1..Len(row.out) : row.out[k] \in 1..row.last /\ log[row.out[k]] = "text"
    BY <2>1
  <2>3. \A t \in 1..row.last : log[t] = "text" => \E k \in 1..Len(row.out) : row.out[k] = t
    BY <2>1
  <2>4. \A k, l \in 1..Len(row.out) : k < l => row.out[k] < row.out[l]
    BY <1>1, <1>2 DEF InOrder
  <2> QED BY <1>3, <2>2, <2>3, <2>4 DEF Follows
<1>5. Follows(row'.out, <<>>, row'.last, log)
  BY <1>1, <1>4, Concatenated
<1>6. row'.out \in Seq(Nat) /\ DOMAIN row'.out = 1..Len(row'.out)
  BY <1>1
<1>7. \A k \in DOMAIN row'.out : row'.out[k] \in Texts(row.last)'
  BY <1>5, <1>6 DEF Texts, Follows
<1>8. \A t \in Texts(row.last)' : \E k \in DOMAIN row'.out : row'.out[k] = t
  BY <1>5, <1>6 DEF Texts, Follows
<1>9. {row'.out[k] : k \in DOMAIN row'.out} = Texts(row.last)'
  BY <1>7, <1>8
<1> QED BY <1>5, <1>6, <1>9 DEF InOrder, Follows

\* Hermes works, ends the run or forgets it.
LEMMA WorksKeeps == ASSUME IInv, Hermes PROVE IInv'
<1>0. /\ IsRow(row) /\ IsTail(tail) /\ row.status \in Statuses /\ row.stop \in BOOLEAN
      /\ row.last \in Nat /\ of \in [Calls -> Nat] /\ stopper \in {"off", "posting", "clearing"}
  BY Basics
<1>1. UNCHANGED <<row, inbox, dedup, filed, tail, pos, moved, wpc, retire, ending, timer, fired,
                   stopper, lock, pc, of, boot, orphans>>
  BY DEF Hermes, hermesVars, queue, stream, watch, clocks, calls, history
<1>2. Grows
  BY WorkGrows DEF IInv, Hermes
<1>3. Files /\ NoneNew
  BY <1>1, StillFiles DEF IInv
<1>4. CASE Hermes
  <2>1. TRUE
    OBVIOUS
  <2>2. LogOK'
    BY <1>2 DEF Grows
  <2>3. RowOK'
    BY <1>1, <1>2, <1>3, <2>1, RowStays DEF IInv
  <2>4. TailOK'
    BY <1>0, <1>1, <1>2, <2>1, TailStays DEF IInv
  <2>5. InboxOK'
    BY <1>0, <1>1, <1>2, <2>1, InboxStays DEF IInv
  <2>6. ClocksOK'
    BY <1>0, <1>1, <1>2, <2>1, ClocksStay DEF IInv
  <2>7. CallsOK'
    BY <1>1, <2>1, CallsStay DEF IInv
  <2>8. LockOK'
    BY <1>1, <2>1 DEF IInv, LockOK, Watching
  <2>9. Ended'
    BY <1>1, <2>1 DEF IInv, Ended, Live
  <2>10. Stored'
    BY <1>1, <1>2, <2>1, StoredStays DEF IInv, Live
  <2>11. Decided'
    BY <1>0, <1>1, <1>2, <1>3, <2>1, DecidedStays DEF IInv
  <2>12. Offered'
    BY <1>1, <1>3, <2>1, OfferedStays DEF IInv, Excused, Live
  <2> QED BY <2>2, <2>3, <2>4, <2>5, <2>6, <2>7, <2>8, <2>9, <2>10, <2>11, <2>12 DEF IInv
<1> QED BY <1>4 DEF Hermes

\* The connection and the stream.
LEMMA FollowKeeps == ASSUME IInv, Follow PROVE IInv'
<1>0. /\ IsRow(row) /\ IsTail(tail) /\ row.status \in Statuses /\ row.stop \in BOOLEAN
      /\ row.last \in Nat /\ of \in [Calls -> Nat] /\ stopper \in {"off", "posting", "clearing"}
  BY Basics
<1>1. UNCHANGED <<log, asking, hermes, row, inbox, dedup, filed, lock, pc, of, boot, orphans>>
  BY DEF Follow, hermesVars, queue, stream, watch, clocks, calls, history
<1>2. Grows
  BY <1>1, StillGrows DEF IInv
<1>3. Files /\ NoneNew
  BY <1>1, StillFiles DEF IInv
<1>4. CASE Connects
  <2>1. /\ wpc = "connect" /\ wpc' \in {"stream", "refused", "down"} /\ stopper' \in {"posting", stopper}
        /\ pos' \in {pos, tail.last} \/ (hermes = "over" /\ pos' = Len(log))
        /\ UNCHANGED <<tail, retire, ending, timer, fired>>
    BY <1>0, <1>1, <1>4 DEF Connects, EnsureStop, stream
  <2>2. LogOK'
    BY <1>2 DEF Grows
  <2>3. RowOK'
    BY <1>1, <1>2, <1>3, <2>1, RowStays DEF IInv
  <2>4. TailOK'
    <3>1. boot = "done" /\ tail.last = row.last /\ row.last \in 0..Len(log) /\ Len(tail.buf) \in Nat
      BY <2>1, Basics DEF IInv, Ended, TailOK, RowOK
    <3>2. pos' \in 0..Len(log) /\ (pos' <= row.last + Len(tail.buf) \/ (hermes \in {"over", "gone"} /\ pos' = Len(log)))
      BY <2>1, <3>1, Basics DEF IInv, TailOK
    <3> QED BY <1>1, <2>1, <3>1, <3>2 DEF IInv, TailOK
  <2>5. InboxOK'
    BY <1>0, <1>1, <1>2, <2>1, InboxStays DEF IInv
  <2>6. ClocksOK'
    BY <1>0, <1>1, <1>2, <2>1, ClocksStay DEF IInv
  <2>7. CallsOK'
    BY <1>1, <2>1, CallsStay DEF IInv
  <2>8. LockOK'
    BY <1>1, <2>1 DEF IInv, LockOK, Watching
  <2>9. Ended'
    BY <1>1, <2>1 DEF IInv, Ended, Live
  <2>10. Stored'
    BY <1>1, <1>2, <2>1, StoredStays DEF IInv, Live
  <2>11. Decided'
    BY <1>0, <1>1, <1>2, <1>3, <2>1, DecidedStays DEF IInv
  <2>12. Offered'
    BY <1>1, <1>3, <2>1, OfferedStays DEF IInv, Excused, Live
  <2> QED BY <2>2, <2>3, <2>4, <2>5, <2>6, <2>7, <2>8, <2>9, <2>10, <2>11, <2>12 DEF IInv
<1>5. CASE StreamEnds
  <2>1. /\ wpc = "stream" /\ wpc' \in {"closed", "broken"}
        /\ UNCHANGED <<tail, pos, retire, ending, timer, fired, stopper>>
    BY <1>0, <1>1, <1>5 DEF StreamEnds, stream, clocks
  <2>2. LogOK'
    BY <1>2 DEF Grows
  <2>3. RowOK'
    BY <1>1, <1>2, <1>3, <2>1, RowStays DEF IInv
  <2>4. TailOK'
    BY <1>0, <1>1, <1>2, <2>1, TailStays DEF IInv
  <2>5. InboxOK'
    BY <1>0, <1>1, <1>2, <2>1, InboxStays DEF IInv
  <2>6. ClocksOK'
    BY <1>0, <1>1, <1>2, <2>1, ClocksStay DEF IInv
  <2>7. CallsOK'
    BY <1>1, <2>1, CallsStay DEF IInv
  <2>8. LockOK'
    BY <1>1, <2>1 DEF IInv, LockOK, Watching
  <2>9. Ended'
    BY <1>1, <2>1 DEF IInv, Ended, Live
  <2>10. Stored'
    BY <1>1, <1>2, <2>1, StoredStays DEF IInv, Live
  <2>11. Decided'
    BY <1>0, <1>1, <1>2, <1>3, <2>1, DecidedStays DEF IInv
  <2>12. Offered'
    BY <1>1, <1>3, <2>1, OfferedStays DEF IInv, Excused, Live
  <2> QED BY <2>2, <2>3, <2>4, <2>5, <2>6, <2>7, <2>8, <2>9, <2>10, <2>11, <2>12 DEF IInv
<1>6. CASE StreamOver
  <2>1. /\ wpc \in {"closed", "broken", "down"} /\ wpc' \in {"snapshot", "retry"} /\ pos' = 0
        /\ UNCHANGED <<tail, retire, ending, timer, fired, stopper>>
    BY <1>0, <1>1, <1>6 DEF StreamOver, clocks
  <2>2. LogOK'
    BY <1>2 DEF Grows
  <2>3. RowOK'
    BY <1>1, <1>2, <1>3, <2>1, RowStays DEF IInv
  <2>4. TailOK'
    <3>1. pos' \in 0..Len(log) /\ pos' <= row.last + Len(tail.buf)
      BY <2>1, Basics
    <3> QED BY <1>1, <2>1, <3>1 DEF IInv, TailOK
  <2>5. InboxOK'
    BY <1>0, <1>1, <1>2, <2>1, InboxStays DEF IInv
  <2>6. ClocksOK'
    BY <1>0, <1>1, <1>2, <2>1, ClocksStay DEF IInv
  <2>7. CallsOK'
    BY <1>1, <2>1, CallsStay DEF IInv
  <2>8. LockOK'
    BY <1>1, <2>1 DEF IInv, LockOK, Watching
  <2>9. Ended'
    BY <1>1, <2>1 DEF IInv, Ended, Live
  <2>10. Stored'
    BY <1>1, <1>2, <2>1, StoredStays DEF IInv, Live
  <2>11. Decided'
    BY <1>0, <1>1, <1>2, <1>3, <2>1, DecidedStays DEF IInv
  <2>12. Offered'
    BY <1>1, <1>3, <2>1, OfferedStays DEF IInv, Excused, Live
  <2> QED BY <2>2, <2>3, <2>4, <2>5, <2>6, <2>7, <2>8, <2>9, <2>10, <2>11, <2>12 DEF IInv
<1>7. CASE Retries
  <2>1. /\ wpc \in {"retry", "snapshot"} /\ wpc' \in {"connect", "retry"}
        /\ UNCHANGED <<tail, pos, retire, ending, timer, fired, stopper>>
    BY <1>0, <1>1, <1>7 DEF Retries, stream, clocks
  <2>2. LogOK'
    BY <1>2 DEF Grows
  <2>3. RowOK'
    BY <1>1, <1>2, <1>3, <2>1, RowStays DEF IInv
  <2>4. TailOK'
    BY <1>0, <1>1, <1>2, <2>1, TailStays DEF IInv
  <2>5. InboxOK'
    BY <1>0, <1>1, <1>2, <2>1, InboxStays DEF IInv
  <2>6. ClocksOK'
    BY <1>0, <1>1, <1>2, <2>1, ClocksStay DEF IInv
  <2>7. CallsOK'
    BY <1>1, <2>1, CallsStay DEF IInv
  <2>8. LockOK'
    BY <1>1, <2>1 DEF IInv, LockOK, Watching
  <2>9. Ended'
    BY <1>1, <2>1 DEF IInv, Ended, Live
  <2>10. Stored'
    BY <1>1, <1>2, <2>1, StoredStays DEF IInv, Live
  <2>11. Decided'
    BY <1>0, <1>1, <1>2, <1>3, <2>1, DecidedStays DEF IInv
  <2>12. Offered'
    BY <1>1, <1>3, <2>1, OfferedStays DEF IInv, Excused, Live
  <2> QED BY <2>2, <2>3, <2>4, <2>5, <2>6, <2>7, <2>8, <2>9, <2>10, <2>11, <2>12 DEF IInv
<1>8. CASE TakesText
  <2>1. /\ wpc = "stream" /\ wpc' = wpc /\ pos < Len(log) /\ pos' = pos + 1
        /\ UNCHANGED <<retire, ending, timer, fired, stopper>>
        /\ \/ pos + 1 <= Seen /\ tail' = tail
           \/ /\ pos + 1 > Seen /\ log[pos + 1] = "text" /\ tail' = [tail EXCEPT !.buf = Append(@, pos + 1)]
    BY <1>0, <1>1, <1>8 DEF TakesText, clocks
  <2>2. LogOK'
    BY <1>2 DEF Grows
  <2>3. RowOK'
    BY <1>1, <1>2, <1>3, <2>1, RowStays DEF IInv
  <2>4. TailOK'
    <3>1. boot = "done" /\ ending.seq \in 0..Len(log) /\ tail.buf \in Seq(Nat) /\ pos + 1 \in 0..Len(log)
      BY <2>1, Basics DEF IInv, Ended, TailOK
    <3>2. CASE pos + 1 <= Seen /\ tail' = tail
      <4>1. pos' <= row.last + Len(tail.buf) /\ pos' \in 0..Len(log)
        BY <2>1, <3>1, <3>2, SeenIs
      <4> QED BY <1>1, <2>1, <3>1, <3>2, <4>1 DEF IInv, TailOK
    <3>3. CASE pos + 1 > Seen /\ log[pos + 1] = "text" /\ tail' = [tail EXCEPT !.buf = Append(@, pos + 1)]
      <4>1. pos = row.last + Len(tail.buf)
        <5>1. pos <= row.last + Len(tail.buf) \/ pos = Len(log)
          BY DEF IInv, TailOK
        <5>2. pos <= row.last + Len(tail.buf) /\ pos + 1 > row.last + Len(tail.buf)
          BY <2>1, <3>3, <5>1, SeenIs, Basics
        <5>3. pos \in Nat /\ row.last \in Nat /\ Len(tail.buf) \in Nat
          BY Basics
        <5> QED BY <5>2, <5>3
      <4>2. /\ tail'.last = row.last /\ tail'.out = row.out /\ tail'.buf = Append(tail.buf, pos + 1)
            /\ IsTail(tail')
        BY <3>3, Basics DEF IsTail
      <4>3. /\ tail'.buf \in Seq(Nat) /\ Len(tail'.buf) = Len(tail.buf) + 1
            /\ tail'.buf[Len(tail.buf) + 1] = pos + 1
            /\ \A k \in 1..Len(tail.buf) : tail'.buf[k] = tail.buf[k]
        BY <3>1, <4>2, Basics
      <4>4. ASSUME NEW k \in 1..(Len(tail.buf) + 1)
            PROVE  tail'.buf[k] = row.last + k /\ row.last + k <= Len(log) /\ log[row.last + k] = "text"
        <5>1. CASE k \in 1..Len(tail.buf)
          <6>1. tail.buf[k] = row.last + k /\ row.last + k <= Len(log) /\ log[row.last + k] = "text"
            BY <5>1 DEF IInv, TailOK
          <6> QED BY <4>3, <5>1, <6>1
        <5>2. CASE k \notin 1..Len(tail.buf)
          <6>0. Len(tail.buf) \in Nat /\ row.last \in Nat
            BY Basics
          <6>1. k = Len(tail.buf) + 1 /\ row.last + k = pos + 1
            BY <4>1, <5>2, <6>0
          <6> QED BY <2>1, <3>3, <4>3, <6>1, Basics
        <5> QED BY <5>1, <5>2
      <4>5. pos' = row.last + Len(tail'.buf)
        BY <2>1, <4>1, <4>3, Basics
      <4>6. \A k \in 1..Len(tail'.buf) : /\ tail'.buf[k] = row'.last + k /\ row'.last + k <= Len(log')
                                         /\ log'[row'.last + k] = "text"
        BY <1>1, <4>3, <4>4
      <4>7. /\ tail'.last = row'.last /\ tail'.out = row'.out /\ pos' \in 0..Len(log')
            /\ ending'.seq \in 0..Len(log') /\ pos' <= row'.last + Len(tail'.buf)
        BY <1>1, <2>1, <3>1, <4>2, <4>5, Basics
      <4> QED BY <1>1, <2>1, <3>1, <4>2, <4>3, <4>6, <4>7 DEF TailOK
    <3> QED BY <2>1, <3>2, <3>3
  <2>5. InboxOK'
    BY <1>0, <1>1, <1>2, <2>1, InboxStays DEF IInv
  <2>6. ClocksOK'
    BY <1>0, <1>1, <1>2, <2>1, ClocksStay DEF IInv
  <2>7. CallsOK'
    BY <1>1, <2>1, CallsStay DEF IInv
  <2>8. LockOK'
    BY <1>1, <2>1 DEF IInv, LockOK, Watching
  <2>9. Ended'
    BY <1>1, <2>1 DEF IInv, Ended, Live
  <2>10. Stored'
    BY <1>1, <1>2, <2>1, StoredStays DEF IInv, Live
  <2>11. Decided'
    BY <1>0, <1>1, <1>2, <1>3, <2>1, DecidedStays DEF IInv
  <2>12. Offered'
    BY <1>1, <1>3, <2>1, OfferedStays DEF IInv, Excused, Live
  <2> QED BY <2>2, <2>3, <2>4, <2>5, <2>6, <2>7, <2>8, <2>9, <2>10, <2>11, <2>12 DEF IInv
<1> QED BY <1>4, <1>5, <1>6, <1>7, <1>8 DEF Follow

\* The watcher's writes.
LEMMA WritesKeep == ASSUME IInv, Writes PROVE IInv'
<1>0. /\ IsRow(row) /\ IsTail(tail) /\ row.status \in Statuses /\ row.stop \in BOOLEAN
      /\ row.last \in Nat /\ of \in [Calls -> Nat] /\ stopper \in {"off", "posting", "clearing"}
  BY Basics
<1>1. UNCHANGED <<log, asking, hermes, pc, of, boot>> /\ orphans \subseteq orphans'
  BY DEF Writes, ApprovalRecorded, ApprovalFiled, StoreApprovalId, hermesVars, calls, history
<1>2. Grows
  BY <1>1, StillGrows DEF IInv
<1>3. CASE Flush /\ tail' = tail
  <2>1. /\ wpc \in {"stream", "closed", "broken", "down", "refused"} /\ lock = Nobody
        /\ UNCHANGED <<pos, retire, ending, inbox, dedup, filed, lock, fired, row, tail>>
        /\ wpc' \in {wpc, "retry", "dead"} /\ timer' \in {0, timer} /\ stopper' \in {"off", stopper}
    <3>1. tail = [last |-> tail.last, out |-> tail.out, buf |-> tail.buf, stop |-> tail.stop]
      BY Basics DEF IsTail
    <3>2. tail' # [tail EXCEPT !.out = tail.out \o tail.buf, !.last = Seen, !.buf = <<>>]
      BY <1>3, <3>1 DEF Flush
    <3> QED BY <1>3, <3>2 DEF Flush, Dies, stream, queue, clocks
  <2>2. Files /\ NoneNew
    BY <2>1, StillFiles DEF IInv
  <2>3. LogOK'
    BY <1>2 DEF Grows
  <2>4. RowOK'
    BY <1>1, <1>2, <2>2, <2>1, RowStays DEF IInv
  <2>5. TailOK'
    BY <1>0, <1>1, <1>2, <2>1, TailStays DEF IInv
  <2>6. InboxOK'
    BY <1>0, <1>1, <1>2, <2>1, InboxStays DEF IInv
  <2>7. ClocksOK'
    BY <1>0, <1>1, <1>2, <2>1, ClocksStay DEF IInv
  <2>8. CallsOK'
    BY <1>1, <2>1, CallsStay DEF IInv
  <2>9. LockOK'
    BY <1>1, <2>1 DEF IInv, LockOK, Watching
  <2>10. Ended'
    BY <1>1, <2>1 DEF IInv, Ended, Live
  <2>11. Stored'
    BY <1>1, <1>2, <2>1, StoredStays DEF IInv, Live
  <2>12. Decided'
    BY <1>0, <1>1, <1>2, <2>2, <2>1, DecidedStays DEF IInv
  <2>13. Offered'
    BY <1>1, <2>2, <2>1, OfferedStays DEF IInv, Excused, Live
  <2> QED BY <2>3, <2>4, <2>5, <2>6, <2>7, <2>8, <2>9, <2>10, <2>11, <2>12, <2>13 DEF IInv
<1>4. CASE Flush /\ tail' # tail
  <2>1. /\ wpc \in {"stream", "closed", "broken", "down", "refused"} /\ lock = Nobody
        /\ UNCHANGED <<wpc, pos, retire, ending, inbox, dedup, filed, lock, timer, fired, stopper>>
        /\ IsRow(row') /\ row'.status = row.status /\ row'.pending = row.pending
        /\ row'.entry = row.entry /\ row'.stop = row.stop
        /\ row'.last = row.last + Len(tail.buf) /\ row'.out = row.out \o tail.buf
        /\ IsTail(tail') /\ tail'.last = row'.last /\ tail'.out = row'.out /\ tail'.buf = <<>>
    <3>1. row = [status |-> row.status, pending |-> row.pending, entry |-> row.entry,
               last |-> row.last, out |-> row.out, stop |-> row.stop]
      BY Basics DEF IsRow
    <3>2. tail = [last |-> tail.last, out |-> tail.out, buf |-> tail.buf, stop |-> tail.stop]
      BY Basics DEF IsTail
    <3>3. /\ row' = [row EXCEPT !.out = tail.out \o tail.buf, !.last = Seen]
          /\ tail' = [tail EXCEPT !.out = tail.out \o tail.buf, !.last = Seen, !.buf = <<>>]
          /\ wpc \in {"stream", "closed", "broken", "down", "refused"} /\ lock = Nobody
          /\ UNCHANGED <<wpc, pos, retire, ending, inbox, dedup, filed, lock, timer, fired, stopper>>
      BY <1>4 DEF Flush, stream, queue, clocks
    <3> QED BY <3>1, <3>2, <3>3, SeenIs, Basics DEF IsRow, IsTail
  <2>2. Files /\ NoneNew
    BY <2>1, StillFiles DEF IInv
  <2>3. Live /\ boot = "done"
    BY <2>1 DEF IInv, Ended
  <2>4. /\ row'.last \in 0..Len(log) /\ row'.last \in Nat /\ row.last <= row'.last
    <3>1. row.last + Len(tail.buf) <= Len(log)
      <4>1. CASE Len(tail.buf) = 0
        BY <4>1, Basics
      <4>2. CASE Len(tail.buf) # 0
        <5>1. Len(tail.buf) \in 1..Len(tail.buf)
          BY <4>2, Basics
        <5> QED BY <5>1 DEF IInv, TailOK
      <4> QED BY <4>1, <4>2
    <3>2. row.last \in Nat /\ Len(tail.buf) \in Nat /\ Len(log) \in Nat
      BY Basics
    <3> QED BY <2>1, <3>1, <3>2
  <2>5. LogOK'
    BY <1>2 DEF Grows
  <2>6. RowOK'
    <3>1. row'.pending \in 0..row'.last /\ row'.entry \in 0..Len(inbox')
      BY <2>1, <2>4 DEF IInv, RowOK
    <3> QED BY <1>1, <2>1, <2>4, <3>1 DEF IInv, RowOK, IsAsk, IsQuestion
  <2>7. TailOK'
    <3>1. Len(tail'.buf) = 0
      BY <2>1
    <3>2. (\A k \in 1..Len(tail'.buf) : FALSE) /\ tail'.buf \in Seq(Nat)
      BY <2>1, <3>1
    <3>3. pos' \in 0..Len(log') /\ ending'.seq \in 0..Len(log')
      BY <1>1, <2>1 DEF IInv, TailOK
    <3>4. pos' <= row'.last + Len(tail'.buf) \/ (hermes' \in {"over", "gone"} /\ pos' = Len(log'))
      <4>1. pos <= row.last + Len(tail.buf) \/ (hermes \in {"over", "gone"} /\ pos = Len(log))
        BY DEF IInv, TailOK
      <4> QED BY <1>1, <2>1, <2>4, <3>1, <4>1
    <3> QED BY <1>1, <2>1, <2>3, <3>2, <3>3, <3>4 DEF TailOK
  <2>8. InboxOK'
    BY <1>0, <1>1, <1>2, <2>1, <2>4, InboxStays DEF IInv
  <2>9. ClocksOK'
    BY <1>0, <1>1, <1>2, <2>1, ClocksStay DEF IInv
  <2>10. CallsOK'
    BY <1>1, <2>1, CallsStay DEF IInv
  <2>11. LockOK'
    BY <1>1, <2>1 DEF IInv, LockOK, Watching
  <2>12. Ended'
    BY <1>1, <2>1, <2>3 DEF IInv, Ended, Live
  <2>13. Stored'
    <3>1. row'.out \in Seq(Nat) /\ InOrder(row.out, Texts(row.last))'
      BY <1>1, <2>1, <2>3, FlushedText
    <3>2. \A d \in Deciders : pc[d] # "storing"
      BY <2>1, BridgeConstants DEF IInv, CallsOK, Calls
    <3> QED BY <1>1, <2>1, <3>1, <3>2 DEF Stored
  <2>14. Decided'
    BY <1>0, <1>1, <1>2, <2>2, <2>4, DecidedStays DEF IInv
  <2>15. Offered'
    BY <1>1, <2>2, <2>1, OfferedStays DEF IInv, Excused, Live
  <2> QED BY <2>5, <2>6, <2>7, <2>8, <2>9, <2>10, <2>11, <2>12, <2>13, <2>14, <2>15 DEF IInv
<1>5. CASE OtherEvent
  <2>1. /\ UNCHANGED <<ending, inbox, dedup, filed, lock, fired, stopper>>
        /\ IsRow(row') /\ row'.last = pos + 1 /\ row'.out = row.out /\ row'.stop = row.stop
        /\ row'.status \in Statuses \ Terminal
        /\ \/ row'.pending = row.pending /\ row'.entry = row.entry /\ retire' = 0
           \/ row'.pending = 0 /\ row'.entry = 0 /\ retire' = row.entry
        /\ timer' \in {0, timer} /\ wpc' = IF retire' # 0 THEN "withdraw" ELSE "stream"
        /\ tail' = [tail EXCEPT !.last = pos + 1] /\ pos' = pos + 1
    <3>1. row = [status |-> row.status, pending |-> row.pending, entry |-> row.entry,
               last |-> row.last, out |-> row.out, stop |-> row.stop]
      BY Basics DEF IsRow
    <3>2. Live
      BY <1>5, FrameIs DEF OtherEvent
    <3> QED BY <1>5, <3>1, <3>2, Basics DEF OtherEvent, Recorded, Cleared, IsRow, Live, Statuses, Terminal, queue
  <2>2. /\ wpc = "stream" /\ pos = row.last /\ pos < Len(log) /\ tail.buf = <<>>
        /\ lock = Nobody /\ filed = 0 /\ retire = 0 /\ boot = "done" /\ Live
        /\ log[pos + 1] \in {"settled", "answered", "stopping"}
    BY <1>5, FrameIs DEF OtherEvent
  <2>3. /\ row'.last \in 0..Len(log) /\ row'.last \in Nat /\ row.last <= row'.last /\ row'.last = row.last + 1
    BY <2>1, <2>2, Basics
  <2>4. Files /\ NoneNew
    BY <2>1, StillFiles DEF IInv
  <2>5. LogOK'
    BY <1>2 DEF Grows
  <2>6. RowOK'
    BY <1>0, <1>2, <2>1, <2>3, <2>4, RowRecords DEF IInv
  <2>7. TailOK'
    BY <1>1, <2>1, <2>2, RecordedTail
  <2>8. InboxOK'
    BY <1>1, <1>2, <2>1, <2>2, <2>3, InboxStays DEF IInv
  <2>9. ClocksOK'
    BY <1>0, <1>1, <1>2, <2>1, ClocksStay DEF IInv
  <2>10. CallsOK'
    BY <1>1, <2>1, CallsStay DEF IInv
  <2>11. LockOK'
    BY <1>1, <2>1, <2>2 DEF IInv, LockOK, Watching
  <2>12. Ended'
    BY <1>1, <2>1, <2>2 DEF Ended, Live
  <2>13. Stored'
    <3>1. row'.out \in Seq(Nat) /\ InOrder(row.out, Texts(row.last))'
      BY <1>1, <2>1, <2>2, RecordedText
    <3>2. \A d \in Deciders : pc[d] # "storing"
      BY <2>2, BridgeConstants DEF IInv, CallsOK, Calls
    <3> QED BY <1>1, <2>1, <3>1, <3>2 DEF Stored
  <2>14. Decided'
    BY <1>0, <1>1, <1>2, <2>3, <2>4, DecidedStays DEF IInv
  <2>15. Offered'
    BY <1>1, <2>1, <2>2 DEF IInv, Offered, Excused, Live
  <2> QED BY <2>5, <2>6, <2>7, <2>8, <2>9, <2>10, <2>11, <2>12, <2>13, <2>14, <2>15 DEF IInv
<1>6. CASE ClarifyRequested
  <2>1. /\ UNCHANGED <<ending, inbox, dedup, filed, lock, timer, fired, stopper>>
        /\ IsRow(row') /\ row'.last = pos + 1 /\ row'.out = row.out /\ row'.stop = row.stop
        /\ row'.status = "clarification" /\ row'.pending = pos + 1 /\ row'.entry = 0
        /\ retire' = (IF PendingIs("ask") THEN row.entry ELSE 0) /\ wpc' = "arming"
        /\ tail' = [tail EXCEPT !.last = pos + 1] /\ pos' = pos + 1
    <3>1. row = [status |-> row.status, pending |-> row.pending, entry |-> row.entry,
               last |-> row.last, out |-> row.out, stop |-> row.stop]
      BY Basics DEF IsRow
    <3> QED BY <1>6, <3>1 DEF ClarifyRequested, Recorded, IsRow, queue, clocks
  <2>2. /\ wpc = "stream" /\ pos = row.last /\ pos < Len(log) /\ tail.buf = <<>>
        /\ lock = Nobody /\ filed = 0 /\ retire = 0 /\ boot = "done" /\ Live
        /\ log[pos + 1] \in {"question"}
    BY <1>6, FrameIs DEF ClarifyRequested
  <2>3. /\ row'.last \in 0..Len(log) /\ row'.last \in Nat /\ row.last <= row'.last /\ row'.last = row.last + 1
    BY <2>1, <2>2, Basics
  <2>4. Files /\ NoneNew
    BY <2>1, StillFiles DEF IInv
  <2>5. LogOK'
    BY <1>2 DEF Grows
  <2>6. RowOK'
    <3>1. row'.last \in 1..Len(log') /\ log'[row'.last] = "question" /\ Len(inbox') \in Nat
      BY <1>1, <2>1, <2>2, <2>3, Basics
    <3> QED BY <1>0, <1>1, <2>1, <2>3, <3>1 DEF RowOK, Statuses, IsQuestion
  <2>7. TailOK'
    BY <1>1, <2>1, <2>2, RecordedTail
  <2>8. InboxOK'
    BY <1>1, <1>2, <2>1, <2>2, <2>3, InboxStays DEF IInv
  <2>9. ClocksOK'
    BY <1>0, <1>1, <1>2, <2>1, ClocksStay DEF IInv
  <2>10. CallsOK'
    BY <1>1, <2>1, CallsStay DEF IInv
  <2>11. LockOK'
    BY <1>1, <2>1, <2>2 DEF IInv, LockOK, Watching
  <2>12. Ended'
    BY <1>1, <2>1, <2>2 DEF Ended, Live, Terminal
  <2>13. Stored'
    <3>1. row'.out \in Seq(Nat) /\ InOrder(row.out, Texts(row.last))'
      BY <1>1, <2>1, <2>2, RecordedText
    <3>2. \A d \in Deciders : pc[d] # "storing"
      BY <2>2, BridgeConstants DEF IInv, CallsOK, Calls
    <3> QED BY <1>1, <2>1, <3>1, <3>2 DEF Stored
  <2>14. Decided'
    BY <1>0, <1>1, <1>2, <2>3, <2>4, DecidedStays DEF IInv
  <2>15. Offered'
    <3>1. \A i \in 1..Len(inbox) : inbox[i].state = "pending" /\ row.pending = inbox[i].req => PendingIs("ask")
      BY Basics DEF IInv, InboxOK, IsAsk, PendingIs
    <3> QED BY <1>1, <2>1, <2>2, <3>1 DEF IInv, Offered, Excused, Live
  <2> QED BY <2>5, <2>6, <2>7, <2>8, <2>9, <2>10, <2>11, <2>12, <2>13, <2>14, <2>15 DEF IInv
<1>7. CASE RecordFails
  <2>1. /\ UNCHANGED <<row, tail, pos, retire, ending, inbox, dedup, filed, lock, timer, fired, stopper>>
        /\ wpc = "stream" /\ wpc' = "retry"
    BY <1>0, <1>1, <1>7 DEF RecordFails, Frame, stream, queue, clocks
  <2>2. Files /\ NoneNew
    BY <2>1, StillFiles DEF IInv
  <2>3. LogOK'
    BY <1>2 DEF Grows
  <2>4. RowOK'
    BY <1>1, <1>2, <2>2, <2>1, RowStays DEF IInv
  <2>5. TailOK'
    BY <1>0, <1>1, <1>2, <2>1, TailStays DEF IInv
  <2>6. InboxOK'
    BY <1>0, <1>1, <1>2, <2>1, InboxStays DEF IInv
  <2>7. ClocksOK'
    BY <1>0, <1>1, <1>2, <2>1, ClocksStay DEF IInv
  <2>8. CallsOK'
    BY <1>1, <2>1, CallsStay DEF IInv
  <2>9. LockOK'
    BY <1>1, <2>1 DEF IInv, LockOK, Watching
  <2>10. Ended'
    BY <1>1, <2>1 DEF IInv, Ended, Live
  <2>11. Stored'
    BY <1>1, <1>2, <2>1, StoredStays DEF IInv, Live
  <2>12. Decided'
    BY <1>0, <1>1, <1>2, <2>2, <2>1, DecidedStays DEF IInv
  <2>13. Offered'
    BY <1>1, <2>2, <2>1, OfferedStays DEF IInv, Excused, Live
  <2> QED BY <2>3, <2>4, <2>5, <2>6, <2>7, <2>8, <2>9, <2>10, <2>11, <2>12, <2>13 DEF IInv
<1>8. CASE Withdraws
  <2>1. /\ wpc \in {"withdraw", "arming"} /\ Withdraw(retire) /\ retire' = 0 /\ wpc' = "stream"
        /\ timer' = (IF wpc = "arming" THEN tail.last ELSE timer)
        /\ UNCHANGED <<row, tail, pos, ending, filed, lock, fired, stopper>>
    BY <1>0, <1>1, <1>8 DEF Withdraws, stream
  <2>2. Loses(retire)
    BY <2>1, Inbox, Withdrawn, Basics DEF IInv
  <2>3. Files /\ NoneNew
    BY <2>2, LosesFiles DEF IInv
  <2>4. LogOK'
    BY <1>2 DEF Grows
  <2>5. RowOK'
    BY <1>1, <1>2, <2>3, <2>1, RowStays DEF IInv
  <2>6. TailOK'
    BY <1>0, <1>1, <1>2, <2>1, TailStays DEF IInv
  <2>7. InboxOK'
    BY <1>0, <1>1, <1>2, <2>1, <2>2, InboxLoses DEF IInv
  <2>8. ClocksOK'
    <3>1. wpc = "arming" => IsQuestion(row.last) /\ tail.last = row.last
      BY DEF IInv, TailOK
    <3> QED BY <1>1, <2>1, <3>1 DEF IInv, ClocksOK, IsQuestion
  <2>9. CallsOK'
    BY <1>1, <2>1, CallsStay DEF IInv
  <2>10. LockOK'
    BY <1>1, <2>1 DEF IInv, LockOK, Watching
  <2>11. Ended'
    BY <1>1, <2>1 DEF IInv, Ended, Live
  <2>12. Stored'
    BY <1>1, <1>2, <2>1, StoredStays DEF IInv, Live
  <2>13. Decided'
    BY <1>0, <1>1, <1>2, <2>3, <2>1, DecidedStays DEF IInv
  <2>14. Offered'
    BY <1>1, <2>1, <2>2, OfferedLoses DEF IInv, Excused, Live
  <2> QED BY <2>4, <2>5, <2>6, <2>7, <2>8, <2>9, <2>10, <2>11, <2>12, <2>13, <2>14 DEF IInv
<1>9. CASE ApprovalBegins
  <2>1. /\ Withdraw(row.entry) /\ lock' = "watcher" /\ wpc' = "asking" /\ timer' \in {0, timer}
        /\ UNCHANGED <<row, tail, pos, retire, ending, filed, fired, stopper>>
    BY <1>0, <1>1, <1>9 DEF ApprovalBegins, stream, queue
  <2>2. /\ wpc = "stream" /\ pos = row.last /\ pos < Len(log) /\ tail.buf = <<>>
        /\ lock = Nobody /\ filed = 0 /\ retire = 0 /\ boot = "done" /\ Live
        /\ log[pos + 1] \in {"ask"}
    BY <1>9, FrameIs DEF ApprovalBegins
  <2>3. Loses(row.entry)
    BY <2>1, Inbox, Withdrawn, Basics DEF IInv
  <2>4. Files /\ NoneNew
    BY <2>3, LosesFiles DEF IInv
  <2>5. LogOK'
    BY <1>2 DEF Grows
  <2>6. RowOK'
    BY <1>1, <1>2, <2>4, <2>1, RowStays DEF IInv
  <2>7. TailOK'
    <3>1. IsAsk(pos + 1)
      BY <2>2, Basics DEF IsAsk
    <3> QED BY <1>1, <2>1, <2>2, <3>1 DEF IInv, TailOK, IsAsk
  <2>8. InboxOK'
    BY <1>0, <1>1, <1>2, <2>1, <2>3, InboxLoses DEF IInv
  <2>9. ClocksOK'
    BY <1>0, <1>1, <1>2, <2>1, ClocksStay DEF IInv
  <2>10. CallsOK'
    BY <1>1, <2>1, <2>2, LockMoves DEF IInv
  <2>11. LockOK'
    BY <1>1, <2>1, <2>2, BridgeConstants DEF IInv, LockOK, Watching
  <2>12. Ended'
    BY <1>1, <2>1, <2>2 DEF Ended, Live
  <2>13. Stored'
    BY <1>1, <1>2, <2>1, StoredStays DEF IInv, Live
  <2>14. Decided'
    BY <1>0, <1>1, <1>2, <2>4, <2>1, DecidedStays DEF IInv
  <2>15. Offered'
    <3>1. ASSUME NEW i \in 1..Len(inbox'), inbox'[i].state = "pending" PROVE dedup' = i /\ Excused(i)'
      <4>1. i \in 1..Len(inbox) /\ inbox[i].state = "pending" /\ i # row.entry /\ dedup' = dedup
        BY <2>3, <3>1 DEF Loses
      <4>2. dedup = i /\ Excused(i)
        BY <2>2, <4>1 DEF IInv, Offered
      <4> QED BY <1>1, <2>1, <4>1, <4>2 DEF Excused
    <3> QED BY <1>1, <2>2, <3>1 DEF Offered
  <2> QED BY <2>5, <2>6, <2>7, <2>8, <2>9, <2>10, <2>11, <2>12, <2>13, <2>14, <2>15 DEF IInv
<1>10. CASE ApprovalRecorded /\ wpc' = "storing"
  <2>1. /\ wpc = "asking" /\ wpc' = "storing" /\ Enqueue(pos + 1)
        /\ UNCHANGED <<lock, retire, ending, timer, fired, stopper>>
        /\ IsRow(row') /\ row'.last = pos + 1 /\ row'.out = row.out /\ row'.stop = row.stop
        /\ row'.status = "approval" /\ row'.pending = pos + 1 /\ row'.entry = 0
        /\ tail' = [tail EXCEPT !.last = pos + 1] /\ pos' = pos + 1
    <3>1. row = [status |-> row.status, pending |-> row.pending, entry |-> row.entry,
               last |-> row.last, out |-> row.out, stop |-> row.stop]
      BY Basics DEF IsRow
    <3> QED BY <1>10, <3>1 DEF ApprovalRecorded, Recorded, IsRow, clocks
  <2>2. /\ lock = "watcher" /\ pos = row.last /\ pos < Len(log) /\ tail.buf = <<>> /\ filed = 0
        /\ log[pos + 1] = "ask" /\ boot = "done" /\ Live
    <3>1. lock = "watcher" /\ pos = row.last /\ tail.buf = <<>> /\ boot = "done" /\ Live /\ filed = 0
      BY <2>1 DEF IInv, LockOK, TailOK, Ended
    <3>2. pos + 1 \in 1..Len(log) /\ log[pos + 1] = "ask"
      BY <2>1 DEF IInv, TailOK, IsAsk
    <3> QED BY <3>1, <3>2, Basics
  <2>3. /\ row'.last \in 0..Len(log) /\ row'.last \in Nat /\ row.last <= row'.last /\ row'.last = row.last + 1
    BY <2>1, <2>2, Basics
  <2>4. pos + 1 \in Nat /\ Gains(pos + 1)
    <3>1. pos + 1 \in Nat
      BY Basics
    <3> QED BY <2>1, <3>1, Inbox, Enqueued DEF IInv
  <2>5. pos + 1 \in 1..Len(log') /\ log'[pos + 1] = "ask" /\ pos + 1 <= row'.last
    BY <1>1, <2>1, <2>2, Basics
  <2>6. LogOK'
    BY <1>2 DEF Grows
  <2>7. RowOK'
    <3>1. row'.last \in 1..Len(log') /\ log'[row'.last] = "ask" /\ Len(inbox') \in Nat
      BY <1>1, <2>1, <2>2, <2>3, <2>4, Basics DEF Gains, Files
    <3> QED BY <1>0, <1>1, <2>1, <2>3, <3>1 DEF RowOK, Statuses, IsAsk
  <2>8. TailOK'
    BY <1>1, <2>1, <2>2, RecordedTail
  <2>9. InboxOK'
    BY <1>2, <2>1, <2>3, <2>4, <2>5, InboxGains DEF IInv, IsAsk
  <2>10. ClocksOK'
    BY <1>0, <1>1, <1>2, <2>1, ClocksStay DEF IInv
  <2>11. CallsOK'
    BY <1>1, <2>1, CallsStay DEF IInv
  <2>12. LockOK'
    BY <1>1, <2>1, <2>2, <2>4, BridgeConstants DEF IInv, LockOK, Watching, Gains
  <2>13. Ended'
    BY <1>1, <2>1, <2>2 DEF Ended, Live, Terminal
  <2>14. Stored'
    <3>1. row'.out \in Seq(Nat) /\ InOrder(row.out, Texts(row.last))'
      BY <1>1, <2>1, <2>2, RecordedText
    <3>2. \A d \in Deciders : pc[d] # "storing"
      BY <2>2, BridgeConstants DEF IInv, CallsOK, Calls
    <3> QED BY <1>1, <2>1, <3>1, <3>2 DEF Stored
  <2>15. Decided'
    <3>1. ASSUME NEW d \in Deciders, Deciding(d)' PROVE of'[d] # pos + 1
      <4>1. of[d] <= row.last /\ of[d] \in Nat
        BY <1>0, <1>1, <3>1 DEF IInv, Decided, Deciding, Calls
      <4>2. row.last \in Nat /\ row.last = pos
        BY <2>2, Basics
      <4> QED BY <1>1, <4>1, <4>2
    <3>2. Delivers
      BY <1>1 DEF Delivers, Deciding
    <3> QED BY <1>0, <1>1, <1>2, <2>3, <2>4, <3>1, <3>2, DecidedGains DEF IInv
  <2>16. Offered'
    <3>1. ASSUME NEW i \in 1..Len(inbox'), inbox'[i].state = "pending"
          PROVE  dedup' = i /\ i = filed' /\ (Excused(i)' \/ inbox'[i].req = pos + 1)
      <4>1. dedup' = i /\ i = filed'
        BY <2>4, <3>1 DEF Gains
      <4>2. CASE inbox' = inbox
        <5>1. Excused(i)
          BY <2>1, <3>1, <4>2 DEF IInv, Offered
        <5> QED BY <1>1, <2>1, <4>1, <5>1 DEF Excused
      <4>3. CASE inbox'[filed'].req = pos + 1
        BY <4>1, <4>3
      <4> QED BY <2>4, <4>1, <4>2, <4>3 DEF Gains
    <3>2. filed' # 0
      BY <2>4 DEF Gains
    <3> QED BY <1>1, <2>1, <2>2, <3>1, <3>2 DEF Offered, Live, Terminal
  <2> QED BY <2>6, <2>7, <2>8, <2>9, <2>10, <2>11, <2>12, <2>13, <2>14, <2>15, <2>16 DEF IInv
<1>11. CASE ApprovalRecorded /\ wpc' # "storing"
  <2>1. /\ wpc = "asking" /\ wpc' = "retry" /\ lock' = Nobody
        /\ UNCHANGED <<row, tail, pos, retire, ending, inbox, dedup, filed, timer, fired, stopper>>
    BY <1>11 DEF ApprovalRecorded, stream, queue, clocks
  <2>2. Files /\ NoneNew
    BY <2>1, StillFiles DEF IInv
  <2>3. lock = "watcher" /\ filed = 0 /\ boot = "done"
    BY <2>1 DEF IInv, LockOK, Ended
  <2>4. LogOK'
    BY <1>2 DEF Grows
  <2>5. RowOK'
    BY <1>1, <1>2, <2>2, <2>1, RowStays DEF IInv
  <2>6. TailOK'
    BY <1>0, <1>1, <1>2, <2>1, TailStays DEF IInv
  <2>7. InboxOK'
    BY <1>0, <1>1, <1>2, <2>1, InboxStays DEF IInv
  <2>8. ClocksOK'
    BY <1>0, <1>1, <1>2, <2>1, ClocksStay DEF IInv
  <2>9. CallsOK'
    BY <1>1, <2>1, <2>3, LockMoves DEF IInv
  <2>10. LockOK'
    BY <1>1, <2>1, <2>3, BridgeConstants DEF IInv, LockOK, Watching
  <2>11. Ended'
    BY <1>1, <2>1 DEF IInv, Ended, Live
  <2>12. Stored'
    BY <1>1, <1>2, <2>1, StoredStays DEF IInv, Live
  <2>13. Decided'
    BY <1>0, <1>1, <1>2, <2>2, <2>1, DecidedStays DEF IInv
  <2>14. Offered'
    BY <1>1, <2>2, <2>1, OfferedStays DEF IInv, Excused, Live
  <2> QED BY <2>4, <2>5, <2>6, <2>7, <2>8, <2>9, <2>10, <2>11, <2>12, <2>13, <2>14 DEF IInv
<1>12. CASE ApprovalFiled
  <2>1. /\ wpc = "storing" /\ wpc' = "stream" /\ lock' = Nobody /\ filed' = 0
        /\ UNCHANGED <<tail, pos, retire, ending, inbox, dedup, timer, fired, stopper>>
        /\ IsRow(row') /\ row'.last = row.last /\ row'.out = row.out /\ row'.stop = row.stop
        /\ row'.status = row.status /\ row'.pending = row.pending
        /\ row'.entry = filed \/ (row'.entry = row.entry /\ filed \in orphans')
    <3>1. row = [status |-> row.status, pending |-> row.pending, entry |-> row.entry,
               last |-> row.last, out |-> row.out, stop |-> row.stop]
      BY Basics DEF IsRow
    <3>2. wpc = "storing"
      BY <1>12 DEF ApprovalFiled
    <3>3. row.pending = tail.last /\ Live
      BY <3>2, Basics DEF IInv, Stored, Ended
    <3> QED BY <1>12, <3>1, <3>3 DEF ApprovalFiled, StoreApprovalId, IsRow, stream, queue, clocks
  <2>2. Files /\ NoneNew
    BY <2>1, StillFiles DEF IInv
  <2>3. lock = "watcher" /\ filed # 0 /\ boot = "done" /\ Live
    BY <2>1, BridgeConstants DEF IInv, LockOK, Ended
  <2>4. LogOK'
    BY <1>2 DEF Grows
  <2>5. RowOK'
    BY <1>1, <2>1 DEF IInv, RowOK, InboxOK, IsAsk, IsQuestion
  <2>6. TailOK'
    BY <1>0, <1>1, <1>2, <2>1, TailStays DEF IInv
  <2>7. InboxOK'
    BY <1>0, <1>1, <1>2, <2>1, InboxStays DEF IInv
  <2>8. ClocksOK'
    BY <1>0, <1>1, <1>2, <2>1, ClocksStay DEF IInv
  <2>9. CallsOK'
    BY <1>1, <2>1, <2>3, LockMoves DEF IInv
  <2>10. LockOK'
    BY <1>1, <2>1, <2>3, BridgeConstants DEF IInv, LockOK, Watching
  <2>11. Ended'
    BY <1>1, <2>1, <2>3 DEF IInv, Ended, Live
  <2>12. Stored'
    <3>1. \A d \in Deciders : pc[d] # "storing"
      BY <2>3, BridgeConstants DEF IInv, CallsOK, Calls
    <3> QED BY <1>1, <1>2, <2>1, <3>1, StoredStays DEF IInv, Live
  <2>13. Decided'
    BY <1>0, <1>1, <1>2, <2>2, <2>1, DecidedStays DEF IInv
  <2>14. Offered'
    BY <1>1, <2>1, <2>3 DEF IInv, Offered, Excused, Live
  <2> QED BY <2>4, <2>5, <2>6, <2>7, <2>8, <2>9, <2>10, <2>11, <2>12, <2>13, <2>14 DEF IInv
<1>13. CASE FinishBegins
  <2>1. /\ wpc \in {"stream", "snapshot", "refused", "down", "broken"} /\ lock = Nobody
        /\ ending'.status \in Terminal /\ ending'.seq \in 0..Len(log)
        /\ lock' = "watcher" /\ wpc' = "finish" /\ timer' = 0 /\ pos' = 0
        /\ UNCHANGED <<row, tail, retire, filed, fired, stopper>>
        /\ IF Live /\ PendingIs("ask") THEN Withdraw(row.entry) ELSE UNCHANGED queue
    <3>1. PICK e \in Endings : ending' = e
      BY <1>13 DEF FinishBegins
    <3>2. 0 \in 0..Len(log) /\ (Frame({"end"}) => pos + 1 \in 0..Len(log) /\ wpc = "stream")
      BY Basics DEF Frame
    <3>3. /\ wpc \in {"stream", "snapshot", "refused", "down", "broken"}
          /\ e.status \in Terminal /\ e.seq \in 0..Len(log)
      BY <3>1, <3>2 DEF Endings, Terminal
    <3> QED BY <1>13, <3>1, <3>3 DEF FinishBegins
  <2>2. filed = 0 /\ retire = 0 /\ boot = "done" /\ Live
    BY <2>1 DEF IInv, LockOK, Ended
  <2>3. /\ \A i \in 1..Len(inbox') : inbox'[i].state = "pending" => dedup' = i /\ Excused(i)'
        /\ Files /\ NoneNew /\ InboxOK'
    <3>1. CASE PendingIs("ask")
      <4>1. Loses(row.entry)
        BY <2>1, <2>2, <3>1, Inbox, Withdrawn, Basics DEF IInv
      <4>2. ASSUME NEW i \in 1..Len(inbox'), inbox'[i].state = "pending"
            PROVE  dedup' = i /\ Excused(i)'
        <5>1. i \in 1..Len(inbox) /\ inbox[i].state = "pending" /\ i # row.entry /\ dedup' = dedup
          BY <4>1, <4>2 DEF Loses
        <5>2. dedup = i /\ Excused(i)
          BY <2>2, <5>1 DEF IInv, Offered
        <5> QED BY <1>1, <2>1, <5>1, <5>2 DEF Excused
      <4>3. Files /\ NoneNew
        BY <4>1, LosesFiles DEF IInv
      <4>4. InboxOK'
        BY <1>0, <1>1, <1>2, <2>1, <4>1, InboxLoses DEF IInv
      <4> QED BY <4>2, <4>3, <4>4
    <3>2. CASE ~PendingIs("ask")
      <4>1. inbox' = inbox /\ dedup' = dedup
        BY <2>1, <3>2 DEF queue
      <4>2. \A i \in 1..Len(inbox) : inbox[i].state = "pending" => row.pending # inbox[i].req
        BY <3>2, Basics DEF IInv, InboxOK, IsAsk, PendingIs
      <4>3. \A i \in 1..Len(inbox) : inbox[i].state = "pending" => dedup = i /\ Excused(i)
        BY <2>2, <4>2 DEF IInv, Offered
      <4>4. Files /\ NoneNew
        BY <4>1, StillFiles DEF IInv
      <4>5. InboxOK'
        BY <1>0, <1>1, <1>2, <2>1, <4>1, InboxStays DEF IInv
      <4> QED BY <1>1, <2>1, <4>1, <4>3, <4>4, <4>5 DEF Excused
    <3> QED BY <3>1, <3>2
  <2>4. LogOK'
    BY <1>2 DEF Grows
  <2>5. RowOK'
    BY <1>1, <1>2, <2>3, <2>1, RowStays DEF IInv
  <2>6. TailOK'
    <3>1. pos' \in 0..Len(log') /\ pos' <= row'.last + Len(tail'.buf)
      BY <1>1, <2>1, Basics
    <3> QED BY <1>1, <2>1, <2>2, <3>1 DEF IInv, TailOK
  <2>7. InboxOK'
    BY <2>3
  <2>8. ClocksOK'
    BY <1>0, <1>1, <1>2, <2>1, ClocksStay DEF IInv
  <2>9. CallsOK'
    BY <1>1, <2>1, LockMoves DEF IInv
  <2>10. LockOK'
    BY <1>1, <2>1, <2>2, BridgeConstants DEF IInv, LockOK, Watching
  <2>11. Ended'
    BY <1>1, <2>1, <2>2 DEF Ended, Live
  <2>12. Stored'
    BY <1>1, <1>2, <2>1, StoredStays DEF IInv, Live
  <2>13. Decided'
    BY <1>0, <1>1, <1>2, <2>3, <2>1, DecidedStays DEF IInv
  <2>14. Offered'
    BY <1>1, <2>2, <2>3 DEF Offered
  <2> QED BY <2>4, <2>5, <2>6, <2>7, <2>8, <2>9, <2>10, <2>11, <2>12, <2>13, <2>14 DEF IInv
<1>14. CASE FinishRecords /\ wpc' = "off"
  <2>1. /\ wpc = "finish" /\ wpc' = "off" /\ lock' = Nobody /\ timer' = 0 /\ stopper' = "off"
        /\ ending' = NoEnding /\ UNCHANGED <<pos, retire, inbox, dedup, filed, fired>>
        /\ IsRow(row') /\ row'.status = ending.status /\ row'.pending = 0 /\ row'.entry = 0 /\ row'.stop = FALSE
        /\ row'.last = (IF ending.seq > row.last THEN ending.seq ELSE row.last)
        /\ IsTail(tail') /\ tail'.last = row'.last /\ tail'.out = row'.out /\ tail'.buf = <<>>
    <3>1. row = [status |-> row.status, pending |-> row.pending, entry |-> row.entry,
               last |-> row.last, out |-> row.out, stop |-> row.stop]
      BY Basics DEF IsRow
    <3>2. Live
      BY <1>14 DEF FinishRecords, IInv, Ended
    <3>3. PICK out : row' = [row EXCEPT !.status = ending.status, !.pending = 0, !.entry = 0, !.stop = FALSE,
                                 !.out = out, !.last = IF ending.seq > @ THEN ending.seq ELSE @]
      BY <1>14, <3>2 DEF FinishRecords, Dies
    <3>4. tail' = TailOf(row')
      BY <1>14 DEF FinishRecords
    <3>5. /\ wpc = "finish" /\ wpc' = "off" /\ lock' = Nobody /\ timer' = 0 /\ stopper' = "off"
          /\ ending' = NoEnding /\ UNCHANGED <<pos, retire, inbox, dedup, filed, fired>>
      BY <1>14 DEF FinishRecords, Dies, stream, queue
    <3>6. /\ IsRow(row') /\ row'.status = ending.status /\ row'.pending = 0 /\ row'.entry = 0 /\ row'.stop = FALSE
          /\ row'.last = (IF ending.seq > row.last THEN ending.seq ELSE row.last)
      BY <3>1, <3>3 DEF IsRow
    <3>7. /\ IsTail(tail') /\ tail'.last = row'.last /\ tail'.out = row'.out /\ tail'.buf = <<>>
      BY <3>4 DEF TailOf, IsTail
    <3> QED BY <3>5, <3>6, <3>7
  <2>2. Files /\ NoneNew
    BY <2>1, StillFiles DEF IInv
  <2>3. /\ lock = "watcher" /\ filed = 0 /\ retire = 0 /\ boot = "done" /\ pos = 0
        /\ ending.status \in Terminal /\ ending.seq \in 0..Len(log)
    BY <2>1 DEF IInv, LockOK, Ended, TailOK
  <2>4. row'.last \in 0..Len(log) /\ row'.last \in Nat /\ row.last <= row'.last
    BY <2>1, <2>3, Basics
  <2>5. LogOK'
    BY <1>2 DEF Grows
  <2>6. RowOK'
    BY <1>0, <1>2, <2>1, <2>2, <2>3, <2>4, RowRecords DEF IInv, Statuses
  <2>7. TailOK'
    <3>1. Len(tail'.buf) = 0 /\ tail'.buf \in Seq(Nat)
      BY <2>1
    <3>2. (\A k \in 1..Len(tail'.buf) : FALSE) /\ pos' <= row'.last + Len(tail'.buf)
      BY <2>1, <2>3, <2>4, <3>1
    <3>3. pos' \in 0..Len(log') /\ ending'.seq \in 0..Len(log')
      BY <1>1, <2>1, <2>3, Basics DEF NoEnding
    <3> QED BY <1>1, <2>1, <2>3, <3>1, <3>2, <3>3 DEF TailOK
  <2>8. InboxOK'
    BY <1>0, <1>1, <1>2, <2>1, <2>4, InboxStays DEF IInv
  <2>9. ClocksOK'
    BY <1>0, <1>1, <1>2, <2>1, ClocksStay DEF IInv
  <2>10. CallsOK'
    BY <1>1, <2>1, <2>3, LockMoves DEF IInv
  <2>11. LockOK'
    BY <1>1, <2>1, <2>3, BridgeConstants DEF IInv, LockOK, Watching
  <2>12. Ended'
    BY <1>1, <2>1, <2>3 DEF Ended, Live
  <2>13. Stored'
    <3>1. \A d \in Deciders : pc[d] # "storing"
      BY <2>3, BridgeConstants DEF IInv, CallsOK, Calls
    <3> QED BY <1>1, <2>1, <2>3, <3>1 DEF Stored, Live
  <2>14. Decided'
    BY <1>0, <1>1, <1>2, <2>2, <2>4, DecidedStays DEF IInv
  <2>15. Offered'
    BY <1>1, <2>1, <2>3 DEF IInv, Offered, Excused
  <2> QED BY <2>5, <2>6, <2>7, <2>8, <2>9, <2>10, <2>11, <2>12, <2>13, <2>14, <2>15 DEF IInv
<1>15. CASE FinishRecords /\ wpc' # "off"
  <2>1. /\ wpc = "finish" /\ wpc' \in {"retry", "dead"} /\ lock' = Nobody
        /\ timer' \in {0, timer} /\ stopper' \in {"off", stopper}
        /\ ending' = NoEnding /\ UNCHANGED <<row, tail, pos, retire, inbox, dedup, filed, fired>>
    BY <1>15 DEF FinishRecords, Dies, stream, queue, clocks
  <2>2. Files /\ NoneNew
    BY <2>1, StillFiles DEF IInv
  <2>3. lock = "watcher" /\ filed = 0 /\ retire = 0 /\ boot = "done"
    BY <2>1 DEF IInv, LockOK, Ended
  <2>4. LogOK'
    BY <1>2 DEF Grows
  <2>5. RowOK'
    BY <1>1, <1>2, <2>2, <2>1, RowStays DEF IInv
  <2>6. TailOK'
    <3>1. ending'.seq \in 0..Len(log)
      BY <2>1, Basics DEF NoEnding
    <3> QED BY <1>1, <2>1, <2>3, <3>1 DEF IInv, TailOK
  <2>7. InboxOK'
    BY <1>0, <1>1, <1>2, <2>1, InboxStays DEF IInv
  <2>8. ClocksOK'
    BY <1>0, <1>1, <1>2, <2>1, ClocksStay DEF IInv
  <2>9. CallsOK'
    BY <1>1, <2>1, <2>3, LockMoves DEF IInv
  <2>10. LockOK'
    BY <1>1, <2>1, <2>3, BridgeConstants DEF IInv, LockOK, Watching
  <2>11. Ended'
    BY <1>1, <2>1 DEF IInv, Ended, Live
  <2>12. Stored'
    BY <1>1, <1>2, <2>1, StoredStays DEF IInv, Live
  <2>13. Decided'
    BY <1>0, <1>1, <1>2, <2>2, <2>1, DecidedStays DEF IInv
  <2>14. Offered'
    BY <1>1, <2>2, <2>1, OfferedStays DEF IInv, Excused, Live
  <2> QED BY <2>4, <2>5, <2>6, <2>7, <2>8, <2>9, <2>10, <2>11, <2>12, <2>13, <2>14 DEF IInv
<1> QED BY <1>3, <1>4, <1>5, <1>6, <1>7, <1>8, <1>9, <1>10, <1>11, <1>12, <1>13, <1>14, <1>15 DEF Writes

\* The clarify deadline, and the stop that hal0 decided on.
LEMMA TimersKeep == ASSUME IInv, Timers PROVE IInv'
<1>0. /\ IsRow(row) /\ IsTail(tail) /\ row.status \in Statuses /\ row.stop \in BOOLEAN
      /\ row.last \in Nat /\ of \in [Calls -> Nat] /\ stopper \in {"off", "posting", "clearing"}
  BY Basics
<1>1. UNCHANGED <<inbox, dedup, filed, pos, wpc, retire, ending, lock, pc, of, boot, orphans>>
  BY DEF Timers, Deadline, queue, stream, calls, history
<1>2. Grows
  <2>1. CASE DeliverStop
    BY <2>1, StopGrows, StillGrows DEF IInv, DeliverStop, hermesVars
  <2>2. CASE TimerFires \/ Deadline \/ StopDelivers
    BY <2>2, StillGrows DEF IInv, TimerFires, Deadline, StopDelivers, hermesVars
  <2> QED BY <2>1, <2>2 DEF Timers
<1>3. Files /\ NoneNew
  BY <1>1, StillFiles DEF IInv
<1>4. CASE TimerFires
  <2>1. /\ UNCHANGED <<row, tail, stopper>> /\ timer' = 0 /\ timer # 0 /\ fired' = fired \cup {timer}
    BY <1>0, <1>1, <1>4 DEF TimerFires
  <2>2. LogOK'
    BY <1>2 DEF Grows
  <2>3. RowOK'
    BY <1>1, <1>2, <1>3, <2>1, RowStays DEF IInv
  <2>4. TailOK'
    BY <1>0, <1>1, <1>2, <2>1, TailStays DEF IInv
  <2>5. InboxOK'
    BY <1>0, <1>1, <1>2, <2>1, InboxStays DEF IInv
  <2>6. ClocksOK'
    BY <1>0, <1>1, <1>2, <2>1, ClocksStay DEF IInv
  <2>7. CallsOK'
    BY <1>1, <2>1, CallsStay DEF IInv
  <2>8. LockOK'
    BY <1>1, <2>1 DEF IInv, LockOK, Watching
  <2>9. Ended'
    BY <1>1, <2>1 DEF IInv, Ended, Live
  <2>10. Stored'
    BY <1>1, <1>2, <2>1, StoredStays DEF IInv, Live
  <2>11. Decided'
    BY <1>0, <1>1, <1>2, <1>3, <2>1, DecidedStays DEF IInv
  <2>12. Offered'
    BY <1>1, <1>3, <2>1, OfferedStays DEF IInv, Excused, Live
  <2> QED BY <2>2, <2>3, <2>4, <2>5, <2>6, <2>7, <2>8, <2>9, <2>10, <2>11, <2>12 DEF IInv
<1>5. CASE Deadline
  <2>1. /\ lock = Nobody /\ timer' = timer /\ fired' \subseteq fired /\ stopper' \in {stopper, "posting"}
        /\ IsTail(tail') /\ tail'.last = tail.last /\ tail'.out = tail.out /\ tail'.buf = tail.buf
        /\ IsRow(row') /\ row'.last = row.last /\ row'.out = row.out /\ row'.entry = row.entry
        /\ \/ row' = row
           \/ /\ Live /\ IsQuestion(row.pending) /\ row'.pending = 0 /\ row'.status = "stopping"
              /\ row'.stop = TRUE
    <3>1. row = [status |-> row.status, pending |-> row.pending, entry |-> row.entry,
               last |-> row.last, out |-> row.out, stop |-> row.stop]
      BY Basics DEF IsRow
    <3>2. tail = [last |-> tail.last, out |-> tail.out, buf |-> tail.buf, stop |-> tail.stop]
      BY Basics DEF IsTail
    <3>3. PICK r \in fired :
          /\ lock = Nobody /\ fired' = fired \ {r} /\ timer' = timer
          /\ \/ /\ Live /\ row.pending = r
                /\ row' = [row EXCEPT !.pending = 0, !.status = "stopping", !.stop = TRUE]
                /\ tail' = [tail EXCEPT !.stop = TRUE] /\ stopper' \in {stopper, "posting"}
             \/ UNCHANGED <<row, tail, stopper>>
      BY <1>5 DEF Deadline, EnsureStop
    <3>4. IsQuestion(r)
      BY DEF IInv, ClocksOK
    <3>5. CASE /\ Live /\ row.pending = r
               /\ row' = [row EXCEPT !.pending = 0, !.status = "stopping", !.stop = TRUE]
               /\ tail' = [tail EXCEPT !.stop = TRUE] /\ stopper' \in {stopper, "posting"}
      <4>1. /\ IsRow(row') /\ row'.last = row.last /\ row'.out = row.out /\ row'.entry = row.entry
            /\ row'.pending = 0 /\ row'.status = "stopping" /\ row'.stop = TRUE
        BY <3>1, <3>5 DEF IsRow
      <4>2. IsTail(tail') /\ tail'.last = tail.last /\ tail'.out = tail.out /\ tail'.buf = tail.buf
        BY <3>2, <3>5 DEF IsTail
      <4> QED BY <3>3, <3>4, <3>5, <4>1, <4>2
    <3>6. CASE UNCHANGED <<row, tail, stopper>>
      BY <3>3, <3>6, Basics
    <3> QED BY <3>3, <3>5, <3>6
  <2>2. LogOK'
    BY <1>2 DEF Grows
  <2>3. RowOK'
    BY <1>0, <1>2, <1>3, <2>1, RowMoves DEF IInv, Statuses, Terminal
  <2>4. TailOK'
    BY <1>0, <1>1, <1>2, <2>1, TailStays DEF IInv
  <2>5. InboxOK'
    BY <1>0, <1>1, <1>2, <2>1, InboxStays DEF IInv
  <2>6. ClocksOK'
    BY <1>0, <1>1, <1>2, <2>1, ClocksStay DEF IInv
  <2>7. CallsOK'
    BY <1>1, <2>1, CallsStay DEF IInv
  <2>8. LockOK'
    BY <1>1, <2>1 DEF IInv, LockOK, Watching
  <2>9. Ended'
    BY <1>1, <2>1 DEF IInv, Ended, Live, Terminal
  <2>10. Stored'
    <3>1. \A d \in Deciders : pc[d] # "storing"
      BY <2>1, BridgeConstants DEF IInv, CallsOK, Calls
    <3>2. wpc # "storing"
      BY <2>1, BridgeConstants DEF IInv, LockOK
    <3> QED BY <1>1, <1>2, <2>1, <3>1, <3>2, StoredStays DEF IInv, Live
  <2>11. Decided'
    BY <1>0, <1>1, <1>2, <1>3, <2>1, DecidedStays DEF IInv
  <2>12. Offered'
    <3>1. CASE row' = row
      BY <1>1, <1>3, <2>1, <3>1, OfferedStays DEF IInv, Excused, Live
    <3>2. CASE row' # row
      <4>1. \A i \in 1..Len(inbox) : row.pending # inbox[i].req
        BY <2>1, <3>2 DEF IInv, InboxOK, IsAsk, IsQuestion
      <4> QED BY <1>1, <4>1 DEF IInv, Offered, Excused
    <3> QED BY <3>1, <3>2
  <2> QED BY <2>2, <2>3, <2>4, <2>5, <2>6, <2>7, <2>8, <2>9, <2>10, <2>11, <2>12 DEF IInv
<1>6. CASE DeliverStop
  <2>1. /\ UNCHANGED <<row, timer, fired>> /\ stopper' \in {stopper, "clearing"}
        /\ IsTail(tail') /\ tail'.last = tail.last /\ tail'.out = tail.out /\ tail'.buf = tail.buf
    <3>1. tail = [last |-> tail.last, out |-> tail.out, buf |-> tail.buf, stop |-> tail.stop]
      BY Basics DEF IsTail
    <3>2. /\ UNCHANGED <<row, timer, fired>> /\ stopper' \in {stopper, "clearing"}
          /\ tail' = tail \/ tail' = [tail EXCEPT !.stop = FALSE]
      BY <1>6 DEF DeliverStop
    <3> QED BY <3>1, <3>2 DEF IsTail
  <2>2. LogOK'
    BY <1>2 DEF Grows
  <2>3. RowOK'
    BY <1>1, <1>2, <1>3, <2>1, RowStays DEF IInv
  <2>4. TailOK'
    BY <1>0, <1>1, <1>2, <2>1, TailStays DEF IInv
  <2>5. InboxOK'
    BY <1>0, <1>1, <1>2, <2>1, InboxStays DEF IInv
  <2>6. ClocksOK'
    BY <1>0, <1>1, <1>2, <2>1, ClocksStay DEF IInv
  <2>7. CallsOK'
    BY <1>1, <2>1, CallsStay DEF IInv
  <2>8. LockOK'
    BY <1>1, <2>1 DEF IInv, LockOK, Watching
  <2>9. Ended'
    BY <1>1, <2>1 DEF IInv, Ended, Live
  <2>10. Stored'
    BY <1>1, <1>2, <2>1, StoredStays DEF IInv, Live
  <2>11. Decided'
    BY <1>0, <1>1, <1>2, <1>3, <2>1, DecidedStays DEF IInv
  <2>12. Offered'
    BY <1>1, <1>3, <2>1, OfferedStays DEF IInv, Excused, Live
  <2> QED BY <2>2, <2>3, <2>4, <2>5, <2>6, <2>7, <2>8, <2>9, <2>10, <2>11, <2>12 DEF IInv
<1>7. CASE StopDelivers
  <2>1. /\ UNCHANGED <<tail, timer, fired>> /\ stopper' = "off" /\ lock = Nobody
        /\ IsRow(row') /\ row'.last = row.last /\ row'.out = row.out /\ row'.entry = row.entry
        /\ row'.pending = row.pending /\ row'.status = row.status /\ row'.stop \in BOOLEAN
    <3>1. row = [status |-> row.status, pending |-> row.pending, entry |-> row.entry,
               last |-> row.last, out |-> row.out, stop |-> row.stop]
      BY Basics DEF IsRow
    <3> QED BY <1>7, <3>1, Basics DEF StopDelivers, IsRow
  <2>2. LogOK'
    BY <1>2 DEF Grows
  <2>3. RowOK'
    BY <1>0, <1>2, <1>3, <2>1, RowMoves DEF IInv, Statuses, Terminal
  <2>4. TailOK'
    BY <1>0, <1>1, <1>2, <2>1, TailStays DEF IInv
  <2>5. InboxOK'
    BY <1>0, <1>1, <1>2, <2>1, InboxStays DEF IInv
  <2>6. ClocksOK'
    BY <1>0, <1>1, <1>2, <2>1, ClocksStay DEF IInv
  <2>7. CallsOK'
    BY <1>1, <2>1, CallsStay DEF IInv
  <2>8. LockOK'
    BY <1>1, <2>1 DEF IInv, LockOK, Watching
  <2>9. Ended'
    BY <1>1, <2>1 DEF IInv, Ended, Live
  <2>10. Stored'
    BY <1>1, <1>2, <2>1, StoredStays DEF IInv, Live
  <2>11. Decided'
    BY <1>0, <1>1, <1>2, <1>3, <2>1, DecidedStays DEF IInv
  <2>12. Offered'
    BY <1>1, <1>3, <2>1, OfferedStays DEF IInv, Excused, Live
  <2> QED BY <2>2, <2>3, <2>4, <2>5, <2>6, <2>7, <2>8, <2>9, <2>10, <2>11, <2>12 DEF IInv
<1> QED BY <1>4, <1>5, <1>6, <1>7 DEF Timers

\* Reattach: nothing is pending in memory yet, and no call is under way.
LEMMA ReattachKeeps == ASSUME IInv, Reattach PROVE IInv'
<1>0. /\ IsRow(row) /\ IsTail(tail) /\ row.status \in Statuses /\ row.stop \in BOOLEAN
      /\ row.last \in Nat /\ of \in [Calls -> Nat] /\ stopper \in {"off", "posting", "clearing"}
  BY Basics
<1>1. UNCHANGED <<log, asking, hermes, pos, retire, ending, fired, pc, of>> /\ orphans \subseteq orphans'
  BY DEF Reattach, AttachStores, StoreApprovalId, hermesVars, stream, calls, history
<1>2. Grows
  BY <1>1, StillGrows DEF IInv
<1>3. CASE BootEnds
  <2>1. /\ boot = "probe" /\ boot' = "done"
        /\ UNCHANGED <<tail, wpc, inbox, dedup, filed, lock, timer, stopper>>
        /\ IsRow(row') /\ row'.last = row.last /\ row'.out = row.out
        /\ row'.status \in Terminal \cup {row.status} /\ row'.pending \in {0, row.pending} /\ row'.entry \in {0, row.entry} /\ row'.stop \in BOOLEAN
    <3>1. row = [status |-> row.status, pending |-> row.pending, entry |-> row.entry,
               last |-> row.last, out |-> row.out, stop |-> row.stop]
      BY Basics DEF IsRow
    <3> QED BY <1>3, <3>1, Basics DEF BootEnds, IsRow, Live, Terminal, queue
  <2>2. /\ wpc = "off" /\ lock = Nobody /\ filed = 0 /\ retire = 0 /\ pos = 0
        /\ (\A c \in Calls : pc[c] \in {"new", "done"})
        /\ \A i \in 1..Len(inbox) : inbox[i].state # "pending"
    <3>1. /\ wpc = "off" /\ (\A c \in Calls : pc[c] \in {"new", "done"}) /\ pos = 0
          /\ \A i \in 1..Len(inbox) : inbox[i].state # "pending"
      BY <2>1 DEF IInv, Ended, CallsOK, Offered, TailOK
    <3>2. lock = Nobody
      BY <2>1, <3>1 DEF IInv, LockOK, CallsOK
    <3> QED BY <3>1, <3>2 DEF IInv, LockOK
  <2>3. Files /\ NoneNew
    BY <2>1, StillFiles DEF IInv
  <2>4. LogOK'
    BY <1>2 DEF Grows
  <2>5. RowOK'
    BY <1>0, <1>2, <2>3, <2>1, RowMoves DEF IInv, Statuses, Terminal
  <2>6. TailOK'
    BY <1>0, <1>1, <1>2, <2>1, TailStays DEF IInv
  <2>7. InboxOK'
    BY <1>0, <1>1, <1>2, <2>1, InboxStays DEF IInv
  <2>8. ClocksOK'
    BY <1>0, <1>1, <1>2, <2>1, ClocksStay DEF IInv
  <2>9. CallsOK'
    BY <1>1, <2>1, CallsStay DEF IInv
  <2>10. LockOK'
    BY <1>1, <2>1, <2>2, BridgeConstants DEF IInv, LockOK, Watching
  <2>11. Ended'
    BY <1>1, <2>1, <2>2 DEF IInv, Ended, Live
  <2>12. Stored'
    <3>1. \A d \in Deciders : pc[d] # "storing"
      BY <2>2 DEF Calls
    <3> QED BY <1>1, <1>2, <2>1, <2>2, <3>1, StoredStays DEF IInv, Live, Terminal
  <2>13. Decided'
    BY <1>0, <1>1, <1>2, <2>3, <2>1, DecidedStays DEF IInv
  <2>14. Offered'
    BY <2>1, <2>2 DEF Offered
  <2> QED BY <2>4, <2>5, <2>6, <2>7, <2>8, <2>9, <2>10, <2>11, <2>12, <2>13, <2>14 DEF IInv
<1>4. CASE Attach /\ ~PendingIs("ask")
  <2>1. /\ boot = "probe" /\ boot' = "done" /\ Live /\ wpc' = "connect" /\ tail' = TailOf(row)
        /\ timer' \in {0, row.pending} /\ (timer' # 0 => PendingIs("question"))
        /\ stopper' \in {"posting", "off"}
        /\ UNCHANGED <<row, inbox, dedup, filed, lock>>
    BY <1>4 DEF Attach, queue
  <2>2. /\ wpc = "off" /\ lock = Nobody /\ filed = 0 /\ retire = 0 /\ pos = 0
        /\ (\A c \in Calls : pc[c] \in {"new", "done"})
        /\ \A i \in 1..Len(inbox) : inbox[i].state # "pending"
    <3>1. /\ wpc = "off" /\ (\A c \in Calls : pc[c] \in {"new", "done"}) /\ pos = 0
          /\ \A i \in 1..Len(inbox) : inbox[i].state # "pending"
      BY <2>1 DEF IInv, Ended, CallsOK, Offered, TailOK
    <3>2. lock = Nobody
      BY <2>1, <3>1 DEF IInv, LockOK, CallsOK
    <3> QED BY <3>1, <3>2 DEF IInv, LockOK
  <2>3. Files /\ NoneNew
    BY <2>1, StillFiles DEF IInv
  <2>4. LogOK'
    BY <1>2 DEF Grows
  <2>5. RowOK'
    BY <1>1, <1>2, <2>3, <2>1, RowStays DEF IInv
  <2>6. TailOK'
    <3>1. /\ IsTail(tail') /\ tail'.last = row'.last /\ tail'.out = row'.out /\ tail'.buf = <<>>
      BY <1>1, <2>1 DEF TailOf, IsTail
    <3>2. Len(tail'.buf) = 0 /\ tail'.buf \in Seq(Nat) /\ \A k \in 1..Len(tail'.buf) : FALSE
      BY <3>1
    <3>3. pos' \in 0..Len(log') /\ ending'.seq \in 0..Len(log') /\ pos' <= row'.last + Len(tail'.buf)
      <4>1. row.last \in Nat /\ Len(log) \in Nat /\ ending.seq \in 0..Len(log)
        BY Basics DEF IInv, TailOK
      <4>2. pos' = 0 /\ row'.last = row.last /\ ending' = ending /\ log' = log
        BY <1>1, <2>1, <2>2
      <4> QED BY <3>2, <4>1, <4>2
    <3> QED BY <1>1, <2>1, <2>2, <3>1, <3>2, <3>3 DEF TailOK
  <2>7. InboxOK'
    BY <1>0, <1>1, <1>2, <2>1, InboxStays DEF IInv
  <2>8. ClocksOK'
    <3>1. timer' # 0 => IsQuestion(row.pending)
      BY <2>1 DEF IInv, RowOK, PendingIs, IsQuestion, IsAsk
    <3> QED BY <1>1, <2>1, <3>1 DEF IInv, ClocksOK, IsQuestion
  <2>9. CallsOK'
    BY <1>1, <2>1, CallsStay DEF IInv
  <2>10. LockOK'
    BY <1>1, <2>1, <2>2, BridgeConstants DEF IInv, LockOK, Watching
  <2>11. Ended'
    BY <1>1, <2>1 DEF IInv, Ended, Live
  <2>12. Stored'
    <3>1. \A d \in Deciders : pc[d] # "storing"
      BY <2>2 DEF Calls
    <3> QED BY <1>1, <1>2, <2>1, <2>2, <3>1, StoredStays DEF IInv, Live, Terminal
  <2>13. Decided'
    BY <1>0, <1>1, <1>2, <2>3, <2>1, DecidedStays DEF IInv
  <2>14. Offered'
    BY <2>1, <2>2 DEF Offered
  <2> QED BY <2>4, <2>5, <2>6, <2>7, <2>8, <2>9, <2>10, <2>11, <2>12, <2>13, <2>14 DEF IInv
<1>5. CASE Attach /\ PendingIs("ask")
  <2>1. /\ boot = "probe" /\ boot' = "storing" /\ Live /\ tail' = TailOf(row) /\ lock' = "boot"
        /\ Enqueue(row.pending) /\ stopper' \in {"posting", "off"} /\ UNCHANGED <<row, wpc, timer>>
    BY <1>5 DEF Attach
  <2>2. /\ wpc = "off" /\ lock = Nobody /\ filed = 0 /\ retire = 0 /\ pos = 0
        /\ (\A c \in Calls : pc[c] \in {"new", "done"})
        /\ \A i \in 1..Len(inbox) : inbox[i].state # "pending"
    <3>1. /\ wpc = "off" /\ (\A c \in Calls : pc[c] \in {"new", "done"}) /\ pos = 0
          /\ \A i \in 1..Len(inbox) : inbox[i].state # "pending"
      BY <2>1 DEF IInv, Ended, CallsOK, Offered, TailOK
    <3>2. lock = Nobody
      BY <2>1, <3>1 DEF IInv, LockOK, CallsOK
    <3> QED BY <3>1, <3>2 DEF IInv, LockOK
  <2>3. row.pending \in Nat /\ Gains(row.pending)
    BY <2>1, Inbox, Enqueued, Basics DEF IInv
  <2>4. Files
    BY <2>3 DEF Gains
  <2>5. IsAsk(row.pending) /\ row.pending <= row.last
    BY <1>5, Basics DEF IInv, RowOK, PendingIs, IsAsk, IsQuestion
  <2>6. LogOK'
    BY <1>2 DEF Grows
  <2>7. RowOK'
    BY <1>1, <1>2, <2>4, <2>1, RowStays DEF IInv
  <2>8. TailOK'
    <3>1. /\ IsTail(tail') /\ tail'.last = row'.last /\ tail'.out = row'.out /\ tail'.buf = <<>>
      BY <1>1, <2>1 DEF TailOf, IsTail
    <3>2. Len(tail'.buf) = 0 /\ tail'.buf \in Seq(Nat) /\ \A k \in 1..Len(tail'.buf) : FALSE
      BY <3>1
    <3>3. pos' \in 0..Len(log') /\ ending'.seq \in 0..Len(log') /\ pos' <= row'.last + Len(tail'.buf)
      <4>1. row.last \in Nat /\ Len(log) \in Nat /\ ending.seq \in 0..Len(log)
        BY Basics DEF IInv, TailOK
      <4>2. pos' = 0 /\ row'.last = row.last /\ ending' = ending /\ log' = log
        BY <1>1, <2>1, <2>2
      <4> QED BY <3>2, <4>1, <4>2
    <3> QED BY <1>1, <2>1, <2>2, <3>1, <3>2, <3>3 DEF TailOK
  <2>9. InboxOK'
    BY <1>0, <1>1, <1>2, <2>1, <2>3, <2>5, InboxGains DEF IInv, IsAsk
  <2>10. ClocksOK'
    BY <1>0, <1>1, <1>2, <2>1, ClocksStay DEF IInv
  <2>11. CallsOK'
    BY <1>1, <2>1, <2>2, BridgeConstants DEF IInv, CallsOK
  <2>12. LockOK'
    BY <1>1, <2>1, <2>2, <2>3, BridgeConstants DEF IInv, LockOK, Watching, Gains
  <2>13. Ended'
    BY <1>1, <2>1, <2>2 DEF Ended, Live
  <2>14. Stored'
    <3>1. \A d \in Deciders : pc[d] # "storing"
      BY <2>2 DEF Calls
    <3> QED BY <1>1, <1>2, <2>1, <2>2, <3>1, StoredStays DEF IInv, Live, Terminal
  <2>15. Decided'
    <3>1. \A d \in Deciders : ~Deciding(d)'
      BY <1>1, <2>2 DEF Deciding, Calls
    <3>2. Delivers
      BY <1>1 DEF Delivers, Deciding
    <3> QED BY <1>0, <1>1, <1>2, <2>1, <2>3, <3>1, <3>2, DecidedGains DEF IInv
  <2>16. Offered'
    <3>1. ASSUME NEW i \in 1..Len(inbox'), inbox'[i].state = "pending"
          PROVE  dedup' = i /\ i = filed' /\ inbox'[i].req = row.pending
      <4>1. dedup' = i /\ i = filed'
        BY <2>3, <3>1 DEF Gains
      <4>2. inbox' # inbox
        BY <2>2, <3>1
      <4> QED BY <2>3, <4>1, <4>2 DEF Gains
    <3>2. filed' # 0
      BY <2>3 DEF Gains
    <3> QED BY <1>1, <2>1, <2>2, <3>1, <3>2 DEF Offered, Live
  <2> QED BY <2>6, <2>7, <2>8, <2>9, <2>10, <2>11, <2>12, <2>13, <2>14, <2>15, <2>16 DEF IInv
<1>6. CASE AttachStores
  <2>1. /\ boot = "storing" /\ boot' = "done" /\ wpc' = "connect" /\ lock' = Nobody /\ filed' = 0
        /\ UNCHANGED <<tail, inbox, dedup, timer, stopper>>
        /\ IsRow(row') /\ row'.last = row.last /\ row'.out = row.out /\ row'.stop = row.stop
        /\ row'.status = row.status /\ row'.pending = row.pending
        /\ row'.entry = filed \/ (row'.entry = row.entry /\ filed \in orphans')
    <3>1. row = [status |-> row.status, pending |-> row.pending, entry |-> row.entry,
               last |-> row.last, out |-> row.out, stop |-> row.stop]
      BY Basics DEF IsRow
    <3>2. Live
      BY <1>6 DEF AttachStores, IInv, Ended
    <3> QED BY <1>6, <3>1, <3>2 DEF AttachStores, StoreApprovalId, IsRow, queue
  <2>2. /\ lock = "boot" /\ filed # 0 /\ wpc = "off" /\ retire = 0 /\ Live
        /\ \A c \in Calls : pc[c] \in {"new", "done"}
    BY <2>1, BridgeConstants DEF IInv, LockOK, Ended, CallsOK
  <2>3. Files /\ NoneNew
    BY <2>1, StillFiles DEF IInv
  <2>4. LogOK'
    BY <1>2 DEF Grows
  <2>5. RowOK'
    BY <1>1, <2>1 DEF IInv, RowOK, InboxOK, IsAsk, IsQuestion
  <2>6. TailOK'
    BY <1>0, <1>1, <1>2, <2>1, TailStays DEF IInv
  <2>7. InboxOK'
    BY <1>0, <1>1, <1>2, <2>1, InboxStays DEF IInv
  <2>8. ClocksOK'
    BY <1>0, <1>1, <1>2, <2>1, ClocksStay DEF IInv
  <2>9. CallsOK'
    BY <1>1, <2>1, <2>2, LockMoves DEF IInv
  <2>10. LockOK'
    BY <1>1, <2>1, <2>2, BridgeConstants DEF IInv, LockOK, Watching
  <2>11. Ended'
    BY <1>1, <2>1, <2>2 DEF Ended, Live
  <2>12. Stored'
    <3>1. \A d \in Deciders : pc[d] # "storing"
      BY <2>2 DEF Calls
    <3> QED BY <1>1, <1>2, <2>1, <2>2, <3>1, StoredStays DEF IInv, Live, Terminal
  <2>13. Decided'
    BY <1>0, <1>1, <1>2, <2>3, <2>1, DecidedStays DEF IInv
  <2>14. Offered'
    BY <1>1, <2>1, <2>2 DEF IInv, Offered, Excused, Live
  <2> QED BY <2>4, <2>5, <2>6, <2>7, <2>8, <2>9, <2>10, <2>11, <2>12, <2>13, <2>14 DEF IInv
<1> QED BY <1>3, <1>4, <1>5, <1>6 DEF Reattach

\* A restart: the ledger and Hermes stay.
LEMMA RestartKeeps == ASSUME IInv, Restart PROVE IInv'
<1>0. /\ IsRow(row) /\ IsTail(tail) /\ row.status \in Statuses /\ row.stop \in BOOLEAN
      /\ row.last \in Nat /\ of \in [Calls -> Nat] /\ stopper \in {"off", "posting", "clearing"}
  BY Basics
<1>1. UNCHANGED <<log, asking, hermes, row>>
  BY DEF Restart, hermesVars, queue, stream, watch, clocks, calls
<1>2. Grows
  BY <1>1, StillGrows DEF IInv
<1>3. CASE Restart
  <2>1. /\ inbox' = [i \in DOMAIN inbox |-> [inbox[i] EXCEPT !.state = "lost"]] /\ dedup' = 0 /\ filed' = 0
        /\ tail' = TailOf(row) /\ wpc' = "off" /\ retire' = 0 /\ pos' = 0 /\ ending' = NoEnding
        /\ timer' = 0 /\ fired' = {} /\ stopper' = "off" /\ lock' = Nobody /\ boot' = "probe"
        /\ pc' = [c \in Calls |-> IF pc[c] = "new" THEN "new" ELSE "done"] /\ of' = [c \in Calls |-> 0]
    BY <1>0, <1>1, <1>3 DEF Restart
  <2>2. /\ inbox' \in Seq(Entries) /\ Len(inbox') = Len(inbox)
        /\ \A i \in 1..Len(inbox) : inbox'[i].req = inbox[i].req /\ inbox'[i].state = "lost"
    <3>1. inbox \in Seq(Entries) /\ DOMAIN inbox = 1..Len(inbox) /\ \A i \in 1..Len(inbox) : inbox[i] \in Entries
      BY DEF IInv, InboxOK
    <3>2. \A i \in 1..Len(inbox) : /\ [inbox[i] EXCEPT !.state = "lost"] \in Entries
                                   /\ [inbox[i] EXCEPT !.state = "lost"].req = inbox[i].req
                                   /\ [inbox[i] EXCEPT !.state = "lost"].state = "lost"
      BY <3>1 DEF Entries
    <3>3. inbox' \in [1..Len(inbox) -> Entries]
      BY <2>1, <3>1, <3>2
    <3>4. inbox' \in Seq(Entries) /\ Len(inbox') = Len(inbox)
      BY <3>3, Basics
    <3> QED BY <2>1, <3>1, <3>2, <3>4
  <2>3. Files
    BY <2>2, Basics DEF Files
  <2>4. \A c \in Calls : pc'[c] \in {"new", "done"}
    BY <2>1
  <2>5. LogOK'
    BY <1>2 DEF Grows
  <2>6. RowOK'
    BY <1>1, <1>2, <2>3, <2>1, RowStays DEF IInv
  <2>7. TailOK'
    <3>1. /\ IsTail(tail') /\ tail'.last = row'.last /\ tail'.out = row'.out /\ tail'.buf = <<>>
      BY <1>1, <2>1 DEF TailOf, IsTail
    <3>2. Len(tail'.buf) = 0 /\ tail'.buf \in Seq(Nat) /\ \A k \in 1..Len(tail'.buf) : FALSE
      BY <3>1
    <3>3. pos' \in 0..Len(log') /\ ending'.seq \in 0..Len(log') /\ pos' <= row'.last + Len(tail'.buf)
      BY <1>1, <2>1, <3>2, Basics DEF NoEnding
    <3> QED BY <1>1, <2>1, <3>1, <3>2, <3>3 DEF TailOK
  <2>8. InboxOK'
    BY <1>1, <2>1, <2>2, Basics DEF IInv, InboxOK, IsAsk
  <2>9. ClocksOK'
    BY <2>1 DEF ClocksOK
  <2>10. CallsOK'
    <3>1. pc' \in [Calls -> Calling] /\ of' \in [Calls -> Nat]
      BY <2>1 DEF Calling
    <3> QED BY <2>1, <2>4, <3>1, BridgeConstants DEF CallsOK, Calls
  <2>11. LockOK'
    BY <2>1, BridgeConstants DEF LockOK, Watching
  <2>12. Ended'
    BY <2>1 DEF Ended
  <2>13. Stored'
    <3>1. \A d \in Deciders : pc'[d] # "storing"
      BY <2>4 DEF Calls
    <3> QED BY <1>1, <1>2, <2>1, <3>1, StoredStays DEF IInv, Live
  <2>14. Decided'
    BY <2>4 DEF Decided, Deciding, Calls
  <2>15. Offered'
    BY <2>2 DEF Offered
  <2> QED BY <2>5, <2>6, <2>7, <2>8, <2>9, <2>10, <2>11, <2>12, <2>13, <2>14, <2>15 DEF IInv
<1> QED BY <1>3 DEF Restart

\* What a call's move changes of the calls.
LEMMA GoIs ==
  ASSUME CallsOK, NEW c \in Calls, NEW to \in Calling, NEW r \in Nat, Go(c, to, r)
  PROVE  /\ pc' \in [Calls -> Calling] /\ of' \in [Calls -> Nat] /\ pc'[c] = to /\ of'[c] = r
         /\ \A e \in Calls : e # c => pc'[e] = pc[e] /\ of'[e] = of[e]
<1>1. pc \in [Calls -> Calling] /\ of \in [Calls -> Nat]
  BY DEF CallsOK
<1> QED BY <1>1 DEF Go

\* A call goes where a call of its kind can go, without the lock.
Moves(c, to) ==
    /\ pc[c] # "storing" /\ to # "storing" /\ (to # "done" => boot = "done")
    /\ c \in Clients => to \notin {"reading", "posting", "refiling"}
    /\ c \in Deciders => to \notin {"stopping", "marking", "withdraw", "clarifying"}
LEMMA CallMoves ==
  ASSUME CallsOK, NEW c \in Calls, NEW to \in Calling, NEW r \in Nat, Go(c, to, r), Moves(c, to),
         UNCHANGED <<lock, boot>>
  PROVE  CallsOK'
<1>1. pc' \in [Calls -> Calling] /\ of' \in [Calls -> Nat]
  BY GoIs
<1>2. \A e \in Calls : pc'[e] = (IF e = c THEN to ELSE pc[e])
  BY GoIs
<1>3. \A e \in Calls : pc'[e] = "storing" <=> lock' = e
  BY <1>2 DEF CallsOK, Moves
<1>4. Clients \subseteq Calls /\ Deciders \subseteq Calls
  BY DEF Calls
<1>5. /\ \A e \in Clients : pc'[e] \notin {"reading", "posting", "refiling", "storing"}
      /\ \A d \in Deciders : pc'[d] \notin {"stopping", "marking", "withdraw", "clarifying"}
  BY <1>2, <1>4 DEF CallsOK, Moves
<1>6. boot' # "done" => \A e \in Calls : pc'[e] \in {"new", "done"}
  BY <1>2 DEF CallsOK, Moves
<1> QED BY <1>1, <1>3, <1>5, <1>6 DEF CallsOK

\* The call does not go back on what it decided or answers.
LEMMA CallDelivers ==
  ASSUME CallsOK, NEW c \in Calls, NEW to \in Calling, NEW r \in Nat, Go(c, to, r),
         c \in Deciders /\ to \in {"reading", "posting", "settling", "refiling"} => Deciding(c) /\ r = of[c],
         c \in Clients /\ to \in {"clarifying", "settling"} =>
             pc[c] \in {"clarifying", "settling"} /\ r = of[c]
  PROVE  Delivers
<1>1. \A e \in Calls : /\ pc'[e] = (IF e = c THEN to ELSE pc[e])
                       /\ of'[e] = (IF e = c THEN r ELSE of[e])
  BY GoIs
<1> QED BY <1>1 DEF Delivers, Deciding, Calls

\* A call goes on or is done without a write.
LEMMA CallGoesOn ==
  ASSUME IInv, NEW c \in Calls, NEW to \in Calling, NEW r \in Nat, Go(c, to, r), Moves(c, to),
         Grows, timer' \in {0, timer}, stopper' \in {"off", stopper},
         UNCHANGED <<row, inbox, dedup, filed, lock, tail, pos, wpc, retire, ending, fired, boot, orphans>>,
         pc[c] # "withdraw", Decided'
  PROVE  IInv'
<1>1. Files /\ NoneNew
  BY StillFiles DEF IInv
<1>2. \A e \in Calls : /\ pc'[e] = (IF e = c THEN to ELSE pc[e])
                       /\ of'[e] = (IF e = c THEN r ELSE of[e])
  BY GoIs DEF IInv
<1>3. LogOK' /\ RowOK'
  BY <1>1, RowStays DEF IInv, Grows
<1>4. TailOK'
  BY Basics, TailStays DEF IInv
<1>5. InboxOK'
  BY Basics, InboxStays DEF IInv
<1>6. ClocksOK'
  BY Basics, ClocksStay DEF IInv
<1>7. CallsOK'
  BY CallMoves DEF IInv
<1>8. LockOK' /\ Ended'
  BY DEF IInv, LockOK, Ended, Live
<1>9. Stored'
  <2>1. \A d \in Deciders : pc'[d] = "storing" => pc[d] = "storing" /\ of'[d] = of[d]
    BY <1>2 DEF Moves, Calls
  <2> QED BY <2>1, StoredStays DEF IInv, Live
<1>10. Offered'
  <2>1. \A i \in 1..Len(inbox) : Excused(i) => Excused(i)'
    BY <1>2 DEF Excused, Calls
  <2> QED BY <1>1, <2>1, OfferedStays DEF IInv, Live
<1> QED BY <1>3, <1>4, <1>5, <1>6, <1>7, <1>8, <1>9, <1>10 DEF IInv

\* The operator decides on an entry, or the client calls.
LEMMA CallBeginsKeeps == ASSUME IInv, NEW c \in Calls, CallBegins(c) PROVE IInv'
<1>1. /\ UNCHANGED <<log, asking, hermes, row, filed, lock, timer, tail, pos, wpc, retire, ending>>
      /\ UNCHANGED <<fired, stopper, boot, orphans>> /\ boot = "done" /\ pc[c] = "new"
  BY DEF CallBegins, Decide, StopReads, AnswerRunReads, hermesVars, watch, stream, history
<1>2. Grows
  BY <1>1, StillGrows DEF IInv
<1>3. (c \in Clients => c \notin Deciders) /\ Clients \subseteq Calls /\ Deciders \subseteq Calls
  BY BridgeConstants DEF Calls
<1>4. CASE c \in Deciders /\ Decide(c)
  <2>1. PICK i \in DOMAIN inbox :
            /\ inbox[i].state = "pending" /\ inbox' = [inbox EXCEPT ![i].state = "decided"]
            /\ dedup' = 0 /\ Go(c, "reading", inbox[i].req)
    BY <1>4 DEF Decide
  <2>2. i \in 1..Len(inbox) /\ "reading" \in Calling
    BY DEF IInv, InboxOK, Calling
  <2>3. IsAsk(inbox[i].req) /\ inbox[i].req <= row.last /\ inbox[i].req \in Nat
    BY <2>2, Basics DEF IInv, InboxOK, IsAsk
  <2>4. Loses(i) /\ \A k \in 1..Len(inbox') : inbox'[k].state # "pending"
    BY <2>1, <2>2, Inbox, Closed DEF IInv
  <2>5. Files /\ NoneNew
    BY <2>4, LosesFiles DEF IInv
  <2>6. \A e \in Calls : /\ pc'[e] = (IF e = c THEN "reading" ELSE pc[e])
                         /\ of'[e] = (IF e = c THEN inbox[i].req ELSE of[e])
    BY <2>1, <2>2, <2>3, GoIs DEF IInv
  <2>7. LogOK' /\ RowOK'
    BY <1>1, <1>2, <2>5, RowStays DEF IInv, Grows
  <2>8. TailOK'
    BY <1>1, <1>2, Basics, TailStays DEF IInv
  <2>9. InboxOK'
    BY <1>1, <1>2, <2>4, Basics, InboxLoses DEF IInv
  <2>10. ClocksOK'
    BY <1>1, <1>2, Basics, ClocksStay DEF IInv
  <2>11. CallsOK'
    <3>1. Moves(c, "reading")
      BY <1>1, <1>3, <1>4 DEF Moves
    <3> QED BY <1>1, <2>1, <2>2, <2>3, <3>1, CallMoves DEF IInv
  <2>12. LockOK' /\ Ended'
    BY <1>1 DEF IInv, LockOK, Ended, Live
  <2>13. Stored'
    <3>1. \A d \in Deciders : pc'[d] = "storing" => pc[d] = "storing" /\ of'[d] = of[d]
      BY <1>3, <2>6
    <3> QED BY <1>1, <1>2, <3>1, StoredStays DEF IInv, Live
  <2>14. Decided'
    <3>1. ASSUME NEW d \in Deciders, Deciding(d)' PROVE IsAsk(of[d])' /\ of'[d] <= row'.last
      BY <1>1, <1>3, <2>3, <2>6, <3>1 DEF IInv, Decided, Deciding, IsAsk
    <3>2. \A d \in Deciders : d # c /\ Deciding(d) => of[d] # inbox[i].req
      BY <2>1, <2>2 DEF IInv, Decided
    <3>3. \A d \in Deciders : Deciding(d)' => d = c \/ Deciding(d)
      BY <1>3, <2>6 DEF Deciding
    <3>4. \A d, e \in Deciders : Deciding(d)' /\ Deciding(e)' /\ of'[d] = of'[e] => d = e
      BY <1>3, <1>4, <2>6, <3>2, <3>3 DEF IInv, Decided
    <3>5. \A e \in Clients : pc'[e] \in {"clarifying", "settling"} => IsQuestion(of[e])'
      BY <1>1, <1>3, <2>6 DEF IInv, Decided, IsQuestion
    <3> QED BY <2>4, <3>1, <3>4, <3>5 DEF Decided
  <2>15. Offered'
    BY <2>4 DEF Offered
  <2> QED BY <2>7, <2>8, <2>9, <2>10, <2>11, <2>12, <2>13, <2>14, <2>15 DEF IInv
<1>5. CASE c \in Clients /\ StopReads(c)
  <2>1. Go(c, "stopping", 0) /\ UNCHANGED <<inbox, dedup>> /\ "stopping" \in Calling
    BY <1>5 DEF StopReads, queue, Calling
  <2>2. Moves(c, "stopping")
    BY <1>1, <1>3, <1>5 DEF Moves
  <2>3. Delivers
    BY <1>3, <1>5, <2>1, CallDelivers DEF IInv
  <2>4. Decided'
    BY <1>1, <1>2, <2>1, <2>3, Basics, StillFiles, DecidedMoves DEF IInv
  <2> QED BY <1>1, <1>2, <2>1, <2>2, <2>4, CallGoesOn
<1>6. CASE c \in Clients /\ AnswerRunReads(c)
  <2>1. /\ Go(c, "clarifying", row.pending) /\ UNCHANGED <<inbox, dedup>> /\ PendingIs("question")
        /\ "clarifying" \in Calling
    BY <1>6 DEF AnswerRunReads, queue, Calling
  <2>2. Moves(c, "clarifying")
    BY <1>1, <1>3, <1>6 DEF Moves
  <2>3. IsQuestion(row.pending) /\ row.pending \in Nat
    BY <2>1, Basics DEF IInv, RowOK, PendingIs, IsAsk, IsQuestion
  <2>4. \A e \in Calls : /\ pc'[e] = (IF e = c THEN "clarifying" ELSE pc[e])
                         /\ of'[e] = (IF e = c THEN row.pending ELSE of[e])
    BY <2>1, <2>3, GoIs DEF IInv
  <2>5. Decided'
    <3>1. \A d \in Deciders : pc'[d] = pc[d] /\ of'[d] = of[d]
      BY <1>3, <1>6, <2>4
    <3>2. \A e \in Clients : pc'[e] \in {"clarifying", "settling"} => IsQuestion(of[e])'
      BY <1>1, <1>3, <2>3, <2>4 DEF IInv, Decided, IsQuestion
    <3> QED BY <1>1, <2>1, <3>1, <3>2 DEF IInv, Decided, Deciding, IsAsk
  <2> QED BY <1>1, <1>2, <2>1, <2>2, <2>3, <2>5, CallGoesOn
<1> QED BY <1>4, <1>5, <1>6 DEF CallBegins

\* A call goes on with what it is about, or is done with it, without a write.
LEMMA CallContinues ==
  ASSUME IInv, NEW c \in Calls, NEW to \in Calling, NEW r \in Nat, Go(c, to, r), Moves(c, to),
         Grows, timer' \in {0, timer}, stopper' \in {"off", stopper},
         UNCHANGED <<row, inbox, dedup, filed, lock, tail, pos, wpc, retire, ending, fired, boot, orphans>>,
         pc[c] # "withdraw",
         c \in Deciders /\ to \in {"reading", "posting", "settling", "refiling"} => Deciding(c) /\ r = of[c],
         c \in Clients /\ to \in {"clarifying", "settling"} =>
             pc[c] \in {"clarifying", "settling"} /\ r = of[c]
  PROVE  IInv'
<1>1. Delivers
  BY CallDelivers DEF IInv
<1>2. Decided'
  BY <1>1, Basics, StillFiles, DecidedMoves DEF IInv
<1> QED BY <1>2, CallGoesOn

LEMMA CallDone ==
  ASSUME IInv, NEW c \in Calls, Done(c), pc[c] \notin {"storing", "withdraw"},
         Grows, timer' \in {0, timer}, stopper' \in {"off", stopper},
         UNCHANGED <<row, inbox, dedup, filed, lock, tail, pos, wpc, retire, ending, fired, boot, orphans>>
  PROVE  IInv'
<1>1. "done" \in Calling /\ Moves(c, "done")
  BY DEF Calling, Moves
<1> QED BY <1>1, CallContinues DEF Done

\* The reads and the posts of the calls.
LEMMA PostsKeep ==
  ASSUME IInv, NEW c \in Calls, UNCHANGED <<watch, fired, boot, stopper, orphans>>,
         \/ c \in Deciders /\ (AnswerReads(c) \/ AnswerPosts(c))
         \/ c \in Clients /\ (StopPosts(c) \/ AnswerRunPosts(c))
  PROVE  IInv'
<1>1. /\ UNCHANGED <<row, inbox, dedup, filed, lock, timer, tail, pos, wpc, retire, ending>>
      /\ UNCHANGED <<fired, stopper, boot, orphans>>
  BY DEF AnswerReads, AnswerPosts, StopPosts, AnswerRunPosts, queue, watch, stream
<1>2. boot = "done" /\ (c \in Clients => c \notin Deciders) /\ of[c] \in Nat
  <2>1. pc[c] \notin {"new", "done"}
    BY DEF AnswerReads, AnswerPosts, StopPosts, AnswerRunPosts
  <2> QED BY <2>1, Basics, BridgeConstants DEF IInv, CallsOK
<1>3. {"posting", "settling", "refiling", "marking"} \subseteq Calling
  BY DEF Calling
<1>4. CASE c \in Deciders /\ AnswerReads(c)
  <2>1. Grows
    BY <1>4, StillGrows DEF AnswerReads, hermesVars, IInv
  <2>2. pc[c] = "reading" /\ (Go(c, "posting", of[c]) \/ Done(c))
    BY <1>4 DEF AnswerReads
  <2>3. CASE Go(c, "posting", of[c])
    <3>1. Moves(c, "posting") /\ Deciding(c)
      BY <1>2, <1>4, <2>2 DEF Moves, Deciding
    <3> QED BY <1>1, <1>2, <1>3, <1>4, <2>1, <2>2, <2>3, <3>1, CallContinues
  <2>4. CASE Done(c)
    BY <1>1, <2>1, <2>2, <2>4, CallDone
  <2> QED BY <2>2, <2>3, <2>4
<1>5. CASE c \in Deciders /\ AnswerPosts(c)
  <2>1. pc[c] = "posting" /\ Deciding(c) /\ of[c] # 0
    BY <1>5, Basics DEF AnswerPosts, Deciding, IInv, Decided, IsAsk
  <2>2. Grows
    BY <1>2, <1>5, <2>1, StillGrows, AnswerGrows DEF AnswerPosts, hermesVars, IInv
  <2>3. CASE Done(c)
    BY <1>1, <2>1, <2>2, <2>3, CallDone
  <2>4. ASSUME NEW to \in {"settling", "refiling"}, Go(c, to, of[c]) PROVE IInv'
    <3>1. Moves(c, to)
      BY <1>2, <1>5, <2>1, <2>4 DEF Moves
    <3> QED BY <1>1, <1>2, <1>3, <1>5, <2>1, <2>2, <2>4, <3>1, CallContinues
  <2> QED BY <1>5, <2>3, <2>4 DEF AnswerPosts
<1>6. CASE c \in Clients /\ StopPosts(c)
  <2>1. pc[c] = "stopping" /\ (Go(c, "marking", 0) \/ Done(c))
    BY <1>6 DEF StopPosts
  <2>2. Grows
    BY <1>6, StillGrows, StopGrows DEF StopPosts, hermesVars, IInv
  <2>3. CASE Go(c, "marking", 0)
    <3>1. Moves(c, "marking")
      BY <1>2, <1>6, <2>1 DEF Moves
    <3> QED BY <1>1, <1>2, <1>3, <1>6, <2>1, <2>2, <2>3, <3>1, CallContinues
  <2>4. CASE Done(c)
    BY <1>1, <2>1, <2>2, <2>4, CallDone
  <2> QED BY <2>1, <2>3, <2>4
<1>7. CASE c \in Clients /\ AnswerRunPosts(c)
  <2>1. pc[c] = "clarifying" /\ of[c] # 0 /\ (Go(c, "settling", of[c]) \/ Done(c))
    BY <1>7, Basics DEF AnswerRunPosts, IInv, Decided, IsQuestion
  <2>2. Grows
    BY <1>2, <1>7, <2>1, StillGrows, AnswerGrows DEF AnswerRunPosts, hermesVars, IInv
  <2>3. CASE Go(c, "settling", of[c])
    <3>1. Moves(c, "settling")
      BY <1>2, <1>7, <2>1 DEF Moves
    <3> QED BY <1>1, <1>2, <1>3, <1>7, <2>1, <2>2, <2>3, <3>1, CallContinues
  <2>4. CASE Done(c)
    BY <1>1, <2>1, <2>2, <2>4, CallDone
  <2> QED BY <2>1, <2>3, <2>4
<1> QED BY <1>4, <1>5, <1>6, <1>7

\* Nobody holds the lock: no entry is being filed.
LEMMA Unlocked ==
  ASSUME IInv, lock = Nobody
  PROVE  /\ filed = 0 /\ wpc \notin {"asking", "storing", "finish"} /\ boot # "storing"
         /\ \A c \in Calls : pc[c] # "storing"
  BY BridgeConstants DEF IInv, LockOK, CallsOK

\* settle: the entry of the request has been decided, or it is a question and has none.
LEMMA SettleKeeps ==
  ASSUME IInv, NEW c \in Calls, UNCHANGED <<watch, fired, boot, stopper, orphans>>, Settle(c)
  PROVE  IInv'
<1>1. UNCHANGED <<log, asking, hermes, inbox, dedup, filed, lock, tail, pos, wpc, retire,
                 ending, fired, stopper, boot, orphans>>
  BY DEF Settle, hermesVars, queue, watch, stream
<1>2. Grows
  BY <1>1, StillGrows DEF IInv
<1>3. pc[c] = "settling" /\ lock = Nobody /\ Done(c) /\ "done" \in Calling /\ Moves(c, "done")
  BY DEF Settle, Calling, Moves
<1>4. CASE UNCHANGED <<row, timer>>
  BY <1>1, <1>2, <1>3, <1>4, CallDone
<1>5. CASE /\ Live /\ row.pending = of[c] /\ row' = Cleared
           /\ timer' = IF PendingIs("question") THEN 0 ELSE timer
  <2>1. /\ IsRow(row') /\ row'.last = row.last /\ row'.out = row.out /\ row'.stop = row.stop
        /\ row'.pending = 0 /\ row'.entry = 0 /\ row'.status \in Statuses \ Terminal
        /\ timer' \in {0, timer}
    <3>1. row = [status |-> row.status, pending |-> row.pending, entry |-> row.entry,
                 last |-> row.last, out |-> row.out, stop |-> row.stop]
      BY Basics DEF IsRow
    <3> QED BY <1>5, <3>1, Basics DEF Cleared, IsRow, Live, Statuses, Terminal
  <2>2. Files /\ NoneNew
    BY <1>1, StillFiles DEF IInv
  <2>3. \A e \in Calls : /\ pc'[e] = (IF e = c THEN "done" ELSE pc[e])
                         /\ of'[e] = (IF e = c THEN 0 ELSE of[e])
    BY <1>3, GoIs DEF IInv, Done
  <2>4. LogOK' /\ RowOK'
    BY <1>2, <2>1, <2>2, Basics, RowMoves DEF IInv, Grows
  <2>5. TailOK'
    BY <1>1, <1>2, <2>1, Basics, TailStays DEF IInv
  <2>6. InboxOK'
    BY <1>1, <1>2, <2>1, Basics, InboxStays DEF IInv
  <2>7. ClocksOK'
    BY <1>1, <1>2, <2>1, Basics, ClocksStay DEF IInv
  <2>8. CallsOK'
    BY <1>1, <1>3, CallMoves DEF IInv, Done
  <2>9. LockOK' /\ Ended'
    BY <1>1, <1>5, <2>1 DEF IInv, LockOK, Ended, Live
  <2>10. Stored'
    <3>1. wpc # "storing" /\ \A d \in Deciders : pc'[d] # "storing"
      BY <1>3, <2>3, Unlocked DEF Calls
    <3> QED BY <1>1, <1>2, <1>5, <2>1, <3>1, StoredStays DEF IInv
  <2>11. Decided'
    <3>1. Delivers
      BY <1>3, CallDelivers DEF IInv, Done
    <3> QED BY <1>2, <2>1, <2>2, <3>1, Basics, DecidedMoves DEF IInv
  <2>12. Offered'
    <3>1. \A i \in 1..Len(inbox) : inbox[i].state = "pending" => inbox[i].req # of[c]
      <4>1. CASE c \in Deciders
        BY <1>3, <4>1 DEF IInv, Decided, Deciding
      <4>2. CASE c \in Clients
        BY <1>3, <4>2 DEF IInv, Decided, InboxOK, IsAsk, IsQuestion
      <4> QED BY <4>1, <4>2 DEF Calls
    <3>2. \A i \in 1..Len(inbox) : inbox[i].state = "pending" => dedup = i /\ boot # "probe" /\ Excused(i)
      BY <1>5, <3>1 DEF IInv, Offered
    <3>3. \A i \in 1..Len(inbox) : Excused(i) => Excused(i)'
      BY <1>1, <1>3, <2>3 DEF Excused, Calls
    <3> QED BY <1>1, <3>2, <3>3 DEF Offered
  <2> QED BY <2>4, <2>5, <2>6, <2>7, <2>8, <2>9, <2>10, <2>11, <2>12 DEF IInv
<1> QED BY <1>4, <1>5 DEF Settle

\* RunWatcher.stopping: the row's entry is about to be withdrawn.
LEMMA StoppingKeeps ==
  ASSUME IInv, NEW c \in Clients, UNCHANGED <<watch, fired, boot, orphans>>, Stopping(c)
  PROVE  IInv'
<1>1. UNCHANGED <<log, asking, hermes, inbox, dedup, filed, lock, tail, pos, wpc, retire,
                 ending, fired, boot, orphans>>
  BY DEF Stopping, hermesVars, queue, watch, stream
<1>2. Grows
  BY <1>1, StillGrows DEF IInv
<1>3. /\ pc[c] = "marking" /\ lock = Nobody /\ c \in Calls /\ c \notin Deciders
      /\ "withdraw" \in Calling /\ timer' \in {0, timer} /\ stopper' \in {"off", stopper}
  BY BridgeConstants DEF Stopping, Calls, Calling
<1>4. CASE Done(c) /\ row' = row
  BY <1>1, <1>2, <1>3, <1>4, CallDone
<1>5. CASE /\ Live /\ Go(c, "withdraw", row.entry)
           /\ row' = [row EXCEPT !.status = "stopping", !.pending = 0, !.entry = 0, !.stop = FALSE]
  <2>1. /\ IsRow(row') /\ row'.last = row.last /\ row'.out = row.out /\ row'.stop = FALSE
        /\ row'.pending = 0 /\ row'.entry = 0 /\ row'.status = "stopping"
        /\ Go(c, "withdraw", row.entry)
    <3>1. row = [status |-> row.status, pending |-> row.pending, entry |-> row.entry,
                 last |-> row.last, out |-> row.out, stop |-> row.stop]
      BY Basics DEF IsRow
    <3> QED BY <1>5, <3>1 DEF IsRow
  <2>2. Files /\ NoneNew
    BY <1>1, StillFiles DEF IInv
  <2>3. \A e \in Calls : /\ pc'[e] = (IF e = c THEN "withdraw" ELSE pc[e])
                         /\ of'[e] = (IF e = c THEN row.entry ELSE of[e])
    BY <1>3, <2>1, GoIs, Basics DEF IInv
  <2>4. LogOK' /\ RowOK'
    BY <1>2, <2>1, <2>2, Basics, RowMoves DEF IInv, Grows, Statuses
  <2>5. TailOK'
    BY <1>1, <1>2, <2>1, Basics, TailStays DEF IInv
  <2>6. InboxOK'
    BY <1>1, <1>2, <2>1, Basics, InboxStays DEF IInv
  <2>7. ClocksOK'
    BY <1>1, <1>2, <1>3, Basics, ClocksStay DEF IInv
  <2>8. CallsOK'
    <3>1. Moves(c, "withdraw")
      BY <1>3 DEF Moves, IInv, CallsOK
    <3> QED BY <1>1, <1>3, <2>1, <3>1, CallMoves, Basics DEF IInv
  <2>9. LockOK' /\ Ended'
    BY <1>1, <1>5, <2>1 DEF IInv, LockOK, Ended, Live, Terminal
  <2>10. Stored'
    <3>1. wpc # "storing" /\ \A d \in Deciders : pc'[d] # "storing"
      BY <1>3, <2>3, Unlocked DEF Calls
    <3> QED BY <1>1, <1>2, <1>5, <2>1, <3>1, StoredStays DEF IInv
  <2>11. Decided'
    <3>1. Delivers
      BY <1>3, <2>1, CallDelivers, Basics DEF IInv
    <3> QED BY <1>2, <2>1, <2>2, <3>1, Basics, DecidedMoves DEF IInv
  <2>12. Offered'
    <3>1. filed = 0
      BY <1>3, Unlocked
    <3>2. \A i \in 1..Len(inbox) : Excused(i) \/ i = row.entry => Excused(i)'
      BY <1>1, <1>3, <2>3 DEF Excused, Calls
    <3> QED BY <1>1, <3>1, <3>2 DEF IInv, Offered
  <2> QED BY <2>4, <2>5, <2>6, <2>7, <2>8, <2>9, <2>10, <2>11, <2>12 DEF IInv
<1> QED BY <1>4, <1>5 DEF Stopping

LEMMA StopWithdrawsKeeps ==
  ASSUME IInv, NEW c \in Clients, UNCHANGED <<watch, fired, boot, stopper, orphans>>, StopWithdraws(c)
  PROVE  IInv'
<1>1. UNCHANGED <<log, asking, hermes, row, filed, lock, timer, tail, pos, wpc, retire,
                 ending, fired, stopper, boot, orphans>>
  BY DEF StopWithdraws, hermesVars, queue, watch, stream
<1>2. Grows
  BY <1>1, StillGrows DEF IInv
<1>3. /\ pc[c] = "withdraw" /\ Withdraw(of[c]) /\ Done(c) /\ c \in Calls /\ c \notin Deciders
      /\ "done" \in Calling /\ Moves(c, "done") /\ of[c] \in Nat
  BY BridgeConstants, Basics DEF StopWithdraws, Calls, Calling, Moves
<1>4. Loses(of[c])
  BY <1>3, Inbox, Withdrawn DEF IInv
<1>5. Files /\ NoneNew
  BY <1>4, LosesFiles DEF IInv
<1>6. \A e \in Calls : /\ pc'[e] = (IF e = c THEN "done" ELSE pc[e])
                       /\ of'[e] = (IF e = c THEN 0 ELSE of[e])
  BY <1>3, GoIs DEF IInv, Done
<1>7. LogOK' /\ RowOK'
  BY <1>1, <1>2, <1>5, RowStays DEF IInv, Grows
<1>8. TailOK'
  BY <1>1, <1>2, Basics, TailStays DEF IInv
<1>9. InboxOK'
  BY <1>1, <1>2, <1>4, Basics, InboxLoses DEF IInv
<1>10. ClocksOK'
  BY <1>1, <1>2, Basics, ClocksStay DEF IInv
<1>11. CallsOK'
  BY <1>1, <1>3, CallMoves DEF IInv, Done
<1>12. LockOK' /\ Ended'
  BY <1>1 DEF IInv, LockOK, Ended, Live
<1>13. Stored'
  <2>1. \A d \in Deciders : pc'[d] = "storing" => pc[d] = "storing" /\ of'[d] = of[d]
    BY <1>3, <1>6 DEF Calls
  <2> QED BY <1>1, <1>2, <2>1, StoredStays DEF IInv, Live
<1>14. Decided'
  <2>1. Delivers
    BY <1>3, CallDelivers DEF IInv, Done
  <2> QED BY <1>1, <1>2, <1>5, <2>1, Basics, DecidedMoves DEF IInv
<1>15. Offered'
  <2>1. \A k \in 1..Len(inbox) : k # of[c] /\ Excused(k) => Excused(k)'
    BY <1>1, <1>6 DEF Excused, Calls
  <2> QED BY <1>1, <1>4, <2>1, OfferedLoses DEF IInv, Live
<1> QED BY <1>7, <1>8, <1>9, <1>10, <1>11, <1>12, <1>13, <1>14, <1>15 DEF IInv

\* _refile: no other decision is about the request, and it becomes an entry again.
LEMMA RefileKeeps ==
  ASSUME IInv, NEW c \in Deciders, UNCHANGED <<watch, fired, boot, stopper>>, Refile(c)
  PROVE  IInv'
<1>1. UNCHANGED <<log, asking, hermes, row, timer, tail, pos, wpc, retire, ending, fired,
                 stopper, boot, orphans>>
  BY DEF Refile, hermesVars, queue, watch, stream
<1>2. Grows
  BY <1>1, StillGrows DEF IInv
<1>3. /\ pc[c] = "refiling" /\ lock = Nobody /\ c \in Calls /\ c \notin Clients /\ Deciding(c)
      /\ "storing" \in Calling /\ of[c] \in Nat
  BY BridgeConstants, Basics DEF Refile, Calls, Calling, Deciding
<1>4. CASE Done(c) /\ UNCHANGED <<inbox, dedup, filed, lock>>
  BY <1>1, <1>2, <1>3, <1>4, CallDone
<1>5. CASE /\ Live /\ row.pending = of[c] /\ Enqueue(of[c]) /\ lock' = c
           /\ Go(c, "storing", of[c])
  <2>1. Enqueue(of[c]) /\ lock' = c /\ Go(c, "storing", of[c])
    BY <1>5
  <2>2. Gains(of[c]) /\ Files
    BY <1>3, <2>1, Inbox, Enqueued DEF IInv, Gains
  <2>3. of[c] \in 1..Len(log) /\ log[of[c]] = "ask" /\ of[c] <= row.last
    BY <1>3 DEF IInv, Decided, IsAsk
  <2>4. /\ pc' \in [Calls -> Calling] /\ of' \in [Calls -> Nat]
        /\ \A e \in Calls : pc'[e] = (IF e = c THEN "storing" ELSE pc[e]) /\ of'[e] = of[e]
    BY <1>3, <2>1, GoIs DEF IInv
  <2>5. /\ filed = 0 /\ wpc \notin {"asking", "storing", "finish"} /\ boot = "done"
        /\ \A e \in Calls : pc[e] # "storing"
    BY <1>3, Unlocked DEF IInv, CallsOK
  <2>6. LogOK' /\ RowOK'
    BY <1>1, <1>2, <2>2, RowStays DEF IInv, Grows
  <2>7. TailOK'
    BY <1>1, <1>2, Basics, TailStays DEF IInv
  <2>8. InboxOK'
    BY <1>1, <1>2, <1>3, <2>2, <2>3, Basics, InboxGains DEF IInv, IsAsk
  <2>9. ClocksOK'
    BY <1>1, <1>2, Basics, ClocksStay DEF IInv
  <2>10. CallsOK'
    <3>1. \A e \in Calls : pc'[e] = "storing" <=> lock' = e
      BY <2>1, <2>4, <2>5
    <3>2. /\ \A e \in Clients : pc'[e] \notin {"reading", "posting", "refiling", "storing"}
          /\ \A d \in Deciders : pc'[d] \notin {"stopping", "marking", "withdraw", "clarifying"}
      BY <1>3, <2>4 DEF IInv, CallsOK, Calls
    <3> QED BY <1>1, <2>4, <2>5, <3>1, <3>2 DEF CallsOK
  <2>11. LockOK' /\ Ended'
    <3>1. lock' \notin {Nobody, "watcher", "boot"} /\ filed' # 0
      BY <1>3, <2>1, <2>2, BridgeConstants DEF Gains
    <3> QED BY <1>1, <1>3, <2>1, <2>5, <3>1 DEF IInv, LockOK, Ended, Live
  <2>12. Stored'
    <3>1. Texts(row.last)' = Texts(row.last)
      BY <1>1 DEF Texts
    <3>2. Live' => row'.out \in Seq(Nat) /\ InOrder(row.out, Texts(row.last))'
      BY <1>1, <3>1 DEF IInv, Stored, InOrder, Live
    <3>3. \A d \in Deciders : pc'[d] = "storing" => Live' /\ row'.pending = of'[d]
      BY <1>1, <1>5, <2>4, <2>5 DEF Calls, Live
    <3> QED BY <1>1, <2>5, <3>2, <3>3 DEF Stored
  <2>13. Decided'
    <3>1. Delivers
      BY <1>3, <2>4 DEF Delivers, Deciding, Calls
    <3>2. \A d \in Deciders : Deciding(d)' => of'[d] # of[c]
      BY <1>3, <2>4 DEF IInv, Decided, Deciding, Calls
    <3> QED BY <1>1, <1>2, <2>2, <3>1, <3>2, Basics, DecidedGains DEF IInv
  <2>14. Offered'
    <3>1. \A i \in 1..Len(inbox) : Excused(i) => Excused(i)'
      BY <1>1, <1>3, <2>4 DEF Excused, Calls
    <3>2. ASSUME NEW i \in 1..Len(inbox'), inbox'[i].state = "pending"
          PROVE  dedup' = i /\ i = filed' /\ filed' # 0 /\ (Excused(i)' \/ inbox'[i].req = row.pending)
      <4>1. dedup' = i /\ i = filed' /\ filed' # 0
        BY <2>2, <3>2 DEF Gains
      <4>2. CASE inbox' = inbox
        BY <3>1, <3>2, <4>1, <4>2 DEF IInv, Offered
      <4>3. CASE inbox'[filed'].req = of[c]
        BY <1>5, <4>1, <4>3
      <4> QED BY <2>2, <4>1, <4>2, <4>3 DEF Gains
    <3> QED BY <1>1, <1>5, <2>5, <3>2 DEF Offered, Live
  <2> QED BY <2>6, <2>7, <2>8, <2>9, <2>10, <2>11, <2>12, <2>13, <2>14 DEF IInv
<1> QED BY <1>4, <1>5 DEF Refile, queue

\* The entry's id is stored in the row, or the entry is orphaned.
LEMMA RefileStoresKeeps ==
  ASSUME IInv, NEW c \in Deciders, UNCHANGED <<watch, fired, boot, stopper>>, RefileStores(c)
  PROVE  IInv'
<1>1. UNCHANGED <<log, asking, hermes, inbox, dedup, timer, tail, pos, wpc, retire, ending,
                 fired, stopper, boot>> /\ orphans \subseteq orphans'
  BY DEF RefileStores, StoreApprovalId, hermesVars, queue, watch, stream, history
<1>2. Grows
  BY <1>1, StillGrows DEF IInv
<1>3. /\ pc[c] = "storing" /\ c \in Calls /\ lock' = Nobody /\ filed' = 0 /\ Done(c)
      /\ "done" \in Calling
  BY DEF RefileStores, StoreApprovalId, Calls, Calling
<1>4. lock = c /\ Live /\ row.pending = of[c] /\ boot = "done"
  BY <1>3 DEF IInv, CallsOK, Stored
<1>5. /\ IsRow(row') /\ row'.last = row.last /\ row'.out = row.out /\ row'.stop = row.stop
      /\ row'.pending = row.pending /\ row'.status = row.status
      /\ row'.entry = filed \/ (row'.entry = row.entry /\ filed \in orphans')
  <2>1. row = [status |-> row.status, pending |-> row.pending, entry |-> row.entry,
               last |-> row.last, out |-> row.out, stop |-> row.stop]
    BY Basics DEF IsRow
  <2> QED BY <1>4, <2>1 DEF RefileStores, StoreApprovalId, IsRow
<1>6. Files /\ NoneNew
  BY <1>1, StillFiles DEF IInv
<1>7. /\ pc' \in [Calls -> Calling] /\ of' \in [Calls -> Nat]
      /\ \A e \in Calls : /\ pc'[e] = (IF e = c THEN "done" ELSE pc[e])
                          /\ of'[e] = (IF e = c THEN 0 ELSE of[e])
  BY <1>3, GoIs DEF IInv, Done
<1>8. filed # 0 /\ wpc \notin {"asking", "storing", "finish"}
  BY <1>4, BridgeConstants DEF IInv, LockOK, Calls
<1>9. LogOK' /\ RowOK'
  BY <1>1, <1>2, <1>5 DEF IInv, Grows, RowOK, InboxOK, IsAsk, IsQuestion
<1>10. TailOK'
  BY <1>1, <1>2, <1>5, Basics, TailStays DEF IInv
<1>11. InboxOK'
  BY <1>1, <1>2, <1>3, <1>5, Basics, InboxStays DEF IInv
<1>12. ClocksOK'
  BY <1>1, <1>2, Basics, ClocksStay DEF IInv
<1>13. CallsOK'
  <2>1. \A e \in Calls : pc'[e] = "storing" <=> lock' = e
    BY <1>3, <1>4, <1>7, BridgeConstants DEF IInv, CallsOK
  <2>2. /\ \A e \in Clients : pc'[e] \notin {"reading", "posting", "refiling", "storing"}
        /\ \A d \in Deciders : pc'[d] \notin {"stopping", "marking", "withdraw", "clarifying"}
    BY <1>7 DEF IInv, CallsOK, Calls
  <2> QED BY <1>1, <1>4, <1>7, <2>1, <2>2 DEF CallsOK
<1>14. LockOK' /\ Ended'
  BY <1>1, <1>3, <1>4, <1>5, <1>8, BridgeConstants DEF IInv, LockOK, Ended, Live
<1>15. Stored'
  <2>1. \A d \in Deciders : pc'[d] # "storing"
    BY <1>4, <1>7 DEF IInv, CallsOK, Calls
  <2> QED BY <1>1, <1>2, <1>5, <1>8, <2>1, StoredStays DEF IInv, Live
<1>16. Decided'
  <2>1. Delivers
    BY <1>3, CallDelivers DEF IInv, Done
  <2> QED BY <1>1, <1>2, <1>5, <1>6, <2>1, Basics, DecidedMoves DEF IInv
<1>17. Offered'
  <2>1. \A i \in 1..Len(inbox) : Excused(i) => Excused(i)'
    BY <1>1, <1>3, <1>7 DEF Excused, Calls
  <2>2. \A i \in 1..Len(inbox) : i \in orphans' => Excused(i)'
    BY DEF Excused
  <2> QED BY <1>1, <1>3, <1>4, <1>5, <1>8, <2>1, <2>2 DEF IInv, Offered, Live
<1> QED BY <1>9, <1>10, <1>11, <1>12, <1>13, <1>14, <1>15, <1>16, <1>17 DEF IInv

LEMMA CallStepKeeps == ASSUME IInv, NEW c \in Calls, CallStep(c) PROVE IInv'
<1>1. UNCHANGED <<watch, fired, boot>>
  BY DEF CallStep
<1>2. CASE c \in Clients /\ Stopping(c) /\ UNCHANGED history
  BY <1>1, <1>2, StoppingKeeps DEF history
<1>3. CASE c \in Deciders /\ Decision(c) /\ UNCHANGED stopper
  <2>1. CASE AnswerReads(c)
    <3>1. orphans' = orphans
      BY <2>1 DEF AnswerReads
    <3> QED BY <1>1, <1>3, <2>1, <3>1, PostsKeep
  <2>2. CASE Refile(c) \/ RefileStores(c)
    BY <1>1, <1>3, <2>2, RefileKeeps, RefileStoresKeeps
  <2>3. CASE (AnswerPosts(c) \/ Settle(c)) /\ UNCHANGED history
    BY <1>1, <1>3, <2>3, PostsKeep, SettleKeeps DEF history
  <2> QED BY <1>3, <2>1, <2>2, <2>3 DEF Decision
<1>4. CASE /\ c \in Clients /\ UNCHANGED <<stopper, history>>
           /\ StopPosts(c) \/ StopWithdraws(c) \/ AnswerRunPosts(c) \/ Settle(c)
  BY <1>1, <1>4, PostsKeep, SettleKeeps, StopWithdrawsKeeps DEF history
<1> QED BY <1>2, <1>3, <1>4 DEF CallStep

-----------------------------------------------------------------------------
LEMMA InitHolds == Init => IInv
<1> SUFFICES ASSUME Init PROVE IInv
  OBVIOUS
<1>1. Len(log) = 0 /\ Len(inbox) = 0 /\ tail.buf = <<>> /\ Len(tail.buf) = 0 /\ row.out = <<>>
  BY DEF Init, TailOf
<1>2. /\ \A k \in 1..Len(tail.buf) : FALSE
      /\ \A i \in 1..Len(inbox) : FALSE
  BY <1>1
<1>3. LogOK
  BY DEF Init, LogOK
<1>4. RowOK
  BY <1>1 DEF Init, RowOK, IsRow, Statuses
<1>5. TailOK
  BY <1>1, <1>2 DEF Init, TailOK, TailOf, IsTail, NoEnding
<1>6. InboxOK
  BY <1>1, <1>2 DEF Init, InboxOK
<1>7. ClocksOK
  BY DEF Init, ClocksOK
<1>8. CallsOK
  BY BridgeConstants DEF Init, CallsOK, Calling, Calls
<1>9. LockOK
  BY BridgeConstants DEF Init, LockOK, Watching
<1>10. Ended
  BY DEF Init, Ended, Live, Terminal
<1>11. Stored
  <2>1. row.out = <<>> /\ row.last = 0 /\ DOMAIN row.out = {}
    BY <1>1 DEF Init
  <2>2. Texts(row.last) = {}
    BY <2>1 DEF Texts
  <2>3. InOrder(row.out, Texts(row.last)) /\ row.out \in Seq(Nat)
    BY <2>1, <2>2 DEF InOrder
  <2> QED BY <2>3 DEF Init, Stored, Calls
<1>12. Decided
  BY DEF Init, Decided, Deciding, Calls
<1>13. Offered
  BY <1>2 DEF Offered
<1> QED BY <1>3, <1>4, <1>5, <1>6, <1>7, <1>8, <1>9, <1>10, <1>11, <1>12, <1>13 DEF IInv

LEMMA StepHolds == ASSUME IInv, [Next]_vars PROVE IInv'
<1>1. CASE UNCHANGED vars
  <2>1. UNCHANGED <<log, asking, hermes, row, inbox, dedup, filed, tail, pos, wpc, retire, ending,
                    timer, fired, stopper, lock, pc, of, boot, orphans>>
    BY <1>1 DEF vars, hermesVars, queue, watch, stream, clocks, calls, history
  <2>2. Grows /\ Files /\ NoneNew
    BY <2>1, StillGrows, StillFiles DEF IInv
  <2>3. LogOK' /\ RowOK'
    BY <2>1, <2>2, RowStays DEF IInv, Grows
  <2>4. TailOK' /\ InboxOK'
    BY <2>1, <2>2, Basics, TailStays, InboxStays DEF IInv
  <2>5. ClocksOK' /\ CallsOK'
    BY <2>1, <2>2, Basics, ClocksStay, CallsStay DEF IInv
  <2>6. LockOK' /\ Ended'
    BY <2>1 DEF IInv, LockOK, Ended, Live
  <2>7. Stored' /\ Decided'
    BY <2>1, <2>2, Basics, StoredStays, DecidedStays DEF IInv, Live
  <2>8. Offered'
    BY <2>1, <2>2, OfferedStays DEF IInv, Excused, Live
  <2> QED BY <2>3, <2>4, <2>5, <2>6, <2>7, <2>8 DEF IInv
<1>2. CASE Next
  BY <1>2, WorksKeeps, FollowKeeps, WritesKeep, TimersKeep, RestartKeeps, ReattachKeeps,
     CallBeginsKeeps, CallStepKeeps DEF Next
<1> QED BY <1>1, <1>2

\* The watcher, its inbox and its timers agree with the ledger and with Hermes's log in
\* every reachable state, across lost frames, failed writes and restarts (watcher.py).
THEOREM Inductive == Spec => []IInv
  BY InitHolds, StepHolds, PTL DEF Spec

\* The histories hold entries and requests.
HistoryOK == orphans \cup dropped \subseteq Nat
LEMMA HistoryHolds == ASSUME IInv, HistoryOK, [Next]_vars PROVE HistoryOK'
<1>1. filed \in Nat /\ pos + 1 \in Nat /\ (\A r \in fired : r \in Nat) /\ of \in [Calls -> Nat]
  BY Basics DEF IInv, InboxOK, ClocksOK, IsQuestion
<1>2. CASE UNCHANGED history
  BY <1>2 DEF HistoryOK, history
<1>3. CASE Restart
  BY <1>3 DEF Restart, HistoryOK
<1>4. CASE Writes /\ (ApprovalRecorded \/ ApprovalFiled)
  BY <1>1, <1>4 DEF ApprovalRecorded, ApprovalFiled, StoreApprovalId, HistoryOK, history
<1>5. CASE Deadline
  BY <1>1, <1>5 DEF Deadline, HistoryOK
<1>6. CASE AttachStores
  BY <1>1, <1>6 DEF AttachStores, StoreApprovalId, HistoryOK, history
<1>7. ASSUME NEW c \in Calls, AnswerReads(c) \/ Refile(c) \/ RefileStores(c) PROVE HistoryOK'
  BY <1>1, <1>7 DEF AnswerReads, Refile, RefileStores, StoreApprovalId, HistoryOK, history
<1>8. CASE Hermes \/ Follow \/ Writes \/ Timers \/ Reattach \/ UNCHANGED vars
  BY <1>2, <1>4, <1>5, <1>6, <1>8 DEF Hermes, Follow, Writes, Timers, Reattach, vars
<1>9. ASSUME NEW c \in Calls, CallBegins(c) \/ CallStep(c) PROVE HistoryOK'
  <2>1. UNCHANGED history \/ AnswerReads(c) \/ Refile(c) \/ RefileStores(c)
    BY <1>9 DEF CallBegins, CallStep, Decision
  <2> QED BY <1>2, <1>7, <2>1
<1> QED BY <1>3, <1>8, <1>9 DEF Next

\* What is kept are positions that exist, and the output of a live run is exactly the text
\* up to its last recorded event, whatever was replayed, retried or lost with the buffer
\* (watcher.py _on_event, _flush, attach).
THEOREM OutputIsExact == Spec => []Safety
<1>1. IInv /\ HistoryOK => TypeOK
  <2> SUFFICES ASSUME IInv, HistoryOK PROVE TypeOK
    OBVIOUS
  <2>1. Len(log) \in Nat /\ DOMAIN log = 1..Len(log)
    BY DEF IInv, LogOK
  <2>2. Requests = {n \in 1..Len(log) : log[n] \in {"ask", "question"}}
    BY <2>1 DEF Requests
  <2>3. \A r : IsAsk(r) \/ IsQuestion(r) => r \in Requests
    BY <2>2 DEF IsAsk, IsQuestion
  <2>4. {asking, row.pending, timer} \subseteq {0} \cup Requests /\ fired \subseteq Requests
    BY <2>3 DEF IInv, LogOK, RowOK, ClocksOK
  <2>5. inbox \in Seq([req : Requests, state : {"pending", "decided", "failed", "lost"}])
    <3> DEFINE E == [req : Requests, state : {"pending", "decided", "failed", "lost"}]
    <3>1. inbox \in Seq(Entries) /\ Len(inbox) \in Nat
      BY Basics DEF IInv, InboxOK
    <3>2. \A i \in 1..Len(inbox) : inbox[i] \in Entries /\ inbox[i].req \in Requests
      BY <2>3, <3>1 DEF IInv, InboxOK
    <3>3. \A i \in 1..Len(inbox) : inbox[i] \in E
      BY <3>2 DEF Entries
    <3> HIDE DEF E
    <3>4. inbox \in Seq(E)
      BY <3>1, <3>3
    <3> QED BY <3>4 DEF E
  <2>6. {row.last, tail.last, pos} \subseteq 0..Len(log)
    BY DEF IInv, RowOK, TailOK
  <2>7. {dedup, filed, row.entry, retire} \subseteq 0..Len(inbox)
    BY DEF IInv, RowOK, InboxOK
  <2>8. /\ log \in Seq({"text", "ask", "settled", "question", "answered", "stopping", "end"})
        /\ hermes \in {"going", "stopping", "over", "gone"} /\ row.status \in Statuses /\ row.stop \in BOOLEAN
    BY DEF IInv, LogOK, RowOK, Events
  <2>9. /\ wpc \in {"connect", "stream", "closed", "broken", "down", "refused", "snapshot", "retry",
                    "withdraw", "arming", "asking", "storing", "finish", "off", "dead"}
        /\ stopper \in {"off", "posting", "clearing"} /\ boot \in {"probe", "storing", "done"}
        /\ lock \in {Nobody, "watcher", "boot"} \cup Calls
        /\ pc \in [Calls -> {"new", "reading", "posting", "refiling", "storing", "settling",
                             "stopping", "marking", "withdraw", "clarifying", "done"}]
    BY DEF IInv, LockOK, ClocksOK, CallsOK, Watching, Calling
  <2> QED BY <2>4, <2>5, <2>6, <2>7, <2>8, <2>9 DEF TypeOK, HistoryOK
<1>2. IInv => OutputExact
  BY DEF IInv, Stored, OutputExact
<1>3. Init => HistoryOK
  BY DEF Init, HistoryOK
<1>4. Spec => []HistoryOK
  BY <1>3, HistoryHolds, Inductive, PTL DEF Spec
<1> QED BY <1>1, <1>2, <1>4, Inductive, PTL DEF Safety

\* Every entry offered to the operator asks about what the live row has pending, is about
\* to be withdrawn, or is one whose id a failed write kept out of the row: nothing else
\* leaves a question open, for any number of faults (watcher.py _finish,
\* _approval_requested, stopping, _refile, _file_in_inbox; approval_queue.py enqueue,
\* withdraw).
THEOREM OffersAreCurrent == Spec => []RowIsCurrent
<1>1. IInv => RowIsCurrent
  <2> SUFFICES ASSUME IInv PROVE RowIsCurrent
    OBVIOUS
  <2>1. DOMAIN inbox = 1..Len(inbox)
    BY DEF IInv, InboxOK
  <2> QED BY <2>1 DEF IInv, Offered, Excused, RowIsCurrent
<1> QED BY <1>1, Inductive, PTL

\* The watcher's own writes do not look at the status; all others skip a terminal row.
LEMMA TerminalKept == ASSUME IInv, [Next]_vars, ~Live PROVE row' = row
<1>1. wpc = "off" /\ boot # "storing"
  BY DEF IInv, Ended
<1>2. CASE Hermes \/ Follow \/ Restart \/ UNCHANGED vars
  BY <1>2 DEF Hermes, Follow, Restart, vars
<1>3. ~Writes
  BY <1>1 DEF Writes, Flush, OtherEvent, ClarifyRequested, RecordFails, Withdraws, ApprovalBegins,
              ApprovalRecorded, ApprovalFiled, FinishBegins, FinishRecords, Frame, Endings
<1>4. CASE Timers \/ Reattach
  BY <1>1, <1>4 DEF Timers, TimerFires, Deadline, DeliverStop, StopDelivers,
                    Reattach, BootEnds, Attach, AttachStores
<1>5. ASSUME NEW c \in Calls, CallBegins(c) \/ CallStep(c) PROVE row' = row
  BY <1>5 DEF CallBegins, Decide, StopReads, AnswerRunReads, CallStep, Decision, AnswerReads,
              AnswerPosts, Refile, RefileStores, StoreApprovalId, Settle, StopPosts,
              StopWithdraws, AnswerRunPosts, Stopping
<1> QED BY <1>2, <1>3, <1>4, <1>5 DEF Next

\* A terminal row of the ledger is never written again: whatever stop, settle, deadline,
\* refiled decision or re-attach comes late (watcher.py _finish, update; store.py record).
THEOREM EndedForGood == Spec => TerminalSticks
<1>1. IInv /\ [Next]_vars => [~Live => row' = row]_vars
  BY TerminalKept
<1> QED BY <1>1, Inductive, PTL DEF Spec, TerminalSticks
=============================================================================
