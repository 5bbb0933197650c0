------------------------- MODULE SingleFlightProofs -------------------------
(***************************************************************************)
(* The safety of the prefetch coalescing, for every set of callers. The    *)
(* properties follow from an invariant that says what each shared Future   *)
(* holds: it is pending while its leader runs, or it holds its leader's    *)
(* outcome, or a follower that was cut off has cancelled it.               *)
(***************************************************************************)
EXTENDS SingleFlight, TLAPS

\* A caller has a flight from its call on; a leader's is its own.
Joined ==
    \A c \in Callers :
        /\ pc[c] = "idle" <=> flight[c] = None
        /\ pc[c] = "leading" => flight[c] = c
        /\ pc[c] = "following" => flight[c] # c
        /\ flight[c] # None => flight[flight[c]] = flight[c]

\* A follower of l other than its leader was cut off.
CutOff(l) == \E d \in Callers : d # l /\ pc[d] = "aborted" /\ flight[d] = l

\* What the Future of the flight of l holds.
Held(l) ==
    \/ pc[l] = "leading" /\ future[l] = "pending"
    \/ pc[l] # "leading" /\ outcome[l] # None /\ future[l] = outcome[l]
    \/ CutOff(l) /\ future[l] = "cancelled"

FuturesHold == \A l \in Callers : flight[l] = l => Held(l)

\* A follower that returned took what the Future holds, and that is final.
Received ==
    \A c \in Callers : pc[c] = "returned" /\ flight[c] # c =>
        outcome[c] = future[flight[c]] /\ future[flight[c]] # "pending"

Inv == TypeOK /\ MapHoldsTheRunningFlight /\ Joined /\ FuturesHold /\ Received

-----------------------------------------------------------------------------
LEMMA InitHolds == Init => Inv
  BY SingleFlightAssumption
  DEF Init, Inv, TypeOK, MapHoldsTheRunningFlight, Joined, FuturesHold, Received, Futures,
      Places, Outcomes, None

\* A new flight starts.
LEMMA LeadKeeps == ASSUME Inv, NEW c \in Callers, Lead(c) PROVE Inv'
<1> USE SingleFlightAssumption DEF Inv, Lead
<1>1. TypeOK'
  BY DEF TypeOK, Futures, Places, Outcomes
<1>2. MapHoldsTheRunningFlight'
  BY DEF TypeOK, MapHoldsTheRunningFlight
<1>3. Joined'
  BY DEF TypeOK, Joined
<1>4. FuturesHold'
  BY DEF TypeOK, Joined, FuturesHold, Held, CutOff
<1>5. Received'
  BY DEF TypeOK, Joined, Received
<1> QED BY <1>1, <1>2, <1>3, <1>4, <1>5

\* A caller joins the flight in the map.
LEMMA FollowKeeps == ASSUME Inv, NEW c \in Callers, Follow(c) PROVE Inv'
<1> USE SingleFlightAssumption DEF Inv, Follow
<1>1. TypeOK'
  BY DEF TypeOK, Futures, Places, Outcomes
<1>2. MapHoldsTheRunningFlight'
  BY DEF TypeOK, MapHoldsTheRunningFlight
<1>3. Joined'
  BY DEF TypeOK, Joined, MapHoldsTheRunningFlight
<1>4. FuturesHold'
  BY DEF TypeOK, Joined, MapHoldsTheRunningFlight, FuturesHold, Held, CutOff
<1>5. Received'
  BY DEF TypeOK, Joined, Received
<1> QED BY <1>1, <1>2, <1>3, <1>4, <1>5

\* fn is over, in whatever way.
LEMMA SettleKeeps ==
  ASSUME Inv, NEW c \in Callers, pc[c] = "leading",
         NEW how \in {"result", "error", "cancelled"}, NEW place \in {"returned", "aborted"},
         Settle(c, how, place)
  PROVE  Inv'
<1> USE SingleFlightAssumption DEF Inv, Settle
<1>1. TypeOK'
  BY DEF TypeOK, Futures, Places, Outcomes
<1>2. MapHoldsTheRunningFlight'
  BY DEF TypeOK, MapHoldsTheRunningFlight
<1>3. Joined'
  BY DEF TypeOK, Joined
<1>4. FuturesHold'
  BY DEF TypeOK, Joined, FuturesHold, Held, CutOff, None
<1>5. Received'
  <2> SUFFICES ASSUME NEW d \in Callers, pc'[d] = "returned", flight'[d] # d
               PROVE  outcome'[d] = future'[flight'[d]] /\ future'[flight'[d]] # "pending"
    BY DEF Received
  <2>1. d # c /\ pc[d] = "returned" /\ flight[d] # d /\ flight' = flight
    BY DEF TypeOK, Joined
  <2>2. flight[d] \in Callers
    BY <2>1 DEF TypeOK, Joined
  <2> QED BY <2>1, <2>2 DEF TypeOK, Received
<1> QED BY <1>1, <1>2, <1>3, <1>4, <1>5

\* A follower is cut off, and takes the shared Future with it.
LEMMA CancelFollowerKeeps == ASSUME Inv, NEW c \in Callers, CancelFollower(c) PROVE Inv'
<1> USE SingleFlightAssumption DEF Inv, CancelFollower
<1>0. flight[c] \in Callers /\ flight[c] # c /\ pc[flight[c]] = "leading"
  BY DEF TypeOK, Joined, FuturesHold, Held, Outcomes
<1>1. TypeOK'
  BY <1>0 DEF TypeOK, Futures, Places, Outcomes
<1>2. MapHoldsTheRunningFlight'
  BY DEF TypeOK, MapHoldsTheRunningFlight
<1>3. Joined'
  BY DEF TypeOK, Joined
<1>4. FuturesHold'
  BY <1>0 DEF TypeOK, Joined, FuturesHold, Held, CutOff
<1>5. Received'
  BY <1>0 DEF TypeOK, Joined, Received
<1> QED BY <1>1, <1>2, <1>3, <1>4, <1>5

\* A follower takes the outcome.
LEMMA ReceiveKeeps == ASSUME Inv, NEW c \in Callers, Receive(c) PROVE Inv'
<1> USE SingleFlightAssumption DEF Inv, Receive
<1>0. /\ flight[c] \in Callers /\ flight[c] # c
      /\ future[flight[c]] \in {"result", "error", "cancelled"}
  BY DEF TypeOK, Joined, FuturesHold, Held, Futures, Outcomes
<1>1. TypeOK'
  BY <1>0 DEF TypeOK, Places, Outcomes
<1>2. MapHoldsTheRunningFlight'
  BY DEF TypeOK, MapHoldsTheRunningFlight
<1>3. Joined'
  BY DEF TypeOK, Joined
<1>4. FuturesHold'
  BY <1>0 DEF TypeOK, Joined, FuturesHold, Held, CutOff
<1>5. Received'
  BY <1>0 DEF TypeOK, Joined, Received
<1> QED BY <1>1, <1>2, <1>3, <1>4, <1>5

LEMMA NextKeeps == Inv /\ [Next]_vars => Inv'
<1> SUFFICES ASSUME Inv, [Next]_vars PROVE Inv'
  OBVIOUS
<1>1. CASE \E c \in Callers : Lead(c)
  BY <1>1, LeadKeeps
<1>2. CASE \E c \in Callers : Follow(c)
  BY <1>2, FollowKeeps
<1>3. CASE \E c \in Callers : FnReturns(c)
  BY <1>3, SettleKeeps DEF FnReturns
<1>4. CASE \E c \in Callers : FnRaises(c)
  BY <1>4, SettleKeeps DEF FnRaises
<1>5. CASE \E c \in Callers : CancelLeader(c)
  BY <1>5, SettleKeeps DEF CancelLeader
<1>6. CASE \E c \in Callers : CancelFollower(c)
  BY <1>6, CancelFollowerKeeps
<1>7. CASE \E c \in Callers : Receive(c)
  BY <1>7, ReceiveKeeps
<1>8. CASE UNCHANGED vars
  BY <1>8 DEF vars, Inv, TypeOK, MapHoldsTheRunningFlight, Joined, FuturesHold, Held,
              CutOff, Received
<1> QED
  BY <1>1, <1>2, <1>3, <1>4, <1>5, <1>6, <1>7, <1>8 DEF Next, Terminated

LEMMA Invariance == Spec => []Inv
  BY InitHolds, NextKeeps, PTL DEF Spec

-----------------------------------------------------------------------------
\* The types hold for every set of callers: no follower of
\* SingleFlightGroup.do is handed a Future that is not done.
THEOREM FlightTypes == Spec => []TypeOK
<1>1. Inv => TypeOK
  BY DEF Inv
<1> QED BY <1>1, Invariance, PTL

\* However many callers race, fail or are cut off, fn of a key never runs twice
\* at once.
THEOREM OneCall == Spec => []OneCallPerKey
<1>1. Inv => OneCallPerKey
  BY DEF Inv, OneCallPerKey, MapHoldsTheRunningFlight
<1> QED BY <1>1, Invariance, PTL

\* The map holds a flight exactly while its leader runs fn: nobody joins a
\* flight that is over.
THEOREM MapIsCurrent == Spec => []MapHoldsTheRunningFlight
<1>1. Inv => MapHoldsTheRunningFlight
  BY DEF Inv
<1> QED BY <1>1, Invariance, PTL

\* A follower gets its leader's outcome, unless a follower of the same flight
\* was cut off: that cancels the Future for all of them, and is the only way in
\* which do() breaks its promise.
THEOREM OutcomeShared == Spec => []SharedOutcome
<1>1. Inv => SharedOutcome
  <2> SUFFICES ASSUME Inv, NEW c \in Callers, pc[c] = "returned", flight[c] # c,
                      \A d \in Callers : pc[d] = "aborted" /\ flight[d] = flight[c]
                                             => d = flight[c]
               PROVE  outcome[c] = outcome[flight[c]]
    BY DEF SharedOutcome
  <2>1. flight[c] \in Callers /\ flight[flight[c]] = flight[c]
    BY DEF Inv, TypeOK, Joined
  <2>2. Held(flight[c]) /\ ~CutOff(flight[c])
    BY <2>1 DEF Inv, FuturesHold, CutOff
  <2> QED BY <2>2 DEF Inv, Received, Held
<1> QED BY <1>1, Invariance, PTL
=============================================================================
