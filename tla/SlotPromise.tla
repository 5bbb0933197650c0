----------------------------- MODULE SlotPromise -----------------------------
(***************************************************************************)
(* What a slot promises to the rest of hal0, whatever its calls, its       *)
(* watcher, the status() of others, its unit and the API process do        *)
(* (slots/manager.py, slots/state.py).  Its phase is moved by the holder   *)
(* of its lock, along the arrows of Move, or by a look at its unit, which  *)
(* takes no lock: such a look writes at most once, calls the slot down     *)
(* only after it found the unit dead, and up only over a unit that runs.   *)
(* A unit is started only by the holder, and a slot that is being stopped  *)
(* is called down only when its unit is.                                   *)
(***************************************************************************)
CONSTANTS Tasks, Nobody,
          Revives    \* whether a dead unit may come back by itself

VARIABLES holder,   \* who has the slot
          phase,    \* "down", "starting", "up", "stopping" or "failed"
          running,  \* whether the slot's unit runs
          look      \* look[p]: how far p's look at the unit is

vars == <<holder, phase, running, look>>

Init == holder = Nobody /\ phase = "down" /\ running = FALSE /\ look = [p \in Tasks |-> "no"]

\* The lock is taken, perhaps to stop the slot or to promote it.
Take(p) ==
    /\ holder = Nobody /\ holder' = p
    /\ \/ UNCHANGED phase
       \/ phase # "down" /\ phase' = "stopping"
       \/ phase = "starting" /\ phase' = "up"
    /\ UNCHANGED <<running, look>>

\* The holder moves the slot on; it may have stopped the unit.  It does not set a slot
\* that is up to starting, nor bring up one that is being stopped or is down.
Move(p) ==
    /\ holder = p
    /\ \/ phase' \in {"down", "failed"}
       \/ phase \in {"down", "failed"} /\ phase' = "starting"
       \/ phase = "starting" /\ phase' = "up" /\ running'
    /\ running' => running
    /\ phase = "stopping" /\ phase' = "down" => ~running'
    /\ UNCHANGED <<holder, look>>

Start(p) == holder = p /\ running' = TRUE /\ UNCHANGED <<holder, phase, look>>

\* The holder is done, or cancelled; a stop that is cut short has failed.
Leave(p) ==
    /\ holder = p /\ holder' = Nobody
    /\ phase' = IF phase = "stopping" THEN "failed" ELSE phase
    /\ look' = [look EXCEPT ![p] = "no"]
    /\ UNCHANGED running

Look(p) ==
    /\ look[p] = "no"
    /\ look' = [look EXCEPT ![p] = "looking"]
    /\ UNCHANGED <<holder, phase, running>>

\* It sees whether the unit runs.
Find(p) ==
    /\ look[p] = "looking"
    /\ look' = [look EXCEPT ![p] = IF running THEN "alive" ELSE "dead"]
    /\ UNCHANGED <<holder, phase, running>>

\* It ends, and may have moved the slot by what it found.
Report(p) ==
    /\ look[p] # "no" /\ look' = [look EXCEPT ![p] = "no"]
    /\ \/ UNCHANGED phase
       \/ look[p] = "dead" /\ phase' \in {"down", "failed"}
       \/ look[p] = "alive" /\ phase' = "starting"
       \/ look[p] = "alive" /\ phase' = "up" /\ running
    /\ UNCHANGED <<holder, running>>

\* A failure that was only a slow stop is taken back when the unit is down.
Retire ==
    /\ holder = Nobody /\ phase = "failed" /\ ~running
    /\ phase' = "down"
    /\ UNCHANGED <<holder, running, look>>

\* The unit ends, by itself or by a stop.
Die == running /\ running' = FALSE /\ UNCHANGED <<holder, phase, look>>

Revive == Revives /\ ~running /\ running' = TRUE /\ UNCHANGED <<holder, phase, look>>

\* The process dies and one look is taken as it starts again.  The start that the holder
\* was making may still be made.
Crash(b) ==
    /\ holder' = Nobody
    /\ phase' = IF phase = "stopping" THEN "failed" ELSE phase
    /\ running' => running \/ holder # Nobody
    /\ look' = [p \in Tasks |-> IF p = b THEN "looking" ELSE "no"]

Next ==
    \/ Retire \/ Die \/ Revive
    \/ \E p \in Tasks :
          \/ Take(p) \/ Move(p) \/ Start(p) \/ Leave(p)
          \/ Look(p) \/ Find(p) \/ Report(p) \/ Crash(p)

Spec == Init /\ [][Next]_vars
=============================================================================
