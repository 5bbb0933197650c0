-------------------------- MODULE PullJobsProofs --------------------------
(***************************************************************************)
(* Three facts about the pulls of a model, for any number of pulls,        *)
(* resumes, deletes, cancels and clears, any faults, files of any length,  *)
(* any number of upstream versions and of restarts: a poll never waits for *)
(* a worker that is gone, a deleted model is not registered again by a     *)
(* download that was running, and what is registered is one whole file.    *)
(* The first two follow from an invariant on the control state (Inv), the  *)
(* third from two on the files that rest on it: FInv, and for a file that  *)
(* has no checksum KInv, on what the etags vouch for.                      *)
(***************************************************************************)
EXTENDS PullJobs, WellFoundedInduction, TLAPS

States == Active \cup Terminal \cup {"none", "lost"}
Snapshots == [state : Active \cup Terminal, live : BOOLEAN]

Types ==
    /\ jobs \in Jobs \cup {None} /\ state \in [Jobs -> States]
    /\ fresh \subseteq Jobs /\ stale \subseteq Jobs /\ overlap \in BOOLEAN
    /\ snap # None => snap \in Snapshots
    /\ at \in [Jobs -> At] /\ pc \in [Calls -> Pcs]

\* A job is running while its worker downloads, queued until its worker does,
\* and terminal when its worker closes.
Workers ==
    /\ \A j \in Jobs : state[j] = "running" <=> at[j] \in Busy
    /\ \A j \in Jobs : state[j] = "queued" =>
           at[j] = "scheduled" \/ (j \in Pulls /\ pc[j] = "emitting")
    /\ \A j \in Jobs : at[j] = "scheduled" => state[j] = "queued"
    /\ \A p \in Pulls : pc[p] = "emitting" => state[p] = "queued"
    /\ \A j \in Jobs : at[j] \in {"closing", "over"} => state[j] \in Terminal
    /\ \A p \in Pulls : pc[p] \in {"new", "reading", "emitting"} => at[p] = "idle"

\* Unless two jobs overlapped, an active job is the one in the map, and without
\* a job there the snapshot does not claim that this process is at work.
Mapped ==
    ~overlap => /\ \A j \in Jobs : state[j] \in Active => jobs = j
                /\ jobs = None => snap = None \/ snap.state \notin Active \/ ~snap.live

\* A download that was running at a delete is no longer fresh, and never will be.
Outdated == \A j \in stale : j \notin fresh /\ at[j] \notin {"idle", "scheduled"}

Inv == Types /\ Workers /\ Mapped /\ Outdated

\* A step that lets no outdated download complete.
Keeps == \A j \in stale : state[j] = "running" => state'[j] # "completed"

USE DEF history, upstream

-----------------------------------------------------------------------------
LEMMA InitHolds == Init => Inv
<1> SUFFICES ASSUME Init PROVE Inv
  OBVIOUS
<1> USE PullConstants DEF Init
<1>1. Types
  <2>1. state \in [Jobs -> States] /\ at \in [Jobs -> At] /\ pc \in [Calls -> Pcs]
    BY DEF States, At, Pcs
  <2> QED BY <2>1 DEF Types
<1>2. Workers
  BY DEF Workers, Busy, Jobs, Calls
<1>3. Mapped /\ Outdated
  BY DEF Mapped, Outdated, Active
<1> QED BY <1>1, <1>2, <1>3 DEF Inv

\* A step writes the snapshot or leaves it.
LEMMA SnapTyped ==
  ASSUME Types, NEW s \in Active \cup Terminal,
         snap' = snap \/ snap' = [state |-> s, live |-> TRUE]
  PROVE  (snap # None => snap \in Snapshots)'
<1>1. [state |-> s, live |-> TRUE] \in Snapshots
  BY DEF Snapshots
<1>2. CASE snap' = snap
  BY <1>2 DEF Types, Snapshots, Active, Terminal
<1>3. CASE snap' = [state |-> s, live |-> TRUE]
  BY <1>1, <1>3 DEF Snapshots, Active, Terminal
<1> QED BY <1>2, <1>3

LEMMA PersistKeeps ==
  ASSUME NEW s \in Active \cup Terminal, Persist(s)
  PROVE  snap' = snap \/ snap' = [state |-> s, live |-> TRUE]
  BY DEF Persist

\* A worker goes from one part of its download to the next.
LEMMA WorkMoves ==
  ASSUME Inv, NEW j \in Jobs, at[j] \in Busy, NEW q \in Busy, at' = [at EXCEPT ![j] = q],
         UNCHANGED <<jobs, state, fresh, stale, pc, overlap>>,
         snap' = snap \/ snap' = [state |-> "running", live |-> TRUE]
  PROVE  Inv' /\ Keeps
<1> USE PullConstants DEF Inv, Types, Workers
<1>1. Types'
  <2>1. (snap # None => snap \in Snapshots)'
    BY SnapTyped DEF Active
  <2> QED BY <2>1 DEF Busy, At
<1>2. Workers'
  BY DEF Busy, Jobs
<1>3. Mapped'
  <2>1. ~overlap => jobs = j
    BY DEF Mapped, Active, Busy
  <2> QED BY <2>1 DEF Mapped
<1>4. Outdated'
  BY DEF Outdated, Busy
<1>5. Keeps
  BY DEF Keeps
<1> QED BY <1>1, <1>2, <1>3, <1>4, <1>5

\* A download ends; it completes only if no delete came after its start.
LEMMA WorkEnds ==
  ASSUME Inv, NEW j \in Jobs, at[j] \in Busy, NEW s \in Terminal,
         state' = [state EXCEPT ![j] = s], at' = [at EXCEPT ![j] = "closing"],
         UNCHANGED <<jobs, fresh, stale, pc, overlap>>,
         snap' = snap \/ snap' = [state |-> s, live |-> TRUE],
         s = "completed" => j \in fresh
  PROVE  Inv' /\ Keeps
<1> USE PullConstants DEF Inv, Types, Workers
<1>1. Types'
  <2>1. (snap # None => snap \in Snapshots)'
    BY SnapTyped
  <2> QED BY <2>1 DEF Busy, At, States, Terminal
<1>2. Workers'
  BY DEF Busy, Jobs, Terminal
<1>3. Mapped'
  <2>1. ~overlap => jobs = j
    BY DEF Mapped, Active, Busy
  <2> QED BY <2>1 DEF Mapped, Active, Terminal
<1>4. Outdated'
  BY DEF Outdated, Busy
<1>5. Keeps
  BY DEF Keeps, Outdated
<1> QED BY <1>1, <1>2, <1>3, <1>4, <1>5

\* A call moves on among the places of a cancel or a delete.
LEMMA CallMoves ==
  ASSUME Inv, NEW c \in Calls, NEW q \in Pcs \ {"new", "reading", "emitting"},
         pc[c] # "emitting", pc' = [pc EXCEPT ![c] = q],
         UNCHANGED <<jobs, state, fresh, stale, at, overlap>>,
         snap' = snap \/ snap' = None
  PROVE  Inv' /\ Keeps
<1> USE PullConstants DEF Inv, Types, Workers
<1>1. Types'
  OBVIOUS
<1>2. Workers'
  BY DEF Calls
<1>3. Mapped'
  BY DEF Mapped
<1>4. Outdated' /\ Keeps
  BY DEF Outdated, Keeps
<1> QED BY <1>1, <1>2, <1>3, <1>4

-----------------------------------------------------------------------------
LEMMA InsertKeeps ==
  ASSUME Inv, NEW p \in Pulls, pc[p] \in {"new", "reading"}, Insert(p),
         pc' = [pc EXCEPT ![p] = "emitting"], UNCHANGED <<stale, at>>
  PROVE  Inv' /\ Keeps
<1> USE PullConstants DEF Inv, Types, Workers, Insert
<1>0. /\ p \in Jobs /\ p \in Calls /\ at[p] = "idle"
      /\ snap' = snap \/ snap' = [state |-> "queued", live |-> TRUE]
  BY PersistKeeps DEF Jobs, Calls, Active
<1>1. Types'
  <2>1. (snap # None => snap \in Snapshots)'
    BY <1>0, SnapTyped DEF Active
  <2> QED BY <1>0, <2>1 DEF States, Active, Pcs
<1>2. Workers'
  BY <1>0 DEF Jobs, Busy, Terminal
<1>3. Mapped'
  BY <1>0 DEF Mapped, Working, Active
<1>4. Outdated' /\ Keeps
  BY <1>0 DEF Outdated, Keeps
<1> QED BY <1>1, <1>2, <1>3, <1>4

LEMMA RefuseKeeps ==
  ASSUME Inv, NEW p \in Pulls, pc[p] \in {"new", "reading"}, Refuse(p), UNCHANGED <<stale, at>>
  PROVE  Inv' /\ Keeps
<1>1. p \in Calls /\ "refused" \in Pcs \ {"new", "reading", "emitting"} /\ pc[p] # "emitting"
  BY DEF Calls, Pcs
<1> QED BY <1>1, CallMoves DEF Refuse

LEMMA EnqueueKeeps == ASSUME Inv, NEW p \in Pulls, Enqueue(p) PROVE Inv' /\ Keeps
<1> USE DEF Enqueue
<1>1. CASE EnqueueChecks(p)
  <2>1. p \in Calls /\ "resumed" \in Pcs \ {"new", "reading", "emitting"} /\ pc[p] = "new"
    BY <1>1 DEF Calls, Pcs, EnqueueChecks
  <2>2. CASE pc' = [pc EXCEPT ![p] = "resumed"] /\ UNCHANGED <<jobs, state, fresh, overlap, snap>>
    <3>1. UNCHANGED <<jobs, state, fresh, stale, at, overlap>> /\ snap' = snap
      BY <1>1, <2>2 DEF EnqueueChecks
    <3> QED BY <2>1, <2>2, <3>1, CallMoves
  <2>3. CASE MakeJob(p)
    <3>1. UNCHANGED <<stale, at>>
      BY <1>1 DEF EnqueueChecks
    <3> QED BY <2>1, <2>3, <3>1, InsertKeeps, RefuseKeeps DEF MakeJob
  <2>4. CASE pc' = [pc EXCEPT ![p] = "reading"] /\ UNCHANGED <<jobs, state, fresh, overlap, snap>>
    <3>1. UNCHANGED <<jobs, state, fresh, stale, at, overlap, snap>>
      BY <1>1, <2>4 DEF EnqueueChecks
    <3> QED BY <2>1, <2>4, <3>1 DEF Inv, Types, Workers, Mapped, Outdated, Keeps, Pcs
  <2> QED BY <1>1, <2>2, <2>3, <2>4 DEF EnqueueChecks
<1>2. CASE EnqueueReads(p)
  <2>1. pc[p] = "reading" /\ UNCHANGED <<stale, at>> /\ (Refuse(p) \/ MakeJob(p))
    BY <1>2 DEF EnqueueReads
  <2> QED BY <2>1, InsertKeeps, RefuseKeeps DEF MakeJob
<1>3. CASE EnqueueSchedules(p)
  <2> USE <1>3, PullConstants DEF EnqueueSchedules, Inv, Types, Workers
  <2>0. p \in Jobs /\ p \in Calls /\ at[p] = "idle"
    BY DEF Jobs, Calls
  <2>1. Types'
    BY <2>0 DEF At, Pcs
  <2>2. Workers'
    BY <2>0 DEF Jobs, Busy
  <2>3. Mapped'
    BY DEF Mapped
  <2>4. Outdated' /\ Keeps
    BY <2>0 DEF Outdated, Keeps
  <2> QED BY <2>1, <2>2, <2>3, <2>4
<1> QED BY <1>1, <1>2, <1>3

-----------------------------------------------------------------------------
LEMMA StartsKeeps == ASSUME Inv, NEW j \in Jobs, Starts(j) PROVE Inv' /\ Keeps
<1> USE PullConstants DEF Inv, Types, Workers, Starts
<1>0. snap' = snap \/ snap' = [state |-> "running", live |-> TRUE]
  BY PersistKeeps DEF Active
<1>1. Types'
  <2>1. (snap # None => snap \in Snapshots)'
    BY <1>0, SnapTyped DEF Active
  <2> QED BY <2>1 DEF At, Busy, States, Active
<1>2. Workers'
  BY DEF Jobs, Busy, Terminal
<1>4. Outdated' /\ Keeps
  BY DEF Outdated, Keeps, Busy
<1>3. Mapped'
  <2>1. ~overlap => jobs = j
    BY DEF Mapped, Active
  <2> QED BY <2>1 DEF Mapped, Active
<1> QED BY <1>1, <1>2, <1>3, <1>4

\* Every other step of a worker is a move or an end.
LEMMA RunPullKeeps == ASSUME Inv, NEW j \in Jobs, RunPull(j) PROVE Inv' /\ Keeps
<1>0. {"hashing", "reading", "extras"} \subseteq Busy /\ {"failed", "cancelled", "completed"} \subseteq Terminal
  BY DEF Busy, Terminal
<1>1. CASE Starts(j)
  BY <1>1, StartsKeeps
<1>2. CASE AnsweredPartial(j) \/ AnsweredWhole(j) \/ Appends(j)
  <2>1. /\ at[j] \in Busy /\ (at' = [at EXCEPT ![j] = "hashing"] \/ at' = [at EXCEPT ![j] = "reading"])
        /\ UNCHANGED <<jobs, state, fresh, stale, pc, overlap, snap>>
    BY <1>2 DEF AnsweredPartial, AnsweredWhole, Appends, Busy
  <2> QED BY <1>0, <2>1, WorkMoves
<1>3. CASE Chunk(j)
  <2>1. /\ at[j] = "reading" /\ at' = [at EXCEPT ![j] = "reading"]
        /\ UNCHANGED <<jobs, state, fresh, stale, pc, overlap>>
        /\ snap' = snap \/ snap' = [state |-> "running", live |-> TRUE]
    BY <1>3 DEF Chunk, Inv, Types
  <2> QED BY <1>0, <2>1, WorkMoves
<1>4. CASE \/ SeesCancel(j) \/ Rejected(j) \/ Breaks(j) \/ Mismatch(j) \/ (Installs(j) /\ part = None)
           \/ (Extras(j) /\ state' # state) \/ Registers(j)
  <2>1. at[j] \in Busy /\ UNCHANGED <<jobs, fresh, stale, pc, overlap>>
    BY <1>4 DEF SeesCancel, Rejected, Breaks, Mismatch, Installs, Extras, Registers, Busy, Ends
  <2>2. PICK s \in Terminal :
            /\ state' = [state EXCEPT ![j] = s] /\ at' = [at EXCEPT ![j] = "closing"]
            /\ snap' = snap \/ snap' = [state |-> s, live |-> TRUE]
            /\ s = "completed" => j \in fresh
    <3>1. CASE SeesCancel(j)
      <4>1. Ends(j, "cancelled")
        BY <3>1 DEF SeesCancel
      <4> QED BY <1>0, <4>1, PersistKeeps DEF Ends
    <3>2. CASE Rejected(j) \/ Breaks(j) \/ (Extras(j) /\ state' # state)
      <4>1. \/ Ends(j, "failed")
            \/ /\ state' = [state EXCEPT ![j] = "failed"] /\ at' = [at EXCEPT ![j] = "closing"]
               /\ snap' = [state |-> "failed", live |-> TRUE]
        BY <3>2 DEF Rejected, Breaks, Extras
      <4> QED BY <1>0, <4>1, PersistKeeps DEF Ends
    <3>3. CASE Mismatch(j)
      <4>1. Ends(j, "failed")
        BY <3>3 DEF Mismatch
      <4> QED BY <1>0, <4>1, PersistKeeps DEF Ends
    <3>4. CASE (Installs(j) /\ part = None) \/ Registers(j)
      <4>1. \/ Ends(j, "failed") \/ Ends(j, "cancelled")
            \/ Ends(j, "completed") /\ j \in fresh
        BY <3>4 DEF Installs, Registers, Abandoned
      <4> QED BY <1>0, <4>1, PersistKeeps DEF Ends
    <3> QED BY <1>4, <3>1, <3>2, <3>3, <3>4
  <2> QED BY <2>1, <2>2, WorkEnds
<1>5. CASE Wraps(j)
  <2> USE <1>5, PullConstants DEF Wraps, Inv, Types, Workers
  <2>0. state[j] \in Terminal /\ (snap' = snap \/ snap' = [state |-> state[j], live |-> TRUE])
    BY PersistKeeps
  <2>1. Types'
    <3>1. (snap # None => snap \in Snapshots)'
      BY <2>0, SnapTyped
    <3> QED BY <3>1 DEF At
  <2>2. Workers'
    BY DEF Busy, Jobs
  <2>3. Mapped'
    BY <2>0 DEF Mapped, Active, Terminal
  <2>4. Outdated' /\ Keeps
    BY DEF Outdated, Keeps
  <2> QED BY <2>1, <2>2, <2>3, <2>4
<1>6. CASE (Installs(j) /\ part # None) \/ (Extras(j) /\ state' = state)
  <2>1. /\ at[j] \in Busy /\ at' = [at EXCEPT ![j] = "extras"]
        /\ UNCHANGED <<jobs, state, fresh, stale, pc, overlap>>
        /\ snap' = snap \/ snap' = [state |-> "running", live |-> TRUE]
    <3>1. CASE Installs(j) /\ part # None
      BY <3>1 DEF Installs, Busy
    <3>2. CASE Extras(j) /\ state' = state
      <4>1. state[j] = "running"
        BY <3>2 DEF Inv, Workers, Extras, Busy
      <4> QED BY <3>2, <4>1 DEF Extras, Busy, Inv, Types
    <3> QED BY <1>6, <3>1, <3>2
  <2> QED BY <1>0, <2>1, WorkMoves
<1> QED BY <1>1, <1>2, <1>3, <1>4, <1>5, <1>6 DEF RunPull

-----------------------------------------------------------------------------
\* Cancels and deletes move their own call, and mark what is running.
LEMMA DeleteKeeps == ASSUME Inv, NEW d \in Deletes, Delete(d) PROVE Inv' /\ Keeps
<1>0. d \in Calls
  BY DEF Calls
<1>1. CASE DeleteMarks(d)
  <2> USE <1>0, <1>1, PullConstants DEF DeleteMarks, Inv, Types, Workers
  <2>1. Types'
    BY DEF Pcs
  <2>2. Workers'
    BY DEF Calls
  <2>3. Mapped'
    BY DEF Mapped
  <2>4. Outdated' /\ Keeps
    BY DEF Outdated, Keeps, Busy
  <2> QED BY <2>1, <2>2, <2>3, <2>4
<1>2. CASE ~DeleteMarks(d)
  <2>1. PICK q \in Pcs \ {"new", "reading", "emitting"} : pc' = [pc EXCEPT ![d] = q]
    BY <1>2 DEF Delete, DeleteBegins, DeleteWaited, DeleteRow, DeleteFiles, DeleteEnds, Pcs
  <2>2. /\ pc[d] # "emitting" /\ UNCHANGED <<jobs, state, fresh, stale, at, overlap>>
        /\ snap' = snap \/ snap' = None
    BY <1>2 DEF Delete, DeleteBegins, DeleteWaited, DeleteRow, DeleteFiles, DeleteEnds
  <2> QED BY <1>0, <2>1, <2>2, CallMoves
<1> QED BY <1>1, <1>2

LEMMA ClearKeeps == ASSUME Inv, NEW c \in Clears, Clear(c) PROVE Inv' /\ Keeps
<1> USE PullConstants DEF Clear, Inv, Types, Workers
<1>1. Types'
  BY DEF Calls, Pcs
<1>2. Workers'
  BY DEF Calls
<1>3. Mapped'
  BY DEF Mapped
<1>4. Outdated' /\ Keeps
  BY DEF Outdated, Keeps
<1> QED BY <1>1, <1>2, <1>3, <1>4

\* At a boot no call is under way, and at most one job, a resumed one, is queued.
LEMMA BootWorkers ==
  ASSUME NEW r \in Resumes, \A c \in Calls : pc'[c] \notin {"reading", "emitting"},
         state'[r] = "queued", at'[r] = "scheduled",
         \A j \in Jobs \ {r} : state'[j] \in {"none", "lost"} /\ at'[j] = "idle"
  PROVE  Workers'
<1>1. r \notin Pulls /\ Pulls \subseteq Jobs /\ Pulls \subseteq Calls
  BY PullConstants DEF Jobs, Calls
<1>2. \A j \in Jobs : j = r \/ (state'[j] \in {"none", "lost"} /\ at'[j] = "idle")
  OBVIOUS
<1>3. \A p \in Pulls : at'[p] = "idle" /\ pc'[p] \notin {"reading", "emitting"}
  BY <1>1
<1>4. \A j \in Jobs : (state'[j] = "running") <=> (at'[j] \in Busy)
  BY <1>2 DEF Busy
<1>5. \A j \in Jobs : /\ state'[j] = "queued" => at'[j] = "scheduled"
                      /\ at'[j] = "scheduled" => state'[j] = "queued"
                      /\ at'[j] # "closing"
  BY <1>2
<1> QED BY <1>3, <1>4, <1>5 DEF Workers, Busy

\* A restart: nothing is running and nothing is marked. Whatever snapshot the
\* old process left, the new one resumes it or does not take it for its own.
LEMMA BootKeeps ==
  ASSUME Inv, Forgets, NEW old, old # None => old \in Snapshots, Boots(old)
  PROVE  Inv' /\ Keeps
<1> USE PullConstants DEF Inv, Types, Workers, Forgets, Boots
<1>0. \A c \in Calls : pc'[c] \notin {"reading", "emitting"} /\ pc' \in [Calls -> Pcs]
  BY DEF Pcs
<1>1. CASE Resumable(old) /\ \E r \in Resumes : state[r] = "none"
  <2>1. PICK r \in Resumes :
            /\ jobs' = r /\ fresh' = {r}
            /\ state' = [j \in Jobs |-> IF j = r THEN "queued"
                                        ELSE IF state[j] = "none" THEN "none" ELSE "lost"]
            /\ at' = [j \in Jobs |-> IF j = r THEN "scheduled" ELSE "idle"]
            /\ snap' = [state |-> "queued", live |-> TRUE]
    BY <1>1
  <2>2. r \in Jobs /\ r \notin Pulls
    BY DEF Jobs
  <2>3. \A j \in Jobs : /\ j = r => state'[j] = "queued" /\ at'[j] = "scheduled"
                        /\ j # r => state'[j] \in {"none", "lost"} /\ at'[j] = "idle"
    BY <2>1
  <2>4. Types'
    <3>1. snap' \in Snapshots
      BY <2>1 DEF Snapshots, Active
    <3>2. state' \in [Jobs -> States] /\ at' \in [Jobs -> At]
      BY <2>1, <2>3 DEF States, Active, At
    <3> QED BY <1>0, <2>1, <2>2, <3>1, <3>2 DEF Snapshots
  <2>5. Workers'
    <3> HIDE DEF Inv, Types, Workers, Forgets, Boots
    <3>1. \A c \in Calls : pc'[c] \notin {"reading", "emitting"}
      BY <1>0
    <3>2. state'[r] = "queued" /\ at'[r] = "scheduled"
      BY <2>2, <2>3
    <3>3. \A j \in Jobs \ {r} : state'[j] \in {"none", "lost"} /\ at'[j] = "idle"
      BY <2>3
    <3> QED BY <3>1, <3>2, <3>3, BootWorkers
  <2>6. Mapped'
    BY <2>1, <2>2, <2>3 DEF Mapped, Active
  <2>7. Outdated' /\ Keeps
    BY <2>3 DEF Outdated, Keeps
  <2> QED BY <2>4, <2>5, <2>6, <2>7
<1>2. CASE ~(Resumable(old) /\ \E r \in Resumes : state[r] = "none")
  <2>1. /\ jobs' = None /\ fresh' = {} /\ stale' = {} /\ overlap' = overlap
        /\ state' = [j \in Jobs |-> IF state[j] = "none" THEN "none" ELSE "lost"]
        /\ at' = [j \in Jobs |-> "idle"]
        /\ snap' = IF old = None THEN None ELSE [old EXCEPT !.live = FALSE]
    BY <1>2
  <2>2. \A j \in Jobs : state'[j] \in {"none", "lost"} /\ at'[j] = "idle"
    BY <2>1
  <2>3. snap' # None => snap' \in Snapshots /\ ~snap'.live
    BY <2>1 DEF Snapshots
  <2>4. Types'
    <3>1. state' \in [Jobs -> States] /\ at' \in [Jobs -> At]
      BY <2>1, <2>2 DEF States, At
    <3> QED BY <1>0, <2>1, <2>3, <3>1 DEF Snapshots
  <2>5. Workers'
    BY <1>0, <2>2 DEF Busy, Jobs, Calls
  <2>6. Mapped'
    BY <2>1, <2>2, <2>3 DEF Mapped, Active
  <2>7. Outdated' /\ Keeps
    BY <2>1, <2>2 DEF Outdated, Keeps
  <2> QED BY <2>4, <2>5, <2>6, <2>7
<1> QED BY <1>1, <1>2

LEMMA NextKeeps == ASSUME Inv, [Next]_vars PROVE Inv' /\ (Keeps \/ UNCHANGED vars)
<1>1. CASE \E p \in Pulls : Enqueue(p)
  BY <1>1, EnqueueKeeps
<1>2. CASE \E j \in Jobs : RunPull(j)
  BY <1>2, RunPullKeeps
<1>3. CASE \E k \in Cancels : Cancel(k)
  <2>1. "done" \in Pcs \ {"new", "reading", "emitting"} /\ Cancels \subseteq Calls
    BY DEF Pcs, Calls
  <2> QED BY <1>3, <2>1, CallMoves DEF Cancel
<1>4. CASE \E c \in Clears : Clear(c)
  BY <1>4, ClearKeeps
<1>5. CASE \E d \in Deletes : Delete(d)
  BY <1>5, DeleteKeeps
<1>6. CASE Crash
  BY <1>6, BootKeeps DEF Crash, Inv, Types
<1>7. CASE Shutdown
  <2>1. [state |-> "cancelled", live |-> FALSE] \in Snapshots
    BY DEF Snapshots, Terminal
  <2> QED BY <1>7, <2>1, BootKeeps DEF Shutdown, Inv, Types
<1>8. CASE ObjectChanges \/ UNCHANGED vars
  <2>1. UNCHANGED <<jobs, state, fresh, stale, overlap, snap, at, pc>>
    BY <1>8 DEF ObjectChanges, vars
  <2> QED BY <2>1 DEF Inv, Types, Workers, Mapped, Outdated, Keeps
<1> QED BY <1>1, <1>2, <1>3, <1>4, <1>5, <1>6, <1>7, <1>8 DEF Next

LEMMA Invariance == Spec => []Inv
<1>1. Inv /\ [Next]_vars => Inv'
  BY NextKeeps
<1> QED BY <1>1, InitHolds, PTL DEF Spec

-----------------------------------------------------------------------------
(***************************************************************************)
(* The files. What follows rests on Inv: while no two jobs overlap, only   *)
(* the job in the map is at work.                                          *)
(***************************************************************************)

Responses == [from : 0 .. MaxChunks, got : 0 .. MaxChunks, version : 0 .. MaxVersions,
              clean : BOOLEAN, file : Jobs \cup {None}]

Stores ==
    /\ content \in [Jobs -> [Chunks -> 0 .. MaxVersions]]
    /\ part \in Jobs \cup {None} /\ final \in Jobs \cup {None}
    /\ sidecar # None => sidecar \in [bytes : Chunks, etag : 0 .. MaxVersions]

\* A worker with a response knows its version, and one that streams has a file open.
Loads ==
    /\ load \in [Jobs -> Responses]
    /\ \A j \in Jobs : at[j] \in {"hashing", "reading"} => load[j].version # 0
    /\ \A j \in Jobs : at[j] = "reading" => load[j].file \in Jobs

Ranges ==
    /\ cancel \subseteq Jobs /\ deleting \in BOOLEAN /\ raced \in BOOLEAN
    /\ lfs \in BOOLEAN /\ guessed \in BOOLEAN
    /\ row \in {"none", "seeded", "installed"} /\ wait \in [Deletes -> Jobs \cup {None}]
    /\ object \in 1 .. MaxVersions /\ restarts \in 0 .. MaxRestarts /\ faults \in 0 .. MaxFaults

\* No file is named after a job that has not opened one yet.
Named ==
    /\ \A j \in Jobs : state[j] \in {"none", "queued"} \/ at[j] = "asking" => part # j /\ final # j
    /\ \A p \in Pulls : pc[p] \in {"new", "reading"} => state[p] = "none"

\* A delete past its wait has no job beside it, and until its files are gone no row.
Stopped ==
    \A d \in Deletes :
        /\ pc[d] = "waiting" => \A j \in Jobs : state[j] \in Active => j = wait[d]
        /\ pc[d] \in {"cascade", "marking", "files", "ending"} =>
               \A j \in Jobs : state[j] \notin Active
        /\ pc[d] \in {"marking", "files"} => row # "installed"

\* The worker that streams writes the staging file, which is not the model's file,
\* and what its hash has covered is of one version; past its install there is a file.
Staged ==
    /\ part # None => part # final
    /\ \A j \in Jobs : at[j] = "reading" =>
           /\ load[j].file = part
           /\ load[j].clean => \A k \in 1 .. load[j].got : content[part][k] = load[j].version
    /\ \A j \in Jobs : at[j] = "extras" => final # None

\* The model's file is whole, and it is there if the model is registered.
Kept ==
    /\ row = "installed" => final # None
    /\ final # None => Whole(content[final])

Alone == ~overlap /\ ~raced /\ ~guessed

FInv == Stores /\ Loads /\ Ranges /\ Named /\ (Alone => Stopped /\ Staged /\ Kept)

\* The first n chunks are there, all of version v, and no others.
Prefix(c, n, v) == \A k \in Chunks : c[k] = IF k <= n THEN v ELSE 0

\* A file without a checksum: what a sidecar's etag names, if the upstream still serves
\* it, is what the partial holds; and so is what a worker asks to continue, hashes or
\* streams. Versions only grow, so a sidecar that survives a restart from scratch is
\* older than what is streamed, or the same.
Known ==
    /\ sidecar # None => sidecar.etag <= object
    /\ Vouched /\ sidecar.etag = object => Prefix(content[part], sidecar.bytes, object)
    /\ \A j \in Jobs : at[j] \in {"idle", "scheduled"} => load[j].from = 0
    /\ \A j \in Jobs : at[j] = "asking" /\ load[j].from > 0 =>
           Vouched /\ sidecar.bytes = load[j].from /\ sidecar.etag = load[j].version
    /\ \A j \in Jobs : at[j] \in {"hashing", "reading"} =>
           /\ load[j].version <= object
           /\ sidecar # None => sidecar.etag <= load[j].version
    /\ \A j \in Jobs : at[j] = "hashing" => Prefix(content[part], load[j].from, load[j].version)
    /\ \A j \in Jobs : at[j] = "reading" => Prefix(content[part], load[j].got, load[j].version)

KInv == Alone /\ ~lfs => Known

\* A set of naturals has a least element.
LEMMA LeastNatural ==
    ASSUME NEW T \in SUBSET Nat, T # {}
    PROVE  \E m \in T : \A y \in T : m <= y
<1>1. PICK m \in T : \A y \in T : ~(<<y, m>> \in OpToRel(<, Nat))
  BY NatLessThanWellFounded, WFMin
<1>2. ASSUME NEW y \in T PROVE m <= y
  <2>1. m \in Nat /\ y \in Nat
    OBVIOUS
  <2>2. y < m => <<y, m>> \in OpToRel(<, Nat)
    BY <2>1 DEF OpToRel
  <2>3. ~(y < m)
    BY <1>1, <2>2, Zenon
  <2> QED BY <2>1, <2>3
<1> QED BY <1>2

\* What a file holds is no longer than the file.
LEMMA LengthTyped == ASSUME NEW c PROVE Length(c) \in 0 .. MaxChunks
<1> DEFINE S == {0} \cup {k \in Chunks : c[k] # 0}
           T == {m \in 0 .. MaxChunks : \A y \in S : y <= m}
<1>1. MaxChunks \in Nat /\ S \subseteq 0 .. MaxChunks /\ 0 \in S
  BY PullConstants DEF Chunks
<1>2. MaxChunks \in T
  BY <1>1
<1>3. PICK m \in T : \A y \in T : m <= y
  <2>1. T \in SUBSET Nat /\ T # {}
    BY <1>1, <1>2
  <2> HIDE DEF T
  <2> QED BY <2>1, LeastNatural
<1>4. m \in S
  <2> SUFFICES ASSUME m \notin S PROVE FALSE
    OBVIOUS
  <2>1. m # 0 /\ m - 1 \in 0 .. MaxChunks
    BY <1>1
  <2>2. \A y \in S : y <= m - 1
    BY <1>1
  <2> QED BY <1>1, <1>3, <2>1, <2>2
<1>5. \E x \in S : \A y \in S : x >= y
  BY <1>1, <1>4
<1> HIDE DEF S
<1>6. Max(S) \in S
  BY <1>5 DEF Max
<1> QED BY <1>1, <1>6 DEF Length, S

LEMMA InitFiles == Init => FInv
<1> SUFFICES ASSUME Init PROVE FInv
  OBVIOUS
<1> USE PullConstants DEF Init
<1>1. Stores
  <2>1. Empty \in [Chunks -> 0 .. MaxVersions]
    BY DEF Empty
  <2> QED BY <2>1 DEF Stores
<1>2. Loads
  <2>1. NoLoad \in Responses
    BY DEF NoLoad, Responses
  <2> QED BY <2>1 DEF Loads
<1>3. Ranges
  <2>1. 1 \in 1 .. MaxVersions /\ 0 \in 0 .. MaxRestarts /\ 0 \in 0 .. MaxFaults
    OBVIOUS
  <2> QED BY <2>1 DEF Ranges
<1>4. Named
  BY DEF Named, Jobs, Calls
<1>5. Stopped /\ Staged /\ Kept
  BY DEF Stopped, Staged, Kept, Calls, Active
<1> QED BY <1>1, <1>2, <1>3, <1>4, <1>5 DEF FInv

LEMMA PersistBounded ==
  ASSUME Ranges, NEW s, Persist(s) PROVE faults' \in 0 .. MaxFaults
  BY PullConstants DEF Ranges, Persist, Fault

\* A call goes on, and neither a job nor a file changes. It does not enter a delete.
LEMMA CallFiles ==
  ASSUME FInv, Ranges', NEW c \in Calls,
         NEW q \in {"reading", "emitting", "resumed", "refused", "done"},
         pc' = [pc EXCEPT ![c] = q], q = "reading" => pc[c] = "new", pc \in [Calls -> Pcs],
         row' \in {row, "seeded"}, row = "installed" => row' = row,
         UNCHANGED <<state, files, load, wait, history>>,
         \A j \in Jobs : at'[j] = at[j] \/ at'[j] \in {"scheduled", "over"}
  PROVE  FInv'
<1> USE DEF FInv, files
<1>1. Stores'
  BY DEF Stores
<1>2. Loads'
  BY DEF Loads
<1>3. Named'
  BY DEF Named, Calls
<1>4. ASSUME Alone' PROVE Stopped' /\ Staged' /\ Kept'
  <2>1. Alone /\ Stopped /\ Staged /\ Kept
    BY <1>4 DEF Alone
  <2>2. Stopped'
    BY <2>1 DEF Stopped, Calls
  <2>3. Staged'
    BY <2>1 DEF Staged
  <2>4. Kept'
    BY <2>1 DEF Kept
  <2> QED BY <2>2, <2>3, <2>4
<1> QED BY <1>1, <1>2, <1>3, <1>4

-----------------------------------------------------------------------------
LEMMA InsertFiles ==
  ASSUME Inv, FInv, NEW p \in Pulls, pc[p] \in {"new", "reading"}, Insert(p),
         pc' = [pc EXCEPT ![p] = "emitting"], row' \in {row, "seeded"},
         row = "installed" => row' = row,
         UNCHANGED <<cancel, deleting, files, load, at, wait, upstream, restarts>>
  PROVE  FInv'
<1> USE DEF FInv, files
<1>0. p \in Jobs /\ p \in Calls /\ pc \in [Calls -> Pcs] /\ state \in [Jobs -> States]
  BY DEF Inv, Types, Jobs, Calls
<1>1. Stores'
  BY DEF Stores
<1>2. Loads'
  BY DEF Loads
<1>3. Ranges'
  <2>1. faults' \in 0 .. MaxFaults
    BY PersistBounded DEF Insert
  <2>2. raced' \in BOOLEAN /\ guessed' = guessed
    BY DEF Insert
  <2> QED BY <2>1, <2>2 DEF Ranges
<1>4. Named'
  BY <1>0 DEF Named, Insert, Calls
<1>5. ASSUME Alone' PROVE Stopped' /\ Staged' /\ Kept'
  <2>1. Alone /\ Stopped /\ Staged /\ Kept /\ \A d \in Deletes : ~UnderWay(d)
    BY <1>5 DEF Alone, Insert
  <2>2. Stopped'
    BY <1>0, <2>1 DEF Stopped, UnderWay, Calls
  <2>3. Staged' /\ Kept'
    BY <2>1 DEF Staged, Kept
  <2> QED BY <2>2, <2>3
<1> QED BY <1>1, <1>2, <1>3, <1>4, <1>5

LEMMA EnqueueFiles == ASSUME Inv, FInv, NEW p \in Pulls, Enqueue(p) PROVE FInv'
<1> USE DEF FInv
<1>0. p \in Calls /\ p \in Jobs /\ pc \in [Calls -> Pcs] /\ at \in [Jobs -> At]
  BY DEF Calls, Jobs, Inv, Types
<1>1. CASE EnqueueChecks(p)
  <2>1. /\ pc[p] = "new"
        /\ UNCHANGED <<cancel, deleting, row, files, load, at, wait, upstream, restarts>>
    BY <1>1 DEF EnqueueChecks
  <2>2. CASE /\ pc' = [pc EXCEPT ![p] = "resumed"] \/ pc' = [pc EXCEPT ![p] = "reading"]
                                                   \/ pc' = [pc EXCEPT ![p] = "refused"]
             /\ UNCHANGED <<state, history, faults>>
    <3>1. Ranges'
      BY <2>1, <2>2 DEF Ranges
    <3> QED BY <1>0, <2>1, <2>2, <3>1, CallFiles
  <2>3. CASE Insert(p) /\ pc' = [pc EXCEPT ![p] = "emitting"]
    BY <2>1, <2>3, InsertFiles
  <2> QED BY <1>1, <2>2, <2>3 DEF EnqueueChecks, MakeJob, Refuse
<1>2. CASE EnqueueReads(p)
  <2>1. /\ pc[p] = "reading"
        /\ UNCHANGED <<cancel, deleting, files, load, at, wait, upstream, restarts>>
    BY <1>2 DEF EnqueueReads
  <2>2. row' \in {row, "seeded"} /\ (row = "installed" => row' = row)
    BY <1>2 DEF EnqueueReads
  <2>3. CASE Insert(p) /\ pc' = [pc EXCEPT ![p] = "emitting"]
    BY <2>1, <2>2, <2>3, InsertFiles
  <2>4. CASE Refuse(p)
    <3>1. Ranges'
      BY <2>1, <2>2, <2>4 DEF Ranges, Refuse
    <3> QED BY <1>0, <2>1, <2>2, <2>4, <3>1, CallFiles DEF Refuse
  <2> QED BY <1>2, <2>3, <2>4 DEF EnqueueReads, MakeJob
<1>3. CASE EnqueueSchedules(p)
  <2>1. Ranges' /\ pc' = [pc EXCEPT ![p] = "done"] /\ UNCHANGED <<state, files, load, row, wait, history>>
    BY <1>3 DEF EnqueueSchedules, Ranges, bounds
  <2>2. \A j \in Jobs : at'[j] = at[j] \/ at'[j] \in {"scheduled", "over"}
    BY <1>0, <1>3 DEF EnqueueSchedules
  <2> QED BY <1>0, <2>1, <2>2, CallFiles
<1> QED BY <1>1, <1>2, <1>3 DEF Enqueue

-----------------------------------------------------------------------------
\* The download begins, from a partial that its sidecar vouches for or from nothing.
LEMMA StartsFiles == ASSUME Inv, FInv, NEW j \in Jobs, Starts(j) PROVE FInv'
<1> USE DEF FInv
<1>0. /\ at \in [Jobs -> At] /\ state \in [Jobs -> States] /\ at[j] = "scheduled"
      /\ state[j] = "queued"
  BY DEF Inv, Types, Workers, Starts
<1>1. Stores'
  BY DEF Stores, Starts, DiscardPartial
<1>2. Loads'
  <2>1. load' \in [Jobs -> Responses]
    <3>1. CASE Vouched
      <4>1. sidecar.bytes \in 0 .. MaxChunks /\ sidecar.etag \in 0 .. MaxVersions
        BY <3>1, PullConstants DEF Vouched, Stores, Chunks
      <4>2. load' = [load EXCEPT ![j] = [load[j] EXCEPT !.from = sidecar.bytes,
                                                        !.version = sidecar.etag]]
        BY <3>1 DEF Starts, Loads, Responses
      <4>3. [load[j] EXCEPT !.from = sidecar.bytes, !.version = sidecar.etag] \in Responses
        BY <4>1 DEF Loads, Responses
      <4> QED BY <4>2, <4>3 DEF Loads
    <3>2. CASE ~Vouched
      BY <3>2 DEF Starts, Loads
    <3> QED BY <3>1, <3>2
  <2>2. \A i \in Jobs : i # j => load'[i] = load[i] /\ at'[i] = at[i]
    BY <1>0 DEF Starts, Loads
  <2>3. at'[j] = "asking"
    BY <1>0 DEF Starts
  <2> QED BY <2>1, <2>2, <2>3 DEF Loads
<1>3. Ranges'
  <2>1. faults' \in 0 .. MaxFaults
    BY PersistBounded DEF Starts
  <2> QED BY <2>1 DEF Ranges, Starts
<1>4. Named'
  <2>1. part' \in {part, None} /\ final' = final /\ None # j
    BY PullConstants DEF Starts, DiscardPartial
  <2> QED BY <1>0, <2>1, PullConstants DEF Named, Starts, Inv, Workers, Jobs
<1>5. ASSUME Alone' PROVE Stopped' /\ Staged' /\ Kept'
  <2>1. Alone /\ Stopped /\ Staged /\ Kept
    BY <1>5 DEF Alone, Starts
  <2>2. Stopped'
    BY <1>0, <2>1 DEF Stopped, Starts, Active
  <2>3. Staged'
    <3>1. \A i \in Jobs : at'[i] # "reading"
      <4>1. \A i \in Jobs : at[i] = "reading" => i = j
        BY <1>0, <2>1 DEF Alone, Inv, Mapped, Workers, Busy, Active
      <4> QED BY <1>0, <4>1 DEF Starts
    <3> QED BY <2>1, <3>1 DEF Staged, Starts, DiscardPartial
  <2>4. Kept'
    BY <2>1 DEF Kept, Starts
  <2> QED BY <2>2, <2>3, <2>4
<1> QED BY <1>1, <1>2, <1>3, <1>4, <1>5

LEMMA AnsweredPartialFiles ==
  ASSUME Inv, FInv, NEW j \in Jobs, AnsweredPartial(j) PROVE FInv'
<1> USE DEF FInv, AnsweredPartial, files, bounds
<1>0. at \in [Jobs -> At] /\ at[j] = "asking"
  BY DEF Inv, Types
<1>1. Stores'
  BY DEF Stores
<1>2. Loads'
  <2>1. object \in 0 .. MaxVersions /\ object # 0
    BY PullConstants DEF Ranges
  <2>2. load' \in [Jobs -> Responses] /\ load'[j].version # 0
    BY <2>1 DEF Loads, Responses
  <2>3. \A i \in Jobs : i # j => load'[i] = load[i] /\ at'[i] = at[i]
    BY <1>0 DEF Loads
  <2> QED BY <1>0, <2>2, <2>3 DEF Loads
<1>3. Ranges' /\ Named'
  BY <1>0 DEF Ranges, Named
<1>5. ASSUME Alone' PROVE Stopped' /\ Staged' /\ Kept'
  <2>1. Alone /\ Stopped /\ Staged /\ Kept
    BY <1>5 DEF Alone
  <2>2. Stopped' /\ Kept'
    BY <2>1 DEF Stopped, Kept
  <2>3. Staged'
    BY <1>0, <2>1 DEF Staged, Loads
  <2> QED BY <2>2, <2>3
<1> QED BY <1>1, <1>2, <1>3, <1>5

LEMMA AppendsFiles == ASSUME Inv, FInv, NEW j \in Jobs, Appends(j) PROVE FInv'
<1> USE DEF FInv, Appends, files, bounds
<1>0. at \in [Jobs -> At] /\ at[j] = "hashing" /\ part \in Jobs
  BY DEF Inv, Types, Stores
<1> DEFINE hit == \A k \in 1 .. load[j].from : content[part][k] = load[j].version
<1>a. /\ load' \in [Jobs -> Responses] /\ load'[j].version = load[j].version
      /\ load'[j].file = part /\ load'[j].got = load[j].from /\ load'[j].clean = hit
  <2>1. hit \in BOOLEAN
    OBVIOUS
  <2>2. load' = [load EXCEPT ![j].got = load[j].from, ![j].file = part, ![j].clean = hit]
    OBVIOUS
  <2> HIDE DEF hit
  <2> DEFINE r == [load[j] EXCEPT !.got = load[j].from, !.file = part, !.clean = hit]
  <2>3. load' = [load EXCEPT ![j] = r]
    BY <2>2 DEF Loads, Responses
  <2>4. /\ r \in Responses /\ r.version = load[j].version /\ r.file = part
        /\ r.got = load[j].from /\ r.clean = hit
    BY <1>0, <2>1 DEF Loads, Responses
  <2> HIDE DEF r, Appends
  <2>5. load' \in [Jobs -> Responses] /\ load'[j] = r
    BY <2>3, <2>4 DEF Loads
  <2> QED BY <2>4, <2>5, Zenon
<1>b. \A i \in Jobs : i # j => load'[i] = load[i] /\ at'[i] = at[i]
  BY <1>0 DEF Loads
<1>1. Stores'
  BY DEF Stores
<1>2. Loads'
  BY <1>0, <1>a, <1>b DEF Loads
<1>3. Ranges' /\ Named'
  BY <1>0 DEF Ranges, Named
<1>5. ASSUME Alone' PROVE Stopped' /\ Staged' /\ Kept'
  <2>1. Alone /\ Stopped /\ Staged /\ Kept
    BY <1>5 DEF Alone
  <2>2. Stopped' /\ Kept'
    BY <2>1 DEF Stopped, Kept
  <2>3. Staged'
    BY <1>0, <1>a, <1>b, <2>1 DEF Staged
  <2> QED BY <2>2, <2>3
<1> QED BY <1>1, <1>2, <1>3, <1>5

\* From the start: the staging file is emptied, and it is not the model's.
LEMMA AnsweredWholeFiles ==
  ASSUME Inv, FInv, NEW j \in Jobs, AnsweredWhole(j) PROVE FInv'
<1> USE DEF FInv, AnsweredWhole, bounds
<1>0. /\ at \in [Jobs -> At] /\ at[j] = "asking" /\ state[j] = "running"
      /\ part' \in Jobs /\ part' \in {part, j} /\ (part # None => part' = part)
  BY DEF Inv, Types, Workers, Busy, Stores
<1>a. /\ load' \in [Jobs -> Responses] /\ load'[j].version # 0 /\ load'[j].file = part'
      /\ load'[j].got = 0
  <2>1. object \in 0 .. MaxVersions /\ object # 0
    BY PullConstants DEF Ranges
  <2> DEFINE r == [NoLoad EXCEPT !.version = object, !.file = part']
  <2>2. NoLoad \in Responses /\ NoLoad.got = 0
    BY PullConstants DEF NoLoad, Responses
  <2>3. r \in Responses /\ r.version = object /\ r.file = part' /\ r.got = 0
    BY <1>0, <2>1, <2>2 DEF Responses
  <2>4. load' = [load EXCEPT ![j] = r]
    OBVIOUS
  <2> HIDE DEF r
  <2> QED BY <2>1, <2>3, <2>4 DEF Loads
<1>b. \A i \in Jobs : i # j => load'[i] = load[i] /\ at'[i] = at[i]
  BY <1>0 DEF Loads
<1>c. \A i \in Jobs : i # part' => content'[i] = content[i]
  BY <1>0 DEF Stores
<1>1. Stores'
  <2>1. Empty \in [Chunks -> 0 .. MaxVersions]
    BY PullConstants DEF Empty
  <2> QED BY <1>0, <2>1 DEF Stores
<1>2. Loads'
  BY <1>0, <1>a, <1>b DEF Loads
<1>3. Ranges'
  BY DEF Ranges
<1>4. Named'
  BY <1>0, <1>b DEF Named
<1>5. ASSUME Alone' PROVE Stopped' /\ Staged' /\ Kept'
  <2>1. Alone /\ Stopped /\ Staged /\ Kept
    BY <1>5 DEF Alone
  <2>2. Stopped'
    BY <2>1 DEF Stopped
  <2>3. part' # final
    BY <1>0, <2>1 DEF Staged, Named
  <2>4. Staged'
    <3>1. \A i \in Jobs : at'[i] = "reading" => i = j
      BY <1>0, <1>b, <2>1 DEF Alone, Inv, Mapped, Workers, Busy, Active
    <3>2. \A k \in 1 .. load'[j].got : FALSE
      BY <1>a
    <3>3. \A i \in Jobs : at'[i] = "extras" => final' # None
      BY <1>0, <1>b, <2>1 DEF Staged
    <3> QED BY <1>a, <2>3, <3>1, <3>2, <3>3 DEF Staged
  <2>5. Kept'
    BY <1>c, <2>1, <2>3 DEF Kept, Stores
  <2> QED BY <2>2, <2>4, <2>5
<1> QED BY <1>1, <1>2, <1>3, <1>4, <1>5

\* A chunk more of the version that is being streamed.
LEMMA ChunkFiles == ASSUME Inv, FInv, NEW j \in Jobs, Chunk(j) PROVE FInv'
<1> USE DEF FInv, Chunk, bounds
<1>0. at \in [Jobs -> At] /\ at[j] = "reading" /\ load[j].file \in Jobs
  BY DEF Inv, Types, Loads
<1> DEFINE f == load[j].file
           n == load[j].got + 1
<1>a. n \in Chunks /\ load[j].got \in 0 .. MaxChunks /\ load[j].version \in 0 .. MaxVersions
  BY PullConstants DEF Loads, Responses, Chunks
<1>b. /\ load' \in [Jobs -> Responses] /\ load'[j].version = load[j].version
      /\ load'[j].file = f /\ load'[j].got = n /\ load'[j].clean = load[j].clean
  BY <1>a, PullConstants DEF Loads, Responses, Chunks
<1>c. \A i \in Jobs : i # j => load'[i] = load[i]
  BY DEF Loads
<1>d. /\ content' \in [Jobs -> [Chunks -> 0 .. MaxVersions]]
      /\ \A i \in Jobs : i # f => content'[i] = content[i]
      /\ content'[f][n] = load[j].version
      /\ \A k \in Chunks : k # n => content'[f][k] = content[f][k]
  BY <1>0, <1>a DEF Stores
<1> HIDE DEF f, n
<1>1. Stores'
  BY <1>d DEF Stores
<1>2. Loads'
  BY <1>b, <1>c, <1>0 DEF Loads, f
<1>3. Ranges' /\ Named'
  BY DEF Ranges, Named
<1>5. ASSUME Alone' PROVE Stopped' /\ Staged' /\ Kept'
  <2>1. Alone /\ Stopped /\ Staged /\ Kept
    BY <1>5 DEF Alone
  <2>2. Stopped'
    BY <2>1 DEF Stopped
  <2>3. f = part /\ part # final /\ part # None
    BY <1>0, <2>1, PullConstants DEF Staged, f
  <2>4. Staged'
    <3>1. \A i \in Jobs : at[i] = "reading" => i = j
      BY <1>0, <2>1 DEF Alone, Inv, Mapped, Workers, Busy, Active
    <3>2. ASSUME load[j].clean, NEW k \in 1 .. n PROVE content'[part][k] = load[j].version
      <4>1. k = n \/ (k \in 1 .. load[j].got /\ k \in Chunks /\ k # n)
        BY <1>a, PullConstants DEF n, Chunks
      <4> QED BY <1>0, <1>d, <2>1, <2>3, <3>2, <4>1 DEF Staged
    <3>3. \A i \in Jobs : at'[i] = "extras" => final' # None
      BY <2>1 DEF Staged
    <3> QED BY <1>b, <2>3, <3>1, <3>2, <3>3 DEF Staged
  <2>5. Kept'
    BY <1>d, <2>1, <2>3 DEF Kept, Stores
  <2> QED BY <2>2, <2>4, <2>5
<1> QED BY <1>1, <1>2, <1>3, <1>5

\* The file moved into place is whole: its hash matched or, without one, every prefix
\* was of the version its etag named.
LEMMA InstallsFiles ==
  ASSUME Inv, FInv, KInv, NEW j \in Jobs, Installs(j), part # None PROVE FInv'
<1> USE DEF FInv
<1>0. /\ at \in [Jobs -> At] /\ at[j] = "reading" /\ state[j] = "running"
      /\ part' = None /\ sidecar' = None /\ final' = part /\ at' = [at EXCEPT ![j] = "extras"]
      /\ UNCHANGED <<state, row, content, load, pc, wait, history, cancel, deleting, upstream,
                     restarts, faults>>
  BY DEF Inv, Types, Workers, Busy, Installs, DiscardPartial
<1>c. at'[j] = "extras" /\ \A i \in Jobs : i # j => at'[i] = at[i]
  BY <1>0
<1>1. Stores'
  BY <1>0 DEF Stores
<1>2. Loads' /\ Ranges'
  BY <1>0, <1>c DEF Loads, Ranges
<1>4. Named'
  <2>1. ASSUME NEW i \in Jobs, state'[i] \in {"none", "queued"} \/ at'[i] = "asking"
        PROVE  part' # i /\ final' # i
    <3>1. i # j /\ part # i
      BY <1>0, <1>c, <2>1 DEF Named
    <3> QED BY <1>0, <3>1, PullConstants
  <2> QED BY <1>0, <2>1 DEF Named
<1>5. ASSUME Alone' PROVE Stopped' /\ Staged' /\ Kept'
  <2>1. Alone /\ Stopped /\ Staged /\ Kept
    BY <1>0, <1>5 DEF Alone
  <2>2. Stopped'
    BY <1>0, <2>1 DEF Stopped
  <2>3. Staged'
    <3>1. \A i \in Jobs : at'[i] # "reading"
      BY <1>0, <1>c, <2>1 DEF Alone, Inv, Mapped, Workers, Busy, Active
    <3> QED BY <1>0, <3>1 DEF Staged
  <2>4. Kept'
    <3>1. Whole(content[part])
      <4>1. load[j].got = MaxChunks /\ (lfs => load[j].clean)
        BY DEF Installs
      <4>2. load[j].version \in 1 .. MaxVersions
        BY <1>0 DEF Loads, Responses
      <4>3. CASE lfs
        BY <1>0, <2>1, <4>1, <4>2, <4>3 DEF Staged, Whole, Chunks
      <4>4. CASE ~lfs
        <5>1. Prefix(content[part], MaxChunks, load[j].version)
          BY <1>0, <2>1, <4>1, <4>4 DEF KInv, Known
        <5>2. \A k \in Chunks : k <= MaxChunks
          BY PullConstants DEF Chunks
        <5> QED BY <4>2, <5>1, <5>2 DEF Prefix, Whole
      <4> QED BY <4>3, <4>4
    <3> QED BY <1>0, <2>1, <3>1 DEF Kept
  <2> QED BY <2>2, <2>3, <2>4
<1> QED BY <1>1, <1>2, <1>4, <1>5

\* The row names the file that the install put there.
LEMMA RegistersFiles == ASSUME Inv, FInv, NEW j \in Jobs, Registers(j) PROVE FInv'
<1> USE DEF FInv
<1>0. /\ at \in [Jobs -> At] /\ state \in [Jobs -> States] /\ at[j] = "extras"
      /\ state[j] = "running"
      /\ UNCHANGED <<files, load, pc, wait, history, cancel, deleting, upstream, restarts>>
  BY DEF Inv, Types, Workers, Busy, Registers
<1>a. PICK s \in Terminal : Ends(j, s)
  BY DEF Registers, Terminal
<1>b. row' \in {row, "installed"}
  BY DEF Registers
<1>c. /\ state'[j] \in Terminal /\ at'[j] = "closing"
      /\ \A i \in Jobs : i # j => state'[i] = state[i] /\ at'[i] = at[i]
  BY <1>0, <1>a DEF Ends
<1>1. Stores'
  BY <1>0 DEF Stores, files
<1>2. Loads'
  BY <1>0, <1>c DEF Loads
<1>3. Ranges'
  <2>1. faults' \in 0 .. MaxFaults
    BY <1>a, PersistBounded DEF Ends
  <2>2. row' \in {"none", "seeded", "installed"}
    BY <1>b DEF Ranges
  <2> QED BY <1>0, <2>1, <2>2 DEF Ranges
<1>4. Named'
  <2>1. ASSUME NEW i \in Jobs, state'[i] \in {"none", "queued"} \/ at'[i] = "asking"
        PROVE  part' # i /\ final' # i
    BY <1>0, <1>c, <2>1 DEF Named, Terminal, files
  <2>2. ASSUME NEW p \in Pulls, pc'[p] \in {"new", "reading"} PROVE state'[p] = "none"
    <3>1. state[p] = "none" /\ p \in Jobs
      BY <1>0, <2>2 DEF Named, Jobs
    <3> QED BY <1>0, <1>c, <3>1
  <2> QED BY <2>1, <2>2 DEF Named
<1>5. ASSUME Alone' PROVE Stopped' /\ Staged' /\ Kept'
  <2>1. Alone /\ Stopped /\ Staged /\ Kept
    BY <1>0, <1>5 DEF Alone
  <2>2. Stopped'
    <3>1. \A d \in Deletes : pc[d] \notin {"cascade", "marking", "files", "ending"}
      BY <1>0, <2>1 DEF Stopped, Active
    <3> QED BY <1>0, <1>c, <2>1, <3>1 DEF Stopped, Active, Terminal
  <2>3. Staged'
    BY <1>0, <1>c, <2>1 DEF Staged, files
  <2>4. Kept'
    BY <1>0, <1>b, <2>1 DEF Kept, Staged, files
  <2> QED BY <2>2, <2>3, <2>4
<1> QED BY <1>1, <1>2, <1>3, <1>4, <1>5

\* What a broken or stopped download leaves for the next: its length is vouched for.
LEMMA SidecarTyped ==
  ASSUME Stores, NEW e \in 0 .. MaxVersions, WriteResumeSidecar(e)
  PROVE  /\ part' \in {part, None}
         /\ sidecar' # None => sidecar' \in [bytes : Chunks, etag : 0 .. MaxVersions]
<1>1. Length(content[part]) \in 0 .. MaxChunks
  BY LengthTyped
<1>2. Length(content[part]) > 0 => Length(content[part]) \in Chunks
  BY <1>1, PullConstants DEF Chunks
<1> QED BY <1>2 DEF WriteResumeSidecar, DiscardPartial

\* Every other end of a download: the staging is kept or dropped.
LEMMA EndsFiles ==
  ASSUME Inv, FInv, NEW j \in Jobs, at[j] \in Busy, NEW s \in Terminal,
         state' = [state EXCEPT ![j] = s], at' = [at EXCEPT ![j] = "closing"],
         part' \in {part, None}, faults' \in 0 .. MaxFaults,
         sidecar' # None => sidecar' \in [bytes : Chunks, etag : 0 .. MaxVersions],
         UNCHANGED <<content, final, row, load, pc, wait, history, cancel, deleting, upstream,
                     restarts>>
  PROVE  FInv'
<1> USE DEF FInv
<1>0. at \in [Jobs -> At] /\ state \in [Jobs -> States] /\ state[j] = "running"
  BY DEF Inv, Types, Workers
<1>c. /\ state'[j] \in Terminal /\ at'[j] = "closing"
      /\ \A i \in Jobs : i # j => state'[i] = state[i] /\ at'[i] = at[i]
  BY <1>0
<1>1. Stores'
  BY DEF Stores
<1>2. Loads'
  BY <1>c DEF Loads
<1>3. Ranges'
  BY DEF Ranges
<1>4. Named'
  <2>1. ASSUME NEW i \in Jobs, state'[i] \in {"none", "queued"} \/ at'[i] = "asking"
        PROVE  part' # i /\ final' # i
    BY <1>c, <2>1, PullConstants DEF Named, Terminal
  <2>2. ASSUME NEW p \in Pulls, pc'[p] \in {"new", "reading"} PROVE state'[p] = "none"
    BY <1>0, <1>c, <2>2 DEF Named, Jobs
  <2> QED BY <2>1, <2>2 DEF Named
<1>5. ASSUME Alone' PROVE Stopped' /\ Staged' /\ Kept'
  <2>1. Alone /\ Stopped /\ Staged /\ Kept
    BY <1>5 DEF Alone
  <2>2. Stopped'
    BY <1>0, <1>c, <2>1 DEF Stopped, Active, Terminal
  <2>3. Staged'
    <3>1. \A i \in Jobs : at'[i] # "reading"
      BY <1>0, <1>c, <2>1 DEF Alone, Inv, Mapped, Workers, Busy, Active
    <3> QED BY <2>1, <3>1 DEF Staged
  <2>4. Kept'
    BY <2>1 DEF Kept
  <2> QED BY <2>2, <2>3, <2>4
<1> QED BY <1>1, <1>2, <1>3, <1>4, <1>5

LEMMA RunPullFiles == ASSUME Inv, FInv, KInv, NEW j \in Jobs, RunPull(j) PROVE FInv'
<1> USE DEF FInv
<1>0. {"failed", "cancelled", "completed"} \subseteq Terminal
  BY DEF Terminal
<1>1. CASE \/ Starts(j) \/ AnsweredPartial(j) \/ AnsweredWhole(j) \/ Appends(j) \/ Chunk(j)
           \/ (Installs(j) /\ part # None) \/ Registers(j)
  BY <1>1, StartsFiles, AnsweredPartialFiles, AnsweredWholeFiles, AppendsFiles, ChunkFiles,
     InstallsFiles, RegistersFiles
<1>2. CASE SeesCancel(j)
  <2>1. at[j] \in Busy /\ Ends(j, "cancelled") /\ DiscardPartial
    BY <1>2 DEF SeesCancel, Busy
  <2>2. faults' \in 0 .. MaxFaults
    BY <2>1, PersistBounded DEF Ends
  <2>3. UNCHANGED <<content, final, row, load, pc, wait, history, cancel, deleting, upstream, restarts>>
    BY <1>2 DEF SeesCancel
  <2> QED BY <1>0, <2>1, <2>2, <2>3, EndsFiles DEF Ends, DiscardPartial
<1>3. CASE Rejected(j)
  <2>1. at[j] \in Busy /\ DiscardPartial
    BY <1>3 DEF Rejected, Busy
  <2>2. state' = [state EXCEPT ![j] = "failed"] /\ at' = [at EXCEPT ![j] = "closing"]
    BY <1>3 DEF Rejected, Ends
  <2>3. faults' \in 0 .. MaxFaults
    BY <1>3, PersistBounded, PullConstants DEF Rejected, Ends, Fault, Ranges
  <2>4. UNCHANGED <<content, final, row, load, pc, wait, history, cancel, deleting, upstream, restarts>>
    BY <1>3 DEF Rejected
  <2> QED BY <1>0, <2>1, <2>2, <2>3, <2>4, EndsFiles DEF DiscardPartial
<1>4. CASE Breaks(j)
  <2>1. at[j] \in Busy /\ state' = [state EXCEPT ![j] = "failed"] /\ at' = [at EXCEPT ![j] = "closing"]
    BY <1>4 DEF Breaks, Busy
  <2>2. faults' \in 0 .. MaxFaults
    BY <1>4, PullConstants DEF Breaks, Fault, Ranges
  <2>3. PICK e \in 0 .. MaxVersions : WriteResumeSidecar(e)
    BY <1>4, PullConstants DEF Breaks, Loads, Responses
  <2>4. UNCHANGED <<content, final, row, load, pc, wait, history, cancel, deleting, upstream, restarts>>
    BY <1>4 DEF Breaks
  <2> QED BY <1>0, <2>1, <2>2, <2>3, <2>4, SidecarTyped, EndsFiles
<1>5. CASE Mismatch(j)
  <2>1. at[j] \in Busy /\ Ends(j, "failed")
    BY <1>5 DEF Mismatch, Busy
  <2>2. faults' \in 0 .. MaxFaults
    BY <2>1, PersistBounded DEF Ends
  <2>3. /\ sidecar' = None /\ part' = part
        /\ UNCHANGED <<content, final, row, load, pc, wait, history, cancel, deleting, upstream, restarts>>
    BY <1>5 DEF Mismatch
  <2> QED BY <1>0, <2>1, <2>2, <2>3, EndsFiles DEF Ends
<1>6. CASE Wraps(j)
  <2>0. at \in [Jobs -> At] /\ at[j] = "closing"
    BY <1>6 DEF Inv, Types, Wraps
  <2>1. \A i \in Jobs : at'[i] = at[i] \/ at'[i] = "over"
    BY <1>6, <2>0 DEF Wraps
  <2>2. /\ UNCHANGED <<state, cancel, deleting, row, content, part, sidecar, final, load, pc,
                       wait, history, upstream, restarts>>
        /\ faults' \in 0 .. MaxFaults
    BY <1>6, PersistBounded DEF Wraps, files
  <2>3. Stores' /\ Ranges'
    BY <2>2 DEF Stores, Ranges
  <2>4. Loads' /\ Named'
    BY <2>1, <2>2 DEF Loads, Named
  <2>5. Alone' => Stopped' /\ Staged' /\ Kept'
    BY <2>1, <2>2 DEF Alone, Stopped, Staged, Kept
  <2> QED BY <2>3, <2>4, <2>5
<1>7. CASE Installs(j) /\ part = None
  <2>1. at[j] \in Busy /\ Ends(j, "failed") /\ DiscardPartial
    BY <1>7 DEF Installs, Busy
  <2>2. faults' \in 0 .. MaxFaults
    BY <2>1, PersistBounded DEF Ends
  <2>3. UNCHANGED <<content, final, row, load, pc, wait, history, cancel, deleting, upstream, restarts>>
    BY <1>7 DEF Installs
  <2> QED BY <1>0, <2>1, <2>2, <2>3, EndsFiles DEF Ends, DiscardPartial
<1>8. CASE Extras(j) /\ at' # at
  <2>1. at[j] \in Busy /\ state' = [state EXCEPT ![j] = "failed"] /\ at' = [at EXCEPT ![j] = "closing"]
    BY <1>8 DEF Extras, Busy
  <2>2. faults' \in 0 .. MaxFaults
    BY <1>8, PullConstants DEF Extras, Fault, Ranges
  <2>3. UNCHANGED <<content, final, part, sidecar, row, load, pc, wait, history, cancel, deleting,
                    upstream, restarts>>
    BY <1>8 DEF Extras, files
  <2> QED BY <1>0, <2>1, <2>2, <2>3, EndsFiles DEF Stores
<1>9. CASE Extras(j) /\ at' = at
  <2>1. at[j] = "extras" /\ state' = state /\ faults' = faults
    <3>1. at[j] = "extras" /\ at' # [at EXCEPT ![j] = "closing"]
      BY <1>9 DEF Extras, Inv, Types
    <3> QED BY <1>9, <3>1 DEF Extras
  <2>2. UNCHANGED <<state, cancel, deleting, row, content, part, sidecar, final, load, at, pc,
                    wait, history, upstream, restarts, faults>>
    BY <1>9, <2>1 DEF Extras, files
  <2> QED BY <2>2 DEF Stores, Ranges, Loads, Named, Alone, Stopped, Staged, Kept
<1> QED BY <1>1, <1>2, <1>3, <1>4, <1>5, <1>6, <1>7, <1>8, <1>9 DEF RunPull

-----------------------------------------------------------------------------
\* A delete goes on. Its guards, and the job it waited for, keep the files from it.
LEMMA DeleteFilesKept == ASSUME Inv, FInv, NEW d \in Deletes, Delete(d) PROVE FInv'
<1> USE DEF FInv
<1>0. d \in Calls /\ pc \in [Calls -> Pcs] /\ \A e \in Deletes : e \in Calls
  BY DEF Calls, Inv, Types
<1>1. CASE DeleteEnds(d) \/ (DeleteWaited(d) /\ pc' = [pc EXCEPT ![d] = "refused"])
  <2>1. /\ UNCHANGED <<state, files, load, row, wait, history, at>> /\ Ranges'
        /\ pc' = [pc EXCEPT ![d] = "refused"] \/ pc' = [pc EXCEPT ![d] = "done"]
    BY <1>1 DEF DeleteEnds, DeleteWaited, Ranges, bounds
  <2> QED BY <1>0, <2>1, CallFiles
<1>2. CASE DeleteBegins(d) \/ (DeleteWaited(d) /\ pc' = [pc EXCEPT ![d] = "cascade"])
           \/ DeleteRow(d) \/ DeleteMarks(d) \/ DeleteFiles(d)
  <2>1. /\ UNCHANGED <<state, content, part, sidecar, load, history, at, upstream, restarts, faults>>
        /\ row' \in {row, "none"} /\ final' \in {final, None}
    BY <1>2 DEF DeleteBegins, DeleteWaited, DeleteRow, DeleteMarks, DeleteFiles, files, bounds
  <2>2. PICK q \in {"waiting", "cascade", "marking", "files", "ending"} :
            pc' = [pc EXCEPT ![d] = q]
    BY <1>2 DEF DeleteBegins, DeleteWaited, DeleteRow, DeleteMarks, DeleteFiles
  <2>3. Stores' /\ Loads'
    BY <2>1 DEF Stores, Loads
  <2>4. Ranges'
    <3>1. CASE DeleteBegins(d)
      BY <2>1, <3>1 DEF DeleteBegins, Ranges, Inv, Types
    <3>2. CASE ~DeleteBegins(d)
      BY <1>2, <2>1, <3>2 DEF DeleteWaited, DeleteRow, DeleteMarks, DeleteFiles, Ranges
    <3> QED BY <3>1, <3>2
  <2>5. Named'
    BY <1>0, <2>1, <2>2, PullConstants DEF Named, Calls
  <2>6. ASSUME Alone' PROVE Stopped' /\ Staged' /\ Kept'
    <3>1. Alone /\ Stopped /\ Staged /\ Kept
      BY <2>1, <2>6 DEF Alone
    <3>2. Stopped'
      <4>1. CASE DeleteBegins(d)
        <5>1. \A j \in Jobs : state[j] \in Active => jobs = j
          BY <3>1 DEF Alone, Inv, Mapped
        <5> QED BY <1>0, <3>1, <4>1, <5>1, PullConstants DEF DeleteBegins, Stopped, Ranges
      <4>2. CASE DeleteWaited(d)
        BY <1>0, <2>2, <3>1, <4>2 DEF DeleteWaited, Stopped
      <4>3. CASE DeleteRow(d) \/ DeleteMarks(d) \/ DeleteFiles(d)
        BY <1>0, <3>1, <4>3 DEF DeleteRow, DeleteMarks, DeleteFiles, Stopped
      <4> QED BY <1>2, <4>1, <4>2, <4>3
    <3>3. Staged'
      <4>1. \A j \in Jobs : at[j] = "extras" => final' # None
        <5>1. CASE DeleteFiles(d)
          BY <3>1, <5>1 DEF DeleteFiles, Stopped, Inv, Workers, Busy, Active
        <5>2. CASE ~DeleteFiles(d)
          BY <1>2, <3>1, <5>2 DEF DeleteBegins, DeleteWaited, DeleteRow, DeleteMarks, files, Staged
        <5> QED BY <5>1, <5>2
      <4> QED BY <2>1, <3>1, <4>1 DEF Staged
    <3>4. Kept'
      <4>1. CASE DeleteFiles(d)
        BY <2>1, <3>1, <4>1 DEF DeleteFiles, Kept, Stopped
      <4>2. CASE ~DeleteFiles(d)
        <5>1. final' = final
          BY <1>2, <4>2 DEF DeleteBegins, DeleteWaited, DeleteRow, DeleteMarks, files
        <5> QED BY <2>1, <3>1, <5>1 DEF Kept
      <4> QED BY <4>1, <4>2
    <3> QED BY <3>2, <3>3, <3>4
  <2> QED BY <2>3, <2>4, <2>5, <2>6
<1> QED BY <1>1, <1>2 DEF Delete, DeleteWaited

\* A restart leaves the files and the row; nothing is streaming, and no delete goes on.
LEMMA BootFiles ==
  ASSUME Inv, FInv, Forgets, NEW old, Boots(old), part' \in {part, None},
         sidecar' # None => sidecar' \in [bytes : Chunks, etag : 0 .. MaxVersions]
  PROVE  FInv'
<1> USE DEF FInv
<1>0. /\ UNCHANGED <<row, content, final, upstream, faults, history>>
      /\ load' = [j \in Jobs |-> NoLoad] /\ wait' = [d \in Deletes |-> None]
      /\ cancel' = {} /\ deleting' = FALSE /\ restarts' = restarts + 1 /\ restarts < MaxRestarts
  BY DEF Forgets
<1>a. /\ \A c \in Calls : ~(pc'[c] \in {"waiting", "cascade", "marking", "files", "ending", "reading"})
      /\ \A c \in Calls : pc'[c] = "new" => pc[c] = "new"
  BY DEF Forgets
<1>b. \A j \in Jobs : /\ at'[j] \in {"idle", "scheduled"}
                      /\ state'[j] \in {"none", "queued"} => state[j] = "none"
                      /\ state[j] = "none" => state'[j] = "none" \/ j \in Resumes
  <2>1. CASE Resumable(old) /\ \E r \in Resumes : state[r] = "none"
    BY <2>1 DEF Boots
  <2>2. CASE ~(Resumable(old) /\ \E r \in Resumes : state[r] = "none")
    BY <2>2 DEF Boots
  <2> QED BY <2>1, <2>2
<1>1. Stores'
  BY <1>0 DEF Stores
<1>2. Loads'
  <2>1. NoLoad \in Responses
    BY PullConstants DEF NoLoad, Responses
  <2> QED BY <1>0, <1>b, <2>1 DEF Loads
<1>3. Ranges'
  <2>1. restarts' \in 0 .. MaxRestarts
    BY <1>0, PullConstants DEF Ranges
  <2>2. wait' \in [Deletes -> Jobs \cup {None}]
    BY <1>0
  <2> QED BY <1>0, <2>1, <2>2 DEF Ranges
<1>4. Named'
  <2>1. ASSUME NEW i \in Jobs, state'[i] \in {"none", "queued"} \/ at'[i] = "asking"
        PROVE  part' # i /\ final' # i
    BY <1>0, <1>b, <2>1, PullConstants DEF Named
  <2>2. ASSUME NEW p \in Pulls, pc'[p] \in {"new", "reading"} PROVE state'[p] = "none"
    <3>1. p \in Calls /\ p \in Jobs /\ p \notin Resumes
      BY PullConstants DEF Jobs, Calls
    <3> QED BY <1>a, <1>b, <2>2, <3>1 DEF Named
  <2> QED BY <2>1, <2>2 DEF Named
<1>5. ASSUME Alone' PROVE Stopped' /\ Staged' /\ Kept'
  <2>1. Staged /\ Kept
    BY <1>0, <1>5 DEF Alone
  <2>2. Stopped'
    BY <1>a DEF Stopped, Calls
  <2>3. Staged' /\ Kept'
    BY <1>0, <1>b, <2>1 DEF Staged, Kept
  <2> QED BY <2>2, <2>3
<1> QED BY <1>1, <1>2, <1>3, <1>4, <1>5

LEMMA NextFiles == ASSUME Inv, FInv, KInv, [Next]_vars PROVE FInv'
<1>1. CASE (\E p \in Pulls : Enqueue(p)) \/ (\E j \in Jobs : RunPull(j)) \/ (\E d \in Deletes : Delete(d))
  BY <1>1, EnqueueFiles, RunPullFiles, DeleteFilesKept
<1>2. CASE (\E k \in Cancels : Cancel(k)) \/ (\E c \in Clears : Clear(c))
  <2>1. PICK c \in Cancels \cup Clears :
            /\ pc' = [pc EXCEPT ![c] = "done"]
            /\ UNCHANGED <<state, deleting, row, files, load, at, wait, history, bounds>>
            /\ cancel' \in {cancel, cancel \cup {jobs}} /\ (cancel' # cancel => jobs # None)
    BY <1>2 DEF Cancel, Clear
  <2>2. Ranges' /\ c \in Calls /\ pc \in [Calls -> Pcs]
    BY <2>1 DEF FInv, Ranges, Inv, Types, bounds, Calls
  <2> QED BY <2>1, <2>2, CallFiles
<1>3. CASE Crash
  BY <1>3, BootFiles DEF Crash, FInv, Stores
<1>4. CASE Shutdown
  <2>1. CASE \E old : Boots(old) /\ UNCHANGED <<part, sidecar>>
    BY <1>4, <2>1, BootFiles DEF Shutdown, FInv, Stores
  <2>2. CASE \E j \in Jobs :
              /\ WriteResumeSidecar(IF at[j] = "asking" THEN 0 ELSE load[j].version)
              /\ Boots([state |-> "cancelled", live |-> FALSE])
    <3>1. PICK e \in 0 .. MaxVersions : WriteResumeSidecar(e)
      BY <2>2, PullConstants DEF FInv, Loads, Responses
    <3>2. Forgets
      BY <1>4 DEF Shutdown
    <3> QED BY <2>2, <3>1, <3>2, SidecarTyped, BootFiles DEF FInv
  <2> QED BY <1>4, <2>1, <2>2 DEF Shutdown
<1>5. CASE ObjectChanges \/ UNCHANGED vars
  <2>1. /\ UNCHANGED <<state, cancel, deleting, row, content, part, sidecar, final, load, at, pc,
                       wait, history, lfs, restarts, faults>>
        /\ object' \in 1 .. MaxVersions
    BY <1>5, PullConstants DEF ObjectChanges, vars, files, bounds, FInv, Ranges
  <2> USE <2>1 DEF FInv
  <2>2. Stores' /\ Loads' /\ Ranges' /\ Named'
    BY DEF Stores, Loads, Ranges, Named
  <2>3. Alone' => Stopped' /\ Staged' /\ Kept'
    BY DEF Alone, Stopped, Staged, Kept
  <2> QED BY <2>2, <2>3
<1> QED BY <1>1, <1>2, <1>3, <1>4, <1>5 DEF Next

-----------------------------------------------------------------------------
(***************************************************************************)
(* What is known of a file without a checksum.                             *)
(***************************************************************************)

\* A prefix is as long as it says.
LEMMA LengthPrefix ==
  ASSUME NEW c, NEW n \in 0 .. MaxChunks, NEW v \in 1 .. MaxVersions, Prefix(c, n, v)
  PROVE  Length(c) = n
<1> DEFINE S == {0} \cup {k \in Chunks : c[k] # 0}
<1>1. n \in S /\ \A y \in S : y <= n
  BY PullConstants DEF Prefix, Chunks
<1>2. S \subseteq Nat
  BY PullConstants DEF Chunks
<1> HIDE DEF S
<1>3. Max(S) \in S /\ \A y \in S : Max(S) >= y
  <2>1. \E x \in S : \A y \in S : x >= y
    BY <1>1, <1>2
  <2> QED BY <2>1 DEF Max
<1>4. Max(S) = n
  <2> DEFINE m == Max(S)
  <2>1. m \in Nat /\ n \in Nat /\ m <= n /\ m >= n
    BY <1>1, <1>2, <1>3
  <2> HIDE DEF m
  <2>2. m = n
    BY <2>1
  <2> QED BY <2>2 DEF m
<1> QED BY <1>4 DEF Length, S

\* While no two jobs overlap, at most one has a download under way.
LEMMA OneWorker ==
  ASSUME Inv, Alone, NEW i \in Jobs, NEW j \in Jobs,
         at[i] \in Busy \cup {"scheduled"}, at[j] \in Busy \cup {"scheduled"}
  PROVE  i = j
  BY DEF Inv, Workers, Mapped, Alone, Active, Busy

LEMMA InitKnown == Init => KInv
  BY PullConstants DEF Init, KInv, Known, Vouched, NoLoad

\* A step that leaves the files, the upstream and the downloads under way alone.
LEMMA KnownSame ==
  ASSUME KInv, UNCHANGED <<content, part, sidecar, upstream>>, Alone' => Alone,
         \A j \in Jobs : at'[j] \in {"asking", "hashing", "reading"} =>
             at'[j] = at[j] /\ load'[j] = load[j],
         \A j \in Jobs : at'[j] \in {"idle", "scheduled"} => load'[j].from = 0
  PROVE  KInv'
<1> SUFFICES ASSUME Alone', ~lfs' PROVE Known'
  BY DEF KInv
<1>1. Known
  BY DEF KInv
<1>2. Vouched' = Vouched
  BY DEF Vouched
<1> HIDE DEF Vouched, Prefix
<1>3. (sidecar # None => sidecar.etag <= object)'
  BY <1>1 DEF Known
<1>4. (Vouched /\ sidecar.etag = object => Prefix(content[part], sidecar.bytes, object))'
  BY <1>1, <1>2 DEF Known, Prefix
<1>5. ASSUME NEW j \in Jobs, at'[j] = "asking", load'[j].from > 0
      PROVE  Vouched' /\ sidecar'.bytes = load'[j].from /\ sidecar'.etag = load'[j].version
  BY <1>1, <1>2, <1>5 DEF Known
<1>6. ASSUME NEW j \in Jobs, at'[j] \in {"hashing", "reading"}
      PROVE  load'[j].version <= object' /\ (sidecar' # None => sidecar'.etag <= load'[j].version)
  BY <1>1, <1>6 DEF Known
<1>7. ASSUME NEW j \in Jobs, at'[j] = "hashing"
      PROVE  Prefix(content[part], load[j].from, load[j].version)'
  BY <1>1, <1>7 DEF Known, Prefix
<1>8. ASSUME NEW j \in Jobs, at'[j] = "reading"
      PROVE  Prefix(content[part], load[j].got, load[j].version)'
  BY <1>1, <1>8 DEF Known, Prefix
<1> QED BY <1>3, <1>4, <1>5, <1>6, <1>7, <1>8 DEF Known

\* A step after which nothing is asked, hashed or streamed.
LEMMA KnownQuiet ==
  ASSUME Alone' /\ ~lfs' =>
             /\ \A j \in Jobs : at'[j] \notin {"asking", "hashing", "reading"}
             /\ \A j \in Jobs : at'[j] \in {"idle", "scheduled"} => load'[j].from = 0
             /\ sidecar' # None => sidecar'.etag <= object'
             /\ Vouched' /\ sidecar'.etag = object' => Prefix(content[part], sidecar.bytes, object)'
  PROVE  KInv'
  BY DEF KInv, Known

\* The worker of one job moves outside its download, and the response of none changes.
LEMMA KnownStays ==
  ASSUME KInv, UNCHANGED <<content, part, sidecar, upstream, load>>, Alone' => Alone,
         at \in [Jobs -> At],
         at' = at \/ \E j \in Jobs :
             \/ at[j] = "idle" /\ at' = [at EXCEPT ![j] = "scheduled"]
             \/ at' = [at EXCEPT ![j] = "closing"] \/ at' = [at EXCEPT ![j] = "over"]
  PROVE  KInv'
<1> SUFFICES ASSUME Alone', ~lfs' PROVE Known'
  BY DEF KInv
<1>1. \A j \in Jobs : at'[j] \in {"asking", "hashing", "reading"} =>
          at'[j] = at[j] /\ load'[j] = load[j]
  OBVIOUS
<1>2. \A j \in Jobs : at'[j] \in {"idle", "scheduled"} => load'[j].from = 0
  <2>1. \A j \in Jobs : at[j] \in {"idle", "scheduled"} => load[j].from = 0
    BY DEF KInv, Known
  <2> QED BY <2>1
<1> QED BY <1>1, <1>2, KnownSame DEF KInv

\* _write_resume_sidecar, by the job under way: it records what the partial holds, with
\* no etag or with that of the response.
LEMMA SidecarKnown ==
  ASSUME Inv, FInv, Known, Alone, NEW j \in Jobs, at[j] \in {"asking", "hashing", "reading"},
         WriteResumeSidecar(IF at[j] = "asking" THEN 0 ELSE load[j].version),
         UNCHANGED <<content, object>>
  PROVE  /\ sidecar' # None => sidecar'.etag <= object'
         /\ Vouched' /\ sidecar'.etag = object' => Prefix(content[part], sidecar.bytes, object)'
<1>0. object \in 1 .. MaxVersions
  BY DEF FInv, Ranges
<1>1. CASE sidecar' = None
  BY <1>1 DEF Vouched
<1>2. CASE sidecar' # None
  <2>1. /\ part' = part /\ part # None
        /\ sidecar' = [bytes |-> Length(content[part]),
                       etag |-> IF at[j] = "asking" THEN 0 ELSE load[j].version]
    BY <1>2 DEF WriteResumeSidecar, DiscardPartial
  <2>2. CASE at[j] = "asking"
    BY <1>0, <2>1, <2>2, PullConstants
  <2>3. CASE at[j] \in {"hashing", "reading"}
    <3> DEFINE n == IF at[j] = "hashing" THEN load[j].from ELSE load[j].got
    <3>1. Prefix(content[part], n, load[j].version) /\ load[j].version <= object
      BY <2>3 DEF Known
    <3>2. n \in 0 .. MaxChunks /\ load[j].version \in 1 .. MaxVersions
      BY <2>3 DEF FInv, Loads, Responses
    <3> HIDE DEF n
    <3>3. Length(content[part]) = n
      BY <3>1, <3>2, LengthPrefix
    <3>4. sidecar'.bytes = n /\ sidecar'.etag = load[j].version
      BY <2>1, <2>3, <3>3
    <3>5. load[j].version = object => Prefix(content'[part'], n, object')
      BY <2>1, <3>1
    <3> QED BY <3>1, <3>4, <3>5
  <2> QED BY <2>2, <2>3
<1> QED BY <1>1, <1>2

\* The download begins: what it asks to continue is what the sidecar vouches for.
LEMMA StartsKnown == ASSUME Inv, FInv, KInv, NEW j \in Jobs, Starts(j) PROVE KInv'
<1> SUFFICES ASSUME Alone', ~lfs' PROVE Known'
  BY DEF KInv
<1>1. Known /\ Alone
  BY DEF KInv, Alone, Starts
<1>2. /\ at \in [Jobs -> At] /\ load \in [Jobs -> Responses] /\ at[j] = "scheduled"
      /\ at' = [at EXCEPT ![j] = "asking"] /\ UNCHANGED <<content, object>> /\ load[j].from = 0
  BY <1>1 DEF Inv, Types, FInv, Loads, Starts, Known
<1>3. /\ \A i \in Jobs : i # j => load'[i] = load[i] /\ at'[i] = at[i]
      /\ at'[j] = "asking"
  BY <1>2 DEF Starts
<1>4. \A i \in Jobs : at'[i] \notin {"hashing", "reading"} /\ (i # j => at'[i] # "asking")
  BY <1>1, <1>2, <1>3, OneWorker DEF Busy
<1>5. CASE Vouched
  <2>1. UNCHANGED <<part, sidecar>> /\ Vouched'
    BY <1>2, <1>5 DEF Starts, Vouched
  <2>2. load'[j].from = sidecar.bytes /\ load'[j].version = sidecar.etag
    <3>1. sidecar.bytes \in 0 .. MaxChunks /\ sidecar.etag \in 0 .. MaxVersions
      BY <1>5, PullConstants DEF Vouched, FInv, Stores, Chunks
    <3> QED BY <1>2, <1>5, <3>1 DEF Starts, Responses
  <2>3. (Vouched /\ sidecar.etag = object => Prefix(content[part], sidecar.bytes, object))'
    BY <1>1, <1>2, <1>5, <2>1 DEF Known, Prefix
  <2> QED BY <1>1, <1>2, <1>3, <1>4, <2>1, <2>2, <2>3 DEF Known
<1>6. CASE ~Vouched
  <2>1. sidecar' = None /\ load' = load /\ ~Vouched'
    BY <1>6 DEF Starts, DiscardPartial, Vouched
  <2> QED BY <1>1, <1>2, <1>3, <1>4, <2>1 DEF Known
<1> QED BY <1>5, <1>6

\* A partial answer comes only for the etag asked for (one without an etag is guessed).
LEMMA AnsweredPartialKnown ==
  ASSUME Inv, FInv, KInv, NEW j \in Jobs, AnsweredPartial(j) PROVE KInv'
<1> SUFFICES ASSUME Alone', ~lfs' PROVE Known'
  BY DEF KInv
<1>1. Known /\ Alone /\ load[j].version = object
  <2>1. lfs' = lfs /\ ~guessed' /\ overlap' = overlap /\ raced' = raced
    BY DEF Alone, AnsweredPartial, bounds
  <2>2. guessed' = (guessed \/ (load[j].version = 0 /\ ~lfs)) /\ load[j].version \in {0, object}
    BY DEF AnsweredPartial
  <2> QED BY <2>1, <2>2 DEF KInv, Alone
<1>2. /\ at \in [Jobs -> At] /\ load \in [Jobs -> Responses] /\ at[j] = "asking"
      /\ at' = [at EXCEPT ![j] = "hashing"] /\ UNCHANGED <<content, part, sidecar, object>>
      /\ load' = [load EXCEPT ![j].version = object] /\ load[j].from > 0
      /\ object \in 1 .. MaxVersions
  BY DEF Inv, Types, FInv, Loads, Ranges, AnsweredPartial, files, bounds
<1>3. /\ \A i \in Jobs : i # j => load'[i] = load[i] /\ at'[i] = at[i]
      /\ at'[j] = "hashing" /\ load'[j].version = object /\ load'[j].from = load[j].from
  BY <1>2 DEF Responses
<1>4. \A i \in Jobs : i # j => at'[i] \notin {"asking", "hashing", "reading"}
  BY <1>1, <1>2, <1>3, OneWorker DEF Busy
<1>5. /\ Vouched /\ sidecar.bytes = load[j].from /\ sidecar.etag = object
      /\ Prefix(content[part], load[j].from, object)
  BY <1>1, <1>2 DEF Known
<1>6. Prefix(content[part], load[j].from, load[j].version)'
  BY <1>2, <1>3, <1>5 DEF Prefix
<1>7. (Vouched /\ sidecar.etag = object => Prefix(content[part], sidecar.bytes, object))'
  BY <1>2, <1>5 DEF Prefix
<1>8. (sidecar # None => sidecar.etag <= object)'
  BY <1>1, <1>2 DEF Known
<1>9. \A i \in Jobs : at'[i] \in {"idle", "scheduled"} => load'[i].from = 0
  BY <1>1, <1>3 DEF Known
<1>10. sidecar'.etag <= load'[j].version /\ load'[j].version <= object'
  BY <1>2, <1>3, <1>5
<1> QED BY <1>3, <1>4, <1>6, <1>7, <1>8, <1>9, <1>10 DEF Known

LEMMA AppendsKnown == ASSUME Inv, FInv, KInv, NEW j \in Jobs, Appends(j) PROVE KInv'
<1> SUFFICES ASSUME Alone', ~lfs' PROVE Known'
  BY DEF KInv
<1>1. Known /\ Alone
  BY DEF KInv, Alone, Appends, bounds
<1>2. /\ at \in [Jobs -> At] /\ load \in [Jobs -> Responses] /\ at[j] = "hashing"
      /\ at' = [at EXCEPT ![j] = "reading"] /\ UNCHANGED <<content, part, sidecar, object>>
  BY DEF Inv, Types, FInv, Loads, Appends, files, bounds
<1>3. /\ \A i \in Jobs : i # j => load'[i] = load[i] /\ at'[i] = at[i]
      /\ at'[j] = "reading" /\ load'[j].version = load[j].version /\ load'[j].got = load[j].from
  <2> DEFINE hit == \A k \in 1 .. load[j].from : content[part][k] = load[j].version
  <2>1. load' = [load EXCEPT ![j].got = load[j].from, ![j].file = part, ![j].clean = hit]
    BY DEF Appends
  <2> HIDE DEF hit
  <2> QED BY <1>2, <2>1 DEF Responses
<1>4. \A i \in Jobs : i # j => at'[i] \notin {"asking", "hashing", "reading"}
  BY <1>1, <1>2, <1>3, OneWorker DEF Busy
<1>6. Prefix(content[part], load[j].got, load[j].version)'
  BY <1>1, <1>2, <1>3 DEF Known, Prefix
<1>7. /\ (sidecar # None => sidecar.etag <= object)'
      /\ (Vouched /\ sidecar.etag = object => Prefix(content[part], sidecar.bytes, object))'
  BY <1>1, <1>2 DEF Known, Prefix, Vouched
<1>8. \A i \in Jobs : at'[i] \in {"idle", "scheduled"} => load'[i].from = 0
  BY <1>1, <1>3 DEF Known
<1>9. load'[j].version <= object' /\ (sidecar' # None => sidecar'.etag <= load'[j].version)
  BY <1>1, <1>2, <1>3 DEF Known
<1> QED BY <1>3, <1>4, <1>6, <1>7, <1>8, <1>9 DEF Known

LEMMA AnsweredWholeKnown ==
  ASSUME Inv, FInv, KInv, NEW j \in Jobs, AnsweredWhole(j) PROVE KInv'
<1> SUFFICES ASSUME Alone', ~lfs' PROVE Known'
  BY DEF KInv
<1>1. Known /\ Alone
  BY DEF KInv, Alone, AnsweredWhole, bounds
<1>2. /\ at \in [Jobs -> At] /\ load \in [Jobs -> Responses] /\ at[j] = "asking"
      /\ at' = [at EXCEPT ![j] = "reading"] /\ UNCHANGED <<sidecar, object>>
      /\ object \in 1 .. MaxVersions /\ part' \in Jobs
  BY DEF Inv, Types, FInv, Loads, Ranges, Stores, AnsweredWhole, bounds
<1>3. content'[part'] = Empty
  BY <1>2 DEF AnsweredWhole, FInv, Stores
<1>4. /\ \A i \in Jobs : i # j => load'[i] = load[i] /\ at'[i] = at[i]
      /\ at'[j] = "reading" /\ load'[j].version = object /\ load'[j].got = 0
  BY <1>2 DEF AnsweredWhole, NoLoad
<1>5. \A i \in Jobs : i # j => at'[i] \notin {"asking", "hashing", "reading"}
  BY <1>1, <1>2, <1>4, OneWorker DEF Busy
<1>6. Prefix(Empty, 0, object)
  BY PullConstants DEF Prefix, Empty, Chunks
<1>7. Prefix(content[part], load[j].got, load[j].version)'
  BY <1>3, <1>4, <1>6
<1>8. ~Vouched'
  <2>1. Length(Empty) = 0
    BY <1>2, <1>6, LengthPrefix, PullConstants
  <2>2. sidecar # None => sidecar.bytes # 0
    BY PullConstants DEF FInv, Stores, Chunks
  <2> QED BY <1>2, <1>3, <2>1, <2>2 DEF Vouched
<1>9. /\ (sidecar # None => sidecar.etag <= object)'
      /\ load'[j].version <= object' /\ (sidecar' # None => sidecar'.etag <= load'[j].version)
      /\ \A i \in Jobs : at'[i] \in {"idle", "scheduled"} => load'[i].from = 0
  BY <1>1, <1>2, <1>4 DEF Known
<1> QED BY <1>4, <1>5, <1>7, <1>8, <1>9 DEF Known

LEMMA ChunkKnown == ASSUME Inv, FInv, KInv, NEW j \in Jobs, Chunk(j) PROVE KInv'
<1> SUFFICES ASSUME Alone', ~lfs' PROVE Known'
  BY DEF KInv
<1>1. Known /\ Alone /\ Staged
  BY DEF KInv, Alone, Chunk, bounds, FInv
<1>2. /\ load \in [Jobs -> Responses] /\ at[j] = "reading" /\ load[j].file = part
      /\ UNCHANGED <<at, part, sidecar, object>> /\ object \in 1 .. MaxVersions /\ part \in Jobs
      /\ load[j].got \in 0 .. MaxChunks /\ load[j].version \in 1 .. MaxVersions
      /\ load[j].got + 1 \in Chunks
  BY <1>1, PullConstants DEF FInv, Loads, Ranges, Chunk, bounds, Staged, Responses, Chunks
<1> DEFINE n == load[j].got + 1
           v == load[j].version
<1>3. /\ \A i \in Jobs : i # j => load'[i] = load[i]
      /\ load'[j].version = v /\ load'[j].got = n /\ load'[j].from = load[j].from
  BY <1>2 DEF Chunk, Responses
<1>4. \A i \in Jobs : i # j => at[i] \notin {"asking", "hashing", "reading"}
  BY <1>1, <1>2, OneWorker DEF Busy
<1>5. /\ content'[part][n] = v
      /\ \A k \in Chunks : k # n => content'[part][k] = content[part][k]
  BY <1>2 DEF Chunk, FInv, Stores
<1>6. Prefix(content'[part], n, v)
  <2>1. \A k \in Chunks : content[part][k] = IF k <= load[j].got THEN v ELSE 0
    BY <1>1, <1>2 DEF Known, Prefix
  <2>2. \A k \in Chunks : k # n => (k <= n <=> k <= load[j].got)
    BY <1>2 DEF Chunks
  <2> QED BY <1>2, <1>5, <2>1, <2>2 DEF Prefix
<1>7. /\ v <= object /\ (sidecar # None => sidecar.etag <= v /\ sidecar.etag <= object)
      /\ \A i \in Jobs : at[i] \in {"idle", "scheduled"} => load'[i].from = 0
  BY <1>1, <1>2, <1>3 DEF Known
<1>8. ASSUME Vouched', sidecar.etag = object PROVE Prefix(content'[part], sidecar.bytes, object)
  <2>1. Length(content'[part]) = n
    BY <1>2, <1>6, LengthPrefix, PullConstants DEF Chunks
  <2>2. sidecar.bytes = n /\ sidecar # None
    BY <1>2, <1>8, <2>1 DEF Vouched
  <2>3. v = object
    BY <1>2, <1>7, <1>8, <2>2
  <2> QED BY <1>6, <2>2, <2>3
<1> HIDE DEF n, v
<1> QED BY <1>2, <1>3, <1>4, <1>6, <1>7, <1>8 DEF Known

\* A download ends, or its file is in place.
LEMMA EndsKnown ==
  ASSUME Inv, KInv, NEW j \in Jobs, at[j] \in {"asking", "hashing", "reading"},
         NEW q \in {"closing", "extras"}, at' = [at EXCEPT ![j] = q],
         UNCHANGED <<load, history, upstream>>,
         Known /\ Alone =>
             /\ sidecar' # None => sidecar'.etag <= object'
             /\ Vouched' /\ sidecar'.etag = object' => Prefix(content[part], sidecar.bytes, object)'
  PROVE  KInv'
<1> SUFFICES ASSUME Alone', ~lfs' PROVE Known'
  BY DEF KInv
<1>1. Known /\ Alone
  BY DEF KInv, Alone
<1>2. at \in [Jobs -> At]
  BY DEF Inv, Types
<1>3. \A i \in Jobs : at'[i] \notin {"asking", "hashing", "reading"}
  BY <1>1, <1>2, OneWorker DEF Busy
<1>4. \A i \in Jobs : at'[i] \in {"idle", "scheduled"} => load'[i].from = 0
  BY <1>1, <1>2 DEF Known
<1>5. KInv'
  BY <1>1, <1>3, <1>4, KnownQuiet
<1> QED BY <1>5 DEF KInv

LEMMA RunPullKnown == ASSUME Inv, FInv, KInv, NEW j \in Jobs, RunPull(j) PROVE KInv'
<1>0. at \in [Jobs -> At]
  BY DEF Inv, Types
<1>1. CASE Starts(j) \/ AnsweredPartial(j) \/ AnsweredWhole(j) \/ Appends(j) \/ Chunk(j)
  BY <1>1, StartsKnown, AnsweredPartialKnown, AnsweredWholeKnown, AppendsKnown, ChunkKnown
<1>2. CASE SeesCancel(j) \/ Rejected(j) \/ Mismatch(j) \/ Installs(j)
  <2>1. /\ at[j] \in {"asking", "hashing", "reading"} /\ sidecar' = None
        /\ UNCHANGED <<load, history, upstream>>
    BY <1>2 DEF SeesCancel, Rejected, Mismatch, Installs, DiscardPartial
  <2>2. PICK q \in {"closing", "extras"} : at' = [at EXCEPT ![j] = q]
    BY <1>2 DEF SeesCancel, Rejected, Mismatch, Installs, Ends
  <2>3. ~Vouched'
    BY <2>1 DEF Vouched
  <2> QED BY <2>1, <2>2, <2>3, EndsKnown
<1>3. CASE Breaks(j)
  <2>1. /\ at[j] \in {"asking", "hashing", "reading"} /\ at' = [at EXCEPT ![j] = "closing"]
        /\ WriteResumeSidecar(IF at[j] = "asking" THEN 0 ELSE load[j].version)
        /\ UNCHANGED <<load, history, upstream, content>>
    BY <1>3 DEF Breaks
  <2> QED BY <2>1, SidecarKnown, EndsKnown
<1>4. CASE Extras(j) \/ Registers(j) \/ Wraps(j)
  <2>1. /\ UNCHANGED <<content, part, sidecar, upstream, load, history>>
        /\ at[j] \in {"extras", "closing"}
    BY <1>4 DEF Extras, Registers, Wraps, files
  <2>2. at' = at \/ at' = [at EXCEPT ![j] = "closing"] \/ at' = [at EXCEPT ![j] = "over"]
    BY <1>4 DEF Extras, Registers, Wraps, Ends
  <2> QED BY <1>0, <2>1, <2>2, KnownStays DEF Alone
<1> QED BY <1>1, <1>2, <1>3, <1>4 DEF RunPull

LEMMA NextKnown == ASSUME Inv, FInv, KInv, [Next]_vars PROVE KInv'
<1>0. at \in [Jobs -> At]
  BY DEF Inv, Types
<1>1. CASE \E p \in Pulls : Enqueue(p)
  <2>1. PICK p \in Pulls : Enqueue(p)
    BY <1>1
  <2>2. /\ UNCHANGED <<content, part, sidecar, upstream, load, guessed>>
        /\ overlap => overlap'
        /\ raced => raced'
    <3>1. CASE EnqueueSchedules(p)
      BY <3>1 DEF EnqueueSchedules, files, bounds
    <3>2. CASE EnqueueChecks(p) \/ EnqueueReads(p)
      <4>1. MakeJob(p) \/ Refuse(p) \/ UNCHANGED history
        BY <3>2 DEF EnqueueChecks, EnqueueReads
      <4>2. UNCHANGED guessed /\ (overlap => overlap') /\ (raced => raced')
        <5>1. CASE UNCHANGED history \/ Refuse(p)
          BY <5>1 DEF Refuse
        <5>2. CASE Insert(p)
          BY <5>2 DEF Insert
        <5> QED BY <4>1, <5>1, <5>2 DEF MakeJob
      <4> QED BY <3>2, <4>2 DEF EnqueueChecks, EnqueueReads, files
    <3> QED BY <2>1, <3>1, <3>2 DEF Enqueue
  <2>3. at' = at \/ (at[p] = "idle" /\ at' = [at EXCEPT ![p] = "scheduled"])
    BY <2>1 DEF Enqueue, EnqueueChecks, EnqueueReads, EnqueueSchedules, Inv, Workers
  <2>4. Alone' => Alone
    BY <2>2 DEF Alone
  <2>5. p \in Jobs
    BY DEF Jobs
  <2> QED BY <1>0, <2>2, <2>3, <2>4, <2>5, KnownStays
<1>2. CASE (\E k \in Cancels : Cancel(k)) \/ (\E c \in Clears : Clear(c))
           \/ (\E d \in Deletes : Delete(d)) \/ UNCHANGED vars
  <2>1. UNCHANGED <<content, part, sidecar, upstream, load, history, at>>
    BY <1>2 DEF Cancel, Clear, Delete, DeleteBegins, DeleteWaited, DeleteRow, DeleteMarks,
                DeleteFiles, DeleteEnds, files, bounds, vars
  <2> QED BY <1>0, <2>1, KnownStays DEF Alone
<1>3. CASE \E j \in Jobs : RunPull(j)
  BY <1>3, RunPullKnown
<1>4. CASE Crash \/ Shutdown
  <2>1. /\ Forgets /\ UNCHANGED <<content, history, upstream>>
        /\ load' = [i \in Jobs |-> NoLoad]
    BY <1>4 DEF Crash, Shutdown, Forgets
  <2>2. \A i \in Jobs : at'[i] \in {"idle", "scheduled"}
    <3>1. PICK old : Boots(old)
      BY <1>4 DEF Crash, Shutdown
    <3> QED BY <3>1 DEF Boots
  <2>3. \A i \in Jobs : load'[i].from = 0
    BY <2>1 DEF NoLoad
  <2>4. ASSUME Alone', ~lfs'
        PROVE  /\ sidecar' # None => sidecar'.etag <= object'
               /\ Vouched' /\ sidecar'.etag = object' =>
                      Prefix(content[part], sidecar.bytes, object)'
    <3>1. Known /\ Alone
      BY <2>1, <2>4 DEF KInv, Alone
    <3>2. CASE UNCHANGED <<part, sidecar>>
      BY <2>1, <3>1, <3>2 DEF Known, Prefix, Vouched
    <3>3. CASE \E j \in Jobs :
                  /\ at[j] \in {"asking", "hashing", "reading"}
                  /\ WriteResumeSidecar(IF at[j] = "asking" THEN 0 ELSE load[j].version)
      BY <2>1, <3>1, <3>3, SidecarKnown
    <3> QED BY <1>4, <3>2, <3>3 DEF Crash, Shutdown
  <2> QED BY <2>2, <2>3, <2>4, KnownQuiet
<1>5. CASE ObjectChanges
  <2> SUFFICES ASSUME Alone', ~lfs' PROVE Known'
    BY DEF KInv
  <2>1. /\ UNCHANGED <<content, part, sidecar, load, at, history, lfs>> /\ object' = object + 1
        /\ object \in Nat
    BY <1>5, PullConstants DEF ObjectChanges, files, FInv, Ranges
  <2>2. Known
    BY <2>1 DEF KInv, Alone
  <2>3. sidecar # None => sidecar.etag \in Nat /\ sidecar.etag <= object
    BY <2>2, PullConstants DEF Known, FInv, Stores
  <2>4. \A j \in Jobs : load[j].version \in Nat
    BY PullConstants DEF FInv, Loads, Responses
  <2>5. Vouched' = Vouched
    BY <2>1 DEF Vouched
  <2>6. sidecar # None => sidecar'.etag <= object' /\ sidecar'.etag # object'
    BY <2>1, <2>3
  <2>7. Vouched => sidecar # None
    BY DEF Vouched
  <2>8. \A j \in Jobs : at[j] \in {"hashing", "reading"} =>
            load[j].version <= object' /\ (sidecar # None => sidecar.etag <= load[j].version)
    BY <2>1, <2>2, <2>4 DEF Known
  <2> QED BY <2>1, <2>2, <2>5, <2>6, <2>7, <2>8 DEF Known, Prefix
<1> QED BY <1>1, <1>2, <1>3, <1>4, <1>5 DEF Next

LEMMA FilesInvariance == Spec => [](FInv /\ KInv)
<1>1. Inv /\ FInv /\ KInv /\ [Next]_vars => FInv' /\ KInv'
  BY NextFiles, NextKnown
<1> QED BY <1>1, InitFiles, InitKnown, Invariance, PTL DEF Spec

-----------------------------------------------------------------------------
\* What status() shows as queued or running is being worked on, in every
\* reachable state in which no two jobs of the model have overlapped.
THEOREM ShownAlive == Spec => []ShownIsAlive
<1>1. Inv => ShownIsAlive
  <2> SUFFICES ASSUME Inv, Status \in Active, ~overlap
               PROVE  \E j \in Jobs : at[j] \in Busy \cup {"scheduled"}
                                      \/ (j \in Pulls /\ pc[j] = "emitting")
    BY DEF ShownIsAlive
  <2>1. jobs # None
    <3> SUFFICES ASSUME jobs = None PROVE FALSE
      OBVIOUS
    <3>1. CASE snap = None
      BY <3>1 DEF Status, Active
    <3>2. CASE snap # None
      <4>1. snap.state \in Active \cup Terminal /\ snap.live \in BOOLEAN
        BY <3>2 DEF Inv, Types, Snapshots
      <4>2. Status = ReconcilePersisted
        BY <3>2 DEF Status
      <4>3. snap.state \notin Active \/ ~snap.live
        BY <3>2 DEF Inv, Mapped
      <4>4. CASE snap.state \notin Active
        BY <4>2, <4>4 DEF ReconcilePersisted
      <4>5. CASE snap.state \in Active /\ ~snap.live
        BY <4>2, <4>5 DEF ReconcilePersisted, Active
      <4> QED BY <4>3, <4>4, <4>5
    <3> QED BY <3>1, <3>2
  <2>2. jobs \in Jobs /\ state[jobs] \in Active
    BY <2>1 DEF Inv, Types, Status
  <2> QED BY <2>2 DEF Inv, Workers, Active, Busy
<1> QED BY <1>1, Invariance, PTL

\* A download that was running when its model was deleted never completes, and
\* so never registers it again: _registration_abandoned sees every such job,
\* one that was displaced from the map too.
THEOREM DeletedStays == Spec => DeletedStaysDeleted
<1>1. Inv /\ [Next]_vars => [\A j \in stale : state[j] = "running" => state'[j] # "completed"]_vars
  BY NextKeeps DEF Keeps
<1> QED BY <1>1, Invariance, PTL DEF Spec, DeletedStaysDeleted

\* What is registered is one whole file, of one version of the upstream object, for
\* any number of pulls, cancels, deletes and restarts, in every reachable state to
\* which no two jobs of the model have led at once, no job made under a delete, and no
\* prefix that was continued with neither a checksum nor an etag to vouch for it; every
\* variable keeps its type.
THEOREM RegisteredWhole == Spec => []Safety
<1>1. Inv /\ FInv => Safety
  <2> SUFFICES ASSUME Inv, FInv PROVE TypeOK /\ RegisteredIsWhole
    BY DEF Safety
  <2>1. RegisteredIsWhole
    BY DEF FInv, Alone, Kept, RegisteredIsWhole
  <2>2. /\ jobs \in Jobs \cup {None} /\ state \in [Jobs -> Active \cup Terminal \cup {"none", "lost"}]
        /\ fresh \subseteq Jobs /\ stale \subseteq Jobs /\ overlap \in BOOLEAN
        /\ snap # None => snap \in [state : Active \cup Terminal, live : BOOLEAN]
        /\ at \in [Jobs -> At] /\ pc \in [Calls -> Pcs]
    BY DEF Inv, Types, States, Snapshots
  <2>3. \A j \in Jobs : /\ at[j] \in Busy => state[j] = "running"
                        /\ at[j] \in {"closing", "over"} => state[j] \in Terminal
    BY DEF Inv, Workers, Busy
  <2>4. Stores /\ Ranges /\ load \in [Jobs -> Responses]
    BY DEF FInv, Loads
  <2> QED BY <2>1, <2>2, <2>3, <2>4 DEF TypeOK, Stores, Ranges, Responses
<1> QED BY <1>1, Invariance, FilesInvariance, PTL
===========================================================================
