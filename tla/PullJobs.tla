------------------------------ MODULE PullJobs ------------------------------
(***************************************************************************)
(* The pulls of one model: the routes that start, cancel, clear and report *)
(* them (registry/pull_jobs.py), the download body (registry/pull.py       *)
(* run_pull and _download_one), the model's cascading delete               *)
(* (services/models_service.py), and the API's shutdown, crash and         *)
(* auto-resume (api/__init__.py). Models do not share any of this state.   *)
(*                                                                         *)
(* One event loop, so an action is the code between two awaits; the row's  *)
(* removal runs in a thread, and its statements are steps of their own. A  *)
(* job is named after the call that makes it. The file is MaxChunks chunks *)
(* of one version of the upstream object; the projector, the drafter and   *)
(* the engine's sidecars follow it, each with a staging file of its own.   *)
(* A split model repeats the same download, an FLM tag hands it over.      *)
(***************************************************************************)
EXTENDS Naturals, FiniteSets, FiniteSetsExt

CONSTANTS
    Pulls,            \* enqueue() and enqueue_update() calls
    WithBody,         \* enqueue() calls with a JSON body (the Add-by-HF modal)
    Resumes,          \* the jobs that auto-resume makes at startup
    Deletes,          \* DELETE of the model
    Cancels, Clears,  \* cancel() and delete() of the job
    MaxChunks, MaxVersions,
    MaxRestarts,      \* crashes and clean shutdowns
    Faults, MaxFaults,\* "http": the transport breaks; "refused": 4xx or no disk;
                      \* "persist": a snapshot cannot be written
    None

Jobs == Pulls \cup Resumes
Calls == Pulls \cup Deletes \cup Cancels \cup Clears

ASSUME PullConstants ==
    /\ WithBody \subseteq Pulls /\ Pulls \cap Resumes = {}
    /\ MaxChunks \in Nat \ {0} /\ MaxVersions \in Nat \ {0}
    /\ MaxRestarts \in Nat /\ MaxFaults \in Nat
    /\ Faults \subseteq {"http", "refused", "persist"} /\ None \notin Jobs

VARIABLES
    jobs,      \* model_pull_jobs[model]: the job there, or None
    state,     \* each PullJob's state; "none" before it is made, "lost" with its process
    cancel,    \* the jobs with cancel_requested
    fresh,     \* the jobs whose started_at is after _DELETED_AT
    deleting,  \* the model is in _DELETING
    snap,      \* the snapshot on disk: [state, live], or None
    row,       \* the registry row: "none", "seeded" or "installed"
    content,   \* the version of each chunk of each file (0: not there)
    part,      \* the file at the .part path, or None; a file is named after its creator
    sidecar,   \* [bytes, etag] next to it, or None
    final,     \* the file at the model's path, or None
    load,      \* each worker's response: the prefix it resumes from, the chunks it
               \* has, their version (0: no etag), the prefix's hash, the open file
    object,    \* the version the upstream serves
    lfs,       \* it advertises the file's SHA-256 (an LFS file)
    at,        \* where each worker is
    pc,        \* where each call is
    wait,      \* the job that each delete waits for
    stale,     \* history: the jobs that were running when the row was deleted
    overlap,   \* history: two jobs of the model were active at once
    raced,     \* history: a job was made while a delete was under way
    guessed,   \* history: a prefix was continued with no etag and no SHA-256 to tell
               \* whether the object is still the same
    restarts, faults

files == <<content, part, sidecar, final>>
upstream == <<object, lfs>>
bounds == <<upstream, restarts, faults>>
history == <<overlap, raced, guessed>>
vars == <<jobs, state, cancel, fresh, deleting, snap, row, files, load, at, pc,
          wait, stale, history, bounds>>

Active == {"queued", "running"}
Terminal == {"completed", "failed", "cancelled"}
Working == {j \in Jobs : state[j] \in Active}
Busy == {"asking", "hashing", "reading", "extras"}
UnderWay(d) == pc[d] \in {"waiting", "cascade", "marking", "files", "ending"}

Fault(f) == f \in Faults /\ faults < MaxFaults /\ faults' = faults + 1

Chunks == 1 .. MaxChunks
Empty == [k \in Chunks |-> 0]
Length(c) == Max({0} \cup {k \in Chunks : c[k] # 0})
Whole(c) == \E v \in 1 .. MaxVersions : \A k \in Chunks : c[k] = v

\* persist_pull_job: fail-soft, so the old snapshot may survive.
Persist(s) ==
    \/ snap' = [state |-> s, live |-> TRUE] /\ UNCHANGED faults
    \/ Fault("persist") /\ UNCHANGED snap

\* reconcile_persisted, and status() with its fallback to the snapshot.
ReconcilePersisted ==
    CASE snap.state \notin Active -> snap.state
      [] snap.state \in Active /\ snap.live -> snap.state
      [] snap.state \in Active /\ ~snap.live ->
             IF row = "installed" /\ final # None THEN "completed" ELSE "failed"
Status == CASE jobs # None -> state[jobs]
            [] jobs = None /\ snap = None -> "none"
            [] jobs = None /\ snap # None -> ReconcilePersisted

NoLoad == [from |-> 0, got |-> 0, version |-> 0, clean |-> TRUE, file |-> None]

Init ==
    /\ jobs = None /\ state = [j \in Jobs |-> "none"] /\ cancel = {} /\ fresh = {}
    /\ deleting = FALSE /\ snap = None /\ row = "none"
    /\ content = [j \in Jobs |-> Empty] /\ part = None /\ sidecar = None /\ final = None
    /\ load = [j \in Jobs |-> NoLoad] /\ object = 1 /\ lfs \in BOOLEAN
    /\ at = [j \in Jobs |-> "idle"] /\ pc = [c \in Calls |-> "new"]
    /\ wait = [d \in Deletes |-> None] /\ stale = {} /\ overlap = FALSE /\ raced = FALSE /\ guessed = FALSE
    /\ restarts = 0 /\ faults = 0

-----------------------------------------------------------------------------
(* enqueue *)

\* A new job goes into the map, over whatever is there, and to disk.
Insert(j) ==
    /\ jobs' = j /\ state' = [state EXCEPT ![j] = "queued"]
    /\ fresh' = fresh \cup {j} /\ overlap' = (overlap \/ Working # {})
    /\ raced' = (raced \/ \E d \in Deletes : UnderWay(d)) /\ UNCHANGED guessed
    /\ Persist("queued")

Refuse(p) ==
    /\ pc' = [pc EXCEPT ![p] = "refused"]
    /\ UNCHANGED <<jobs, state, fresh, history, snap, faults>>

\* ensure_not_deleting, and the insert with no await in between; then the
\* event bus is awaited.
MakeJob(p) ==
    IF deleting THEN Refuse(p) ELSE Insert(p) /\ pc' = [pc EXCEPT ![p] = "emitting"]

\* The in-flight check. Without a body (and in enqueue_update) nothing is
\* awaited before the insert.
EnqueueChecks(p) ==
    /\ pc[p] = "new"
    /\ IF jobs # None /\ state[jobs] \in Active
       THEN /\ pc' = [pc EXCEPT ![p] = "resumed"]
            /\ UNCHANGED <<jobs, state, fresh, history, snap, faults>>
       ELSE \/ p \notin WithBody /\ MakeJob(p)
            \/ /\ p \in WithBody /\ pc' = [pc EXCEPT ![p] = "reading"]
               /\ UNCHANGED <<jobs, state, fresh, history, snap, faults>>
    /\ UNCHANGED <<cancel, deleting, row, files, load, at, wait, stale, upstream, restarts>>

\* The body has arrived: a source that is not usable is refused; otherwise the
\* row is seeded and the job made.
EnqueueReads(p) ==
    /\ pc[p] = "reading"
    /\ \/ Refuse(p) /\ UNCHANGED row
       \/ MakeJob(p) /\ row' = IF row = "none" THEN "seeded" ELSE row
    /\ UNCHANGED <<cancel, deleting, files, load, at, wait, stale, upstream, restarts>>

\* schedule_pull_task.
EnqueueSchedules(p) ==
    /\ pc[p] = "emitting" /\ pc' = [pc EXCEPT ![p] = "done"]
    /\ at' = [at EXCEPT ![p] = "scheduled"]
    /\ UNCHANGED <<jobs, state, cancel, fresh, deleting, snap, row, files, load, wait,
                   stale, history, bounds>>

-----------------------------------------------------------------------------
(* run_pull *)

DiscardPartial == part' = None /\ sidecar' = None

\* _write_resume_sidecar: what is at the path now is what will be resumed.
WriteResumeSidecar(etag) ==
    IF part # None /\ Length(content[part]) > 0
    THEN sidecar' = [bytes |-> Length(content[part]), etag |-> etag] /\ UNCHANGED part
    ELSE DiscardPartial

\* The terminal state, persisted in run_pull's finally.
Ends(j, s) ==
    /\ state' = [state EXCEPT ![j] = s] /\ Persist(s) /\ at' = [at EXCEPT ![j] = "closing"]

\* _read_resume_sidecar: a partial counts only if its sidecar vouches for its length.
Vouched == part # None /\ sidecar # None /\ sidecar.bytes = Length(content[part])

\* Running, with a new started_at; then the resume probe.
Starts(j) ==
    /\ at[j] = "scheduled" /\ at' = [at EXCEPT ![j] = "asking"]
    /\ state' = [state EXCEPT ![j] = "running"] /\ fresh' = fresh \cup {j}
    /\ Persist("running")
    /\ IF Vouched
       THEN /\ load' = [load EXCEPT ![j].from = sidecar.bytes, ![j].version = sidecar.etag]
            /\ UNCHANGED <<part, sidecar>>
       ELSE UNCHANGED load /\ DiscardPartial
    /\ UNCHANGED <<jobs, cancel, deleting, row, content, final, pc, wait, stale, history,
                   upstream, restarts>>

\* 206: the sidecar has no etag, or the object is still the one it names. The
\* prefix is hashed in a thread before the file is opened.
AnsweredPartial(j) ==
    /\ at[j] = "asking" /\ load[j].from > 0 /\ load[j].version \in {0, object}
    /\ load' = [load EXCEPT ![j].version = object]
    /\ guessed' = (guessed \/ (load[j].version = 0 /\ ~lfs))
    /\ at' = [at EXCEPT ![j] = "hashing"]
    /\ UNCHANGED <<jobs, state, cancel, fresh, deleting, snap, row, files, pc, wait,
                   stale, overlap, raced, bounds>>

\* The prefix is as long as it was: append to it.
Appends(j) ==
    /\ at[j] = "hashing" /\ part # None /\ Length(content[part]) = load[j].from
    /\ load' = [load EXCEPT
         ![j].got = load[j].from, ![j].file = part,
         ![j].clean = \A k \in 1 .. load[j].from : content[part][k] = load[j].version]
    /\ at' = [at EXCEPT ![j] = "reading"]
    /\ UNCHANGED <<jobs, state, cancel, fresh, deleting, snap, row, files, pc, wait, stale,
                   history, bounds>>

\* 200: from the start, truncating what the path holds. A 416 comes to the same,
\* and unlinks it first.
AnsweredWhole(j) ==
    /\ at[j] = "asking" /\ at' = [at EXCEPT ![j] = "reading"]
    /\ part' = IF part = None THEN j ELSE part
    /\ content' = [content EXCEPT ![part'] = Empty]
    /\ load' = [load EXCEPT ![j] = [NoLoad EXCEPT !.version = object, !.file = part']]
    /\ UNCHANGED <<jobs, state, cancel, fresh, deleting, snap, row, sidecar, final, pc,
                   wait, stale, history, bounds>>

\* The next chunk goes to the file that was opened, whatever its name is now.
Chunk(j) ==
    /\ at[j] = "reading" /\ load[j].got < MaxChunks /\ j \notin cancel
    /\ content' = [content EXCEPT ![load[j].file][load[j].got + 1] = load[j].version]
    /\ load' = [load EXCEPT ![j].got = @ + 1]
    /\ UNCHANGED snap \/ snap' = [state |-> "running", live |-> TRUE]
    /\ UNCHANGED <<jobs, state, cancel, fresh, deleting, row, part, sidecar, final, at, pc,
                   wait, stale, history, bounds>>

\* Mutant: a cancelled worker leaves without recording it.
SeesCancelSilently(j) ==
    /\ at[j] = "reading" /\ load[j].got < MaxChunks /\ j \in cancel
    /\ DiscardPartial /\ at' = [at EXCEPT ![j] = "closing"]
    /\ UNCHANGED <<jobs, state, cancel, fresh, deleting, snap, row, content, final, load,
                   pc, wait, stale, history, bounds>>

\* Cancelled at a chunk: the staging is dropped.
SeesCancel(j) ==
    /\ at[j] = "reading" /\ load[j].got < MaxChunks /\ j \in cancel
    /\ DiscardPartial /\ Ends(j, "cancelled")
    /\ UNCHANGED <<jobs, cancel, fresh, deleting, row, content, final, load, pc, wait,
                   stale, history, upstream, restarts>>

\* The server refuses or the disk is too small; or the prefix changed while it
\* was hashed: not resumable.
Rejected(j) ==
    /\ at[j] \in {"asking", "hashing"}
    /\ \/ /\ at[j] = "hashing" /\ (part = None \/ Length(content[part]) # load[j].from)
          /\ Ends(j, "failed")
       \/ /\ Fault("refused")
          /\ state' = [state EXCEPT ![j] = "failed"] /\ at' = [at EXCEPT ![j] = "closing"]
          /\ snap' = [state |-> "failed", live |-> TRUE]
    /\ DiscardPartial
    /\ UNCHANGED <<jobs, cancel, fresh, deleting, row, content, final, load, pc, wait,
                   stale, history, upstream, restarts>>

\* The connection breaks: the partial is kept, with a sidecar. The etag is the
\* response's, and there is none before it.
Breaks(j) ==
    /\ at[j] \in {"asking", "reading"} /\ Fault("http")
    /\ WriteResumeSidecar(IF at[j] = "asking" THEN 0 ELSE load[j].version)
    /\ state' = [state EXCEPT ![j] = "failed"] /\ at' = [at EXCEPT ![j] = "closing"]
    /\ snap' = [state |-> "failed", live |-> TRUE]
    /\ UNCHANGED <<jobs, cancel, fresh, deleting, row, content, final, load, pc, wait,
                   stale, history, upstream, restarts>>

\* Mutant: only a cancel keeps a finished download from being registered.
AbandonedWhenCancelled(j) == j \in cancel

\* _registration_abandoned.
Abandoned(j) == j \in cancel \/ j \notin fresh

\* The hash does not match: the partial stays for diagnosis, without a sidecar.
\* There is nothing to match unless the upstream advertises one.
Mismatch(j) ==
    /\ at[j] = "reading" /\ load[j].got = MaxChunks /\ lfs /\ ~load[j].clean
    /\ sidecar' = None /\ Ends(j, "failed")
    /\ UNCHANGED <<jobs, cancel, fresh, deleting, row, content, part, final, load, pc,
                   wait, stale, history, upstream, restarts>>

\* Mutant: a stream that ends early counts as the whole file.
InstallsShort(j) ==
    /\ at[j] = "reading" /\ load[j].got \in {MaxChunks - 1, MaxChunks} /\ part # None
    /\ DiscardPartial /\ final' = part /\ at' = [at EXCEPT ![j] = "extras"]
    /\ UNCHANGED <<jobs, state, cancel, fresh, deleting, snap, row, content, load, pc, wait,
                   stale, history, bounds>>

\* What this worker streamed has the advertised hash, or none was advertised.
\* Whatever is at the staging path is moved into place.
Installs(j) ==
    /\ at[j] = "reading" /\ load[j].got = MaxChunks /\ (lfs => load[j].clean)
    /\ DiscardPartial
    /\ IF part = None
       THEN Ends(j, "failed") /\ UNCHANGED final
       ELSE /\ final' = part /\ at' = [at EXCEPT ![j] = "extras"]
            /\ UNCHANGED <<state, snap, faults>>
    /\ UNCHANGED <<jobs, cancel, fresh, deleting, row, content, load, pc, wait, stale, history,
                   upstream, restarts>>

\* The projector, the drafter and the sidecars, if there are any: each saves its
\* progress, and may fail as the model's file may.
Extras(j) ==
    /\ at[j] = "extras"
    /\ \/ /\ snap' = [state |-> "running", live |-> TRUE] /\ UNCHANGED <<state, at, faults>>
       \/ /\ Fault("http") \/ Fault("refused")
          /\ state' = [state EXCEPT ![j] = "failed"] /\ at' = [at EXCEPT ![j] = "closing"]
          /\ snap' = [state |-> "failed", live |-> TRUE]
    /\ UNCHANGED <<jobs, cancel, fresh, deleting, row, files, load, pc, wait, stale, history,
                   upstream, restarts>>

\* All of it is in place: registered, unless the pull was abandoned meanwhile.
Registers(j) ==
    /\ at[j] = "extras"
    /\ IF Abandoned(j)
       THEN Ends(j, "cancelled") /\ UNCHANGED row
       ELSE Ends(j, "completed") /\ row' = "installed"
    /\ UNCHANGED <<jobs, cancel, fresh, deleting, files, load, pc, wait, stale, history,
                   upstream, restarts>>

\* run_pull_with_events persists once more, after an await.
Wraps(j) ==
    /\ at[j] = "closing" /\ at' = [at EXCEPT ![j] = "over"] /\ Persist(state[j])
    /\ UNCHANGED <<jobs, state, cancel, fresh, deleting, row, files, load, pc, wait, stale,
                   history, upstream, restarts>>

-----------------------------------------------------------------------------
(* cancel(), delete() of the job, and the model's delete *)

Cancel(k) ==
    /\ pc[k] = "new" /\ pc' = [pc EXCEPT ![k] = "done"]
    /\ cancel' = IF jobs # None /\ state[jobs] \in Active THEN cancel \cup {jobs} ELSE cancel
    /\ UNCHANGED <<jobs, state, fresh, deleting, snap, row, files, load, at, wait, stale,
                   history, bounds>>

\* A job that is still active is not cleared.
Clear(c) ==
    /\ pc[c] = "new" /\ pc' = [pc EXCEPT ![c] = "done"]
    /\ IF jobs # None /\ state[jobs] \in Active
       THEN UNCHANGED <<jobs, snap>>
       ELSE jobs' = None /\ snap' = None
    /\ UNCHANGED <<state, cancel, fresh, deleting, row, files, load, at, wait, stale,
                   history, bounds>>

\* cascade_delete_model: no new jobs, and the active one is asked to stop.
DeleteBegins(d) ==
    /\ pc[d] = "new" /\ deleting' = TRUE
    /\ IF jobs # None /\ state[jobs] \in Active
       THEN /\ cancel' = cancel \cup {jobs} /\ wait' = [wait EXCEPT ![d] = jobs]
            /\ pc' = [pc EXCEPT ![d] = "waiting"]
       ELSE pc' = [pc EXCEPT ![d] = "cascade"] /\ UNCHANGED <<cancel, wait>>
    /\ UNCHANGED <<jobs, state, fresh, snap, row, files, load, at, stale, history, bounds>>

\* It has stopped; or the wait is over, and nothing is deleted.
DeleteWaited(d) ==
    /\ pc[d] = "waiting"
    /\ IF state[wait[d]] \in Active
       THEN deleting' = FALSE /\ pc' = [pc EXCEPT ![d] = "refused"]
       ELSE UNCHANGED deleting /\ pc' = [pc EXCEPT ![d] = "cascade"]
    /\ UNCHANGED <<jobs, state, cancel, fresh, snap, row, files, load, at, wait, stale,
                   history, bounds>>

\* _remove_row_and_files, in a thread: the row, the time, the files, one delete at a
\* time (SCAN_DELETE_LOCK).
DeleteRow(d) ==
    /\ pc[d] = "cascade" /\ row' = "none" /\ \A e \in Deletes : pc[e] \notin {"marking", "files"}
    /\ pc' = [pc EXCEPT ![d] = IF row = "none" THEN "ending" ELSE "marking"]
    /\ UNCHANGED <<jobs, state, cancel, fresh, deleting, snap, files, load, at, wait, stale,
                   history, bounds>>

DeleteMarks(d) ==
    /\ pc[d] = "marking" /\ pc' = [pc EXCEPT ![d] = "files"]
    /\ fresh' = {} /\ stale' = stale \cup {j \in Jobs : state[j] = "running"}
    /\ UNCHANGED <<jobs, state, cancel, deleting, snap, row, files, load, at, wait, history,
                   bounds>>

\* The operator may keep the files.
DeleteFiles(d) ==
    /\ pc[d] = "files" /\ pc' = [pc EXCEPT ![d] = "ending"]
    /\ final' \in {None, final}
    /\ UNCHANGED <<jobs, state, cancel, fresh, deleting, snap, row, content, part, sidecar,
                   load, at, wait, stale, history, bounds>>

DeleteEnds(d) ==
    /\ pc[d] = "ending" /\ pc' = [pc EXCEPT ![d] = "done"]
    /\ deleting' = FALSE /\ snap' = None
    /\ UNCHANGED <<jobs, state, cancel, fresh, row, files, load, at, wait, stale, history,
                   bounds>>

-----------------------------------------------------------------------------
(* The process *)

\* An unfinished pull whose row says where to pull from.
Resumable(old) ==
    /\ old # None /\ old.state \in Active
    /\ row = "seeded" \/ (row = "installed" /\ final = None)

\* Mutant: the next process takes the snapshot for its own.
BootsTrusting(old) ==
    /\ jobs' = None /\ fresh' = {} /\ snap' = old
    /\ state' = [j \in Jobs |-> IF state[j] = "none" THEN "none" ELSE "lost"]
    /\ at' = [j \in Jobs |-> "idle"]

\* _auto_resume_interrupted_pulls, given the snapshot the last process left.
Boots(old) ==
    IF Resumable(old) /\ \E r \in Resumes : state[r] = "none"
    THEN \E r \in Resumes :
             /\ state[r] = "none" /\ jobs' = r /\ fresh' = {r}
             /\ state' = [j \in Jobs |-> IF j = r THEN "queued"
                                         ELSE IF state[j] = "none" THEN "none" ELSE "lost"]
             /\ at' = [j \in Jobs |-> IF j = r THEN "scheduled" ELSE "idle"]
             /\ snap' = [state |-> "queued", live |-> TRUE]
    ELSE /\ jobs' = None /\ fresh' = {}
         /\ state' = [j \in Jobs |-> IF state[j] = "none" THEN "none" ELSE "lost"]
         /\ at' = [j \in Jobs |-> "idle"]
         /\ snap' = IF old = None THEN None ELSE [old EXCEPT !.live = FALSE]

Forgets ==
    /\ restarts < MaxRestarts /\ restarts' = restarts + 1
    /\ cancel' = {} /\ deleting' = FALSE /\ stale' = {}
    /\ pc' = [c \in Calls |-> IF pc[c] \in {"new", "done", "refused", "resumed"}
                              THEN pc[c] ELSE "dead"]
    /\ wait' = [d \in Deletes |-> None] /\ load' = [j \in Jobs |-> NoLoad]
    /\ UNCHANGED <<row, content, final, upstream, faults, history>>

\* Everything in memory is gone; the staging is left as it is.
Crash == Forgets /\ Boots(snap) /\ UNCHANGED <<part, sidecar>>

\* _shutdown_pull_jobs: a task cancelled in its download keeps the partial,
\* with a sidecar, and records "cancelled"; one that never ran records nothing.
\* Past its install the model's own staging is gone.
Shutdown ==
    /\ Forgets
    /\ \/ \E j \in Jobs :
              /\ at[j] \in {"asking", "hashing", "reading"}
              /\ WriteResumeSidecar(IF at[j] = "asking" THEN 0 ELSE load[j].version)
              /\ Boots([state |-> "cancelled", live |-> FALSE])
       \/ /\ \A j \in Jobs : at[j] \notin {"asking", "hashing", "reading"}
          /\ \E j \in Jobs : at[j] = "extras"
          /\ Boots([state |-> "cancelled", live |-> FALSE]) /\ UNCHANGED <<part, sidecar>>
       \/ /\ \A j \in Jobs : at[j] \notin Busy
          /\ Boots(snap) /\ UNCHANGED <<part, sidecar>>

\* The upstream object is replaced, by one it has not been before.
ObjectChanges ==
    /\ object < MaxVersions /\ object' = object + 1
    /\ UNCHANGED <<jobs, state, cancel, fresh, deleting, snap, row, files, load, at, pc,
                   wait, stale, history, lfs, restarts, faults>>

-----------------------------------------------------------------------------
Enqueue(p) == EnqueueChecks(p) \/ EnqueueReads(p) \/ EnqueueSchedules(p)

RunPull(j) ==
    \/ Starts(j) \/ AnsweredPartial(j) \/ AnsweredWhole(j) \/ Appends(j) \/ Chunk(j)
    \/ SeesCancel(j) \/ Rejected(j) \/ Breaks(j) \/ Mismatch(j) \/ Installs(j) \/ Extras(j)
    \/ Registers(j) \/ Wraps(j)

Delete(d) ==
    \/ DeleteBegins(d) \/ DeleteWaited(d) \/ DeleteRow(d) \/ DeleteMarks(d)
    \/ DeleteFiles(d) \/ DeleteEnds(d)

Next ==
    \/ \E p \in Pulls : Enqueue(p)
    \/ \E j \in Jobs : RunPull(j)
    \/ \E k \in Cancels : Cancel(k)
    \/ \E c \in Clears : Clear(c)
    \/ \E d \in Deletes : Delete(d)
    \/ Crash \/ Shutdown \/ ObjectChanges

Spec == Init /\ [][Next]_vars

(* The event loop runs what it may run, and a response goes on or breaks. *)
LiveSpec ==
    /\ Spec
    /\ \A p \in Pulls : WF_vars(EnqueueReads(p) \/ EnqueueSchedules(p))
    /\ \A j \in Jobs : WF_vars(RunPull(j))

-----------------------------------------------------------------------------
(* Properties *)

At == Busy \cup {"idle", "scheduled", "closing", "over"}
Pcs == {"new", "reading", "emitting", "resumed", "refused", "done", "dead", "waiting",
        "cascade", "marking", "files", "ending"}

\* Every variable stays in its type; a job whose download is under way is
\* running, and one that ended in this process has a terminal state.
TypeOK ==
    /\ jobs \in Jobs \cup {None}
    /\ state \in [Jobs -> Active \cup Terminal \cup {"none", "lost"}]
    /\ cancel \subseteq Jobs /\ fresh \subseteq Jobs /\ stale \subseteq Jobs
    /\ deleting \in BOOLEAN /\ lfs \in BOOLEAN
    /\ overlap \in BOOLEAN /\ raced \in BOOLEAN /\ guessed \in BOOLEAN
    /\ snap # None => snap \in [state : Active \cup Terminal, live : BOOLEAN]
    /\ row \in {"none", "seeded", "installed"}
    /\ content \in [Jobs -> [Chunks -> 0 .. MaxVersions]]
    /\ {part, final} \subseteq Jobs \cup {None}
    /\ sidecar # None => sidecar \in [bytes : Chunks, etag : 0 .. MaxVersions]
    /\ load \in [Jobs -> [from : 0 .. MaxChunks, got : 0 .. MaxChunks,
                          version : 0 .. MaxVersions, clean : BOOLEAN,
                          file : Jobs \cup {None}]]
    /\ at \in [Jobs -> At] /\ pc \in [Calls -> Pcs] /\ wait \in [Deletes -> Jobs \cup {None}]
    /\ object \in 1 .. MaxVersions /\ restarts \in 0 .. MaxRestarts
    /\ faults \in 0 .. MaxFaults
    /\ \A j \in Jobs : /\ at[j] \in Busy => state[j] = "running"
                       /\ at[j] \in {"closing", "over"} => state[j] \in Terminal

\* A pull that status() shows as queued or running has somebody at work on it:
\* after a crash, a shutdown, a cancel, a clear or a delete no poll waits for a
\* worker that is gone. (A second job of the model may leave its own "running"
\* snapshot behind, if its last write failed; hence ~overlap.)
ShownIsAlive ==
    Status \in Active /\ ~overlap =>
        \E j \in Jobs : at[j] \in Busy \cup {"scheduled"}
                        \/ (j \in Pulls /\ pc[j] = "emitting")

\* A registered model has its file, the whole of one version, through every resume,
\* cancel, delete and restart: so what status() calls completed is there. A checksum
\* vouches for it or, for a file without one, the etag of each resumed prefix: the code
\* resumes as well with neither (guessed), after a connection that broke before it
\* answered. Two jobs of one model at once are InstalledIsWhole's concern, and a job made
\* under a delete is refused unless a second delete has taken the mark away.
RegisteredIsWhole ==
    row = "installed" /\ ~overlap /\ ~raced /\ ~guessed =>
        final # None /\ Whole(content[final])

\* What is registered is one whole file, through every resume, cancel, delete and
\* restart (RegisteredIsWhole), and each job's state agrees with how far its worker
\* has got.
Safety == TypeOK /\ RegisteredIsWhole

\* A download that was running when its model was deleted never registers it
\* again, not even one that a second pull had displaced from the map.
DeletedStaysDeleted ==
    [][\A j \in stale : state[j] = "running" => state'[j] # "completed"]_vars

\* A pull that is shown as queued or running does not stay so: a wizard that
\* polls it sees it end, whatever happens to its worker or to the process.
StatusSettles == (Status \in Active) ~> (Status \notin Active \/ overlap)

\* The file of a registered model is never a partial one: the check in
\* enqueue() keeps two downloads of one model from sharing the staging file.
InstalledIsWhole == row = "installed" /\ final # None => Whole(content[final])
==============================================================================
