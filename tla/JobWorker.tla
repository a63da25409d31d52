----------------------------- MODULE JobWorker -----------------------------
(***************************************************************************)
(* The job queue and the background worker of Subtitle AI: the rows of the *)
(* SQLite table `jobs` (backend/app/jobs/queue.py), the asyncio worker     *)
(* that claims and runs them (jobs/worker.py, jobs/kinds.py), and the      *)
(* plain `def` API handlers that FastAPI runs on threadpool threads.       *)
(*                                                                         *)
(* Two kinds of actors share the rows.                                     *)
(*                                                                         *)
(*  - Everything `async` runs on one event loop: code between two awaits   *)
(*    is atomic for the other coroutines, but not for the threads.  An     *)
(*    event-loop write that rests on an earlier read of the row is a       *)
(*    `draft`: until it is committed no other coroutine runs, while        *)
(*    threads do.                                                          *)
(*                                                                         *)
(*  - A threadpool handler reads the row, decides, and writes it in a      *)
(*    later statement; anything may happen in between (`api`).             *)
(***************************************************************************)
EXTENDS Integers, FiniteSets

CONSTANTS
  Jobs,         \* ids of job rows; a larger id was created later
  Kinds,        \* job kinds: translate, extract, request, transcribe, dub
  KindOf,       \* the kind of each job
  Manual,       \* the jobs created with trigger_type "manual"
  Limit,        \* concurrency limit of each kind (settings, at least 1)
  Runs,         \* asyncio.Task objects the worker may hold at one time
  Threads,      \* threadpool threads serving job handlers
  Ops,          \* the handlers users call: a subset of ApiOps
  MaxRestarts,  \* bound on the number of process restarts
  None          \* Python's None

ApiOps == {"cancel", "cancelTask", "pause", "resume"}

ASSUME JobWorkerAssumption ==
  /\ Jobs \subseteq Nat
  /\ KindOf \in [Jobs -> Kinds]
  /\ Manual \subseteq Jobs
  /\ Limit \in [Kinds -> Nat \ {0}]
  /\ IsFiniteSet(Runs)
  /\ Ops \subseteq ApiOps
  /\ MaxRestarts \in Nat
  /\ None \notin Runs /\ None \notin Jobs /\ None \notin ApiOps

VARIABLES
  \* persistent: rows of the jobs table and of localization_tasks
  status,         \* status column of each job row; "absent": no such row yet
  taskCancelled,  \* jobs whose localization task is cancelled
  \* memory of the worker: one asyncio.Task per claimed job
  phase,          \* where each coroutine is
  job,            \* the job each coroutine was created for
  cancelReq,      \* task.cancel(): "soon" queued from a thread, "now" called
  late,           \* coroutines that have exceeded their runtime limit
  tasksByJob,     \* self._tasks_by_job
  inflight,       \* the union of self._inflight[kind]
  \* the worker loop's own position in _tick, and the uncommitted write
  tick, todo, pick, draft,
  \* the threads, the process, and the number of its restarts
  api, proc, restarts

rowVars  == <<status, taskCancelled>>
runVars  == <<phase, job, cancelReq, late>>
slotVars == <<tasksByJob, inflight>>
tickVars == <<tick, todo, pick>>
procVars == <<proc, restarts>>
vars == <<rowVars, runVars, slotVars, tickVars, draft, api, procVars>>
-----------------------------------------------------------------------------
Open     == {"pending", "processing", "paused"}      \* OPEN_JOB_STATUSES
Terminal == {"completed", "failed", "cancelled"}
Statuses == Open \cup Terminal \cup {"absent"}

Phases == {"unused",     \* no such asyncio.Task
           "created",    \* create_task called, first step not yet run
           "working",    \* in the kind-specific processor, may hang
           "tail",       \* completed is committed; rescan and verification
           "notify",     \* finally: await _notify_task_planner
           "errnotify",  \* the same, with an exception propagating
           "done"}       \* task.done(), not yet pruned
Live == Phases \ {"unused", "done"}

TickSteps == {"idle", "reconcile", "overdue", "replan", "recover",
              "claim", "selected", "claimed"}

\* An event-loop write whose decision is taken and whose commit is next; after
\* the commit `run` (or the worker loop itself) continues at `then`.
Drafts == [job : Jobs, to : Terminal, run : Runs \cup {None},
           then : {"tail", "notify", "exit", "cut", "claim"}]

IdleThread == [op |-> None, job |-> None, at |-> "idle", open |-> FALSE]
BusyThreads == [op : ApiOps, job : Jobs, at : {"write", "signal"}, open : BOOLEAN]

TypeOK ==
  /\ status \in [Jobs -> Statuses]
  /\ taskCancelled \subseteq Jobs
  /\ phase \in [Runs -> Phases]
  /\ job \in [Runs -> Jobs \cup {None}]
  /\ \A r \in Runs : phase[r] # "unused" => job[r] \in Jobs
  /\ cancelReq \in [Runs -> {"no", "soon", "now"}]
  /\ late \subseteq Runs
  /\ tasksByJob \in [Jobs -> Runs \cup {None}]
  /\ inflight \subseteq Runs
  /\ tick \in TickSteps
  /\ todo \subseteq Kinds
  /\ pick \in Jobs \cup {None}
  /\ tick \in {"selected", "claimed"} => pick \in Jobs
  /\ draft \in Drafts \cup {None}
  /\ api \in [Threads -> BusyThreads \cup {IdleThread}]
  /\ proc \in {"up", "stopping", "draining", "down"}
  /\ restarts \in 0..MaxRestarts
  /\ proc # "up" => restarts < MaxRestarts

LiveRuns == {r \in Runs : phase[r] \in Live}
DoneRuns == {r \in Runs : phase[r] = "done"}
RunsOf(j) == {r \in LiveRuns : job[r] = j}
\* Mutant: a slot is counted by the job id it is registered under.
TrackedSlots(k) == {r \in inflight : KindOf[job[r]] = k /\ tasksByJob[job[r]] = r}
Slots(k) == {r \in inflight : KindOf[job[r]] = k}   \* self._inflight[kind]

\* A coroutine may take a step: the worker loop is at an await and no other
\* coroutine stands between a read and the write it decided on.
LoopFree == draft = None /\ tick \in {"idle", "replan"} /\ proc # "down"

Init ==
  /\ status = [j \in Jobs |-> "absent"]
  /\ taskCancelled = {}
  /\ phase = [r \in Runs |-> "unused"]
  /\ job = [r \in Runs |-> None]
  /\ cancelReq = [r \in Runs |-> "no"]
  /\ late = {}
  /\ tasksByJob = [j \in Jobs |-> None]
  /\ inflight = {}
  /\ tick = "idle" /\ todo = {} /\ pick = None
  /\ draft = None
  /\ api = [t \in Threads |-> IdleThread]
  /\ proc = "up" /\ restarts = 0
-----------------------------------------------------------------------------
(* A coroutine at an await creates a job row: the create_* methods, called  *)
(* by API handlers, the planner and the scanner.  Ids grow with created_at. *)
CreateJob(j) ==
  /\ LoopFree
  /\ \A i \in Jobs : i < j <=> status[i] # "absent"
  /\ status' = [status EXCEPT ![j] = "pending"]
  /\ UNCHANGED <<taskCancelled, runVars, slotVars, tickVars, draft, api, procVars>>

\* Mutant: slots are freed through the finished ids of _tasks_by_job only.
PruneTracked ==
  /\ inflight' = inflight \ {tasksByJob[j] : j \in {i \in Jobs : tasksByJob[i] \in DoneRuns}}
  /\ tasksByJob' = [j \in Jobs |-> IF tasksByJob[j] \in DoneRuns
                                   THEN None ELSE tasksByJob[j]]
  /\ phase' = [r \in Runs |-> IF r \in DoneRuns THEN "unused" ELSE phase[r]]
  /\ UNCHANGED <<job, cancelReq, late>>

(* _prune_inflight: forget finished coroutines.                            *)
PruneInflight ==
  /\ inflight' = inflight \ DoneRuns
  /\ tasksByJob' = [j \in Jobs |-> IF tasksByJob[j] \in DoneRuns
                                   THEN None ELSE tasksByJob[j]]
  /\ phase' = [r \in Runs |-> IF r \in DoneRuns THEN "unused" ELSE phase[r]]
  /\ UNCHANGED <<job, cancelReq, late>>

(* task.cancel() on the given coroutines.                                  *)
CancelNow(rs) ==
  cancelReq' = [r \in Runs |-> IF r \in rs /\ phase[r] \in Live
                               THEN "now" ELSE cancelReq[r]]
-----------------------------------------------------------------------------
(* The worker loop, in the order of _tick.                                 *)
TickBegin ==
  /\ proc = "up" /\ tick = "idle" /\ draft = None
  /\ PruneInflight
  /\ tick' = "reconcile"
  /\ UNCHANGED <<rowVars, todo, pick, draft, api, procVars>>

ReconcileCancelledSlots ==
  /\ tick = "reconcile"
  /\ CancelNow({tasksByJob[j] : j \in {i \in Jobs : status[i] = "cancelled"}})
  /\ tick' = "overdue"
  /\ UNCHANGED <<rowVars, phase, job, late, slotVars, todo, pick, draft, api, procVars>>

OverdueJobs == {j \in Jobs : tasksByJob[j] \in LiveRuns \cap late}

\* Mutant: the row is failed and its coroutine left running.
FailOverdueOnly(j) ==
  /\ tick = "overdue" /\ draft = None
  /\ j \in OverdueJobs
  /\ late' = late \ {tasksByJob[j]}
  /\ status' = [status EXCEPT ![j] = IF @ \in {"pending", "processing"} THEN "failed" ELSE @]
  /\ UNCHANGED <<taskCancelled, phase, job, cancelReq, slotVars, tickVars, draft, api, procVars>>

(* _cancel_overdue_jobs for one job: fail_job_from_worker, then cancel.    *)
CancelOverdueJob(j) ==
  LET r == tasksByJob[j] IN
  /\ tick = "overdue" /\ draft = None
  /\ j \in OverdueJobs
  /\ late' = late \ {r}
  /\ IF status[j] \in {"pending", "processing"}
       THEN /\ draft' = [job |-> j, to |-> "failed", run |-> r, then |-> "cut"]
            /\ UNCHANGED cancelReq
       ELSE CancelNow({r}) /\ UNCHANGED draft
  /\ UNCHANGED <<rowVars, phase, job, slotVars, tickVars, api, procVars>>

(* No overdue job is left; every 30 seconds the tick awaits plan_all_active. *)
OverdueEnd ==
  /\ tick = "overdue" /\ draft = None
  /\ OverdueJobs = {}
  /\ PruneInflight
  /\ tick' \in {"replan", "recover"}
  /\ UNCHANGED <<rowVars, todo, pick, draft, api, procVars>>

ReplanEnd ==
  /\ tick = "replan" /\ draft = None
  /\ PruneInflight
  /\ tick' = "recover"
  /\ UNCHANGED <<rowVars, todo, pick, draft, api, procVars>>

Orphans == {j \in Jobs : status[j] = "processing" /\ tasksByJob[j] = None}

(* _recover_orphaned_jobs re-queues them ...                               *)
RecoverOrphanedJobs ==
  /\ tick = "recover"
  /\ status' = [j \in Jobs |-> IF j \in Orphans THEN "pending" ELSE status[j]]
  /\ tick' = "claim" /\ todo' = Kinds
  /\ UNCHANGED <<taskCancelled, runVars, slotVars, pick, draft, api, procVars>>

(* ... unless the database refuses; the tick goes on.                      *)
OrphanRecoveryFails ==
  /\ tick = "recover" /\ Orphans # {}
  /\ tick' = "claim" /\ todo' = Kinds
  /\ UNCHANGED <<rowVars, runVars, slotVars, pick, draft, api, procVars>>
-----------------------------------------------------------------------------
(* Claiming: while len(_inflight[kind]) < limit, claim_next_job(kind).     *)
Pending(k) == {j \in Jobs : status[j] = "pending" /\ KindOf[j] = k}

\* ORDER BY trigger_type DESC, created_at ASC
Before(i, j) == \/ i \in Manual /\ j \notin Manual
                \/ (i \in Manual <=> j \in Manual) /\ i <= j

SelectNextJob(k) ==
  /\ tick = "claim" /\ k \in todo
  /\ Cardinality(Slots(k)) < Limit[k]
  /\ \E j \in Pending(k) : (\A i \in Pending(k) : Before(j, i)) /\ pick' = j
  /\ tick' = "selected"
  /\ UNCHANGED <<rowVars, runVars, slotVars, todo, draft, api, procVars>>

StopClaiming(k) ==
  /\ tick = "claim" /\ k \in todo
  /\ Cardinality(Slots(k)) >= Limit[k] \/ Pending(k) = {}
  /\ todo' = todo \ {k}
  /\ UNCHANGED <<rowVars, runVars, slotVars, tick, pick, draft, api, procVars>>

\* Mutant: the UPDATE does not ask for status = 'pending' again.
ClaimUnguarded ==
  /\ tick = "selected"
  /\ status' = [status EXCEPT ![pick] = "processing"]
  /\ tick' = "claimed"
  /\ UNCHANGED <<taskCancelled, runVars, slotVars, todo, pick, draft, api, procVars>>

(* UPDATE ... WHERE id = ? AND status = 'pending'; no row: nothing claimed. *)
ClaimUpdate ==
  /\ tick = "selected"
  /\ IF status[pick] = "pending"
       THEN /\ status' = [status EXCEPT ![pick] = "processing"]
            /\ tick' = "claimed"
            /\ UNCHANGED <<todo, pick>>
       ELSE /\ tick' = "claim" /\ todo' = todo \ {KindOf[pick]} /\ pick' = None
            /\ UNCHANGED status
  /\ UNCHANGED <<taskCancelled, runVars, slotVars, draft, api, procVars>>

(* The claimed row belongs to a cancelled task: cancel it, run nothing.    *)
ClaimOfCancelledTask ==
  /\ tick = "claimed" /\ draft = None
  /\ pick \in taskCancelled
  /\ draft' = [job |-> pick, to |-> "cancelled", run |-> None, then |-> "claim"]
  /\ UNCHANGED <<rowVars, runVars, slotVars, tickVars, api, procVars>>

(* asyncio.create_task(self._process(job_id)) and its bookkeeping.         *)
Spawn(r) ==
  /\ tick = "claimed" /\ draft = None
  /\ pick \notin taskCancelled
  /\ phase[r] = "unused"
  /\ phase' = [phase EXCEPT ![r] = "created"]
  /\ job' = [job EXCEPT ![r] = pick]
  /\ inflight' = inflight \cup {r}
  /\ tasksByJob' = [tasksByJob EXCEPT ![pick] = r]
  /\ tick' = "claim" /\ pick' = None
  /\ UNCHANGED <<rowVars, cancelReq, late, todo, draft, api, procVars>>

TickEnd ==
  /\ tick = "claim" /\ todo = {}
  /\ tick' = "idle"
  /\ UNCHANGED <<rowVars, runVars, slotVars, todo, pick, draft, api, procVars>>
-----------------------------------------------------------------------------
(* One job's coroutine: JobWorker._process around process_claimed_job.     *)

\* The coroutine returns or raises: `finally` pops _tasks_by_job by job id.
Leave(r) ==
  /\ phase' = [phase EXCEPT ![r] = "done"]
  /\ tasksByJob' = [tasksByJob EXCEPT ![job[r]] = None]
  /\ cancelReq' = [cancelReq EXCEPT ![r] = "no"]
  /\ late' = late \ {r}
  /\ UNCHANGED <<job, inflight>>

Become(r, p) ==
  /\ phase' = [phase EXCEPT ![r] = p]
  /\ UNCHANGED <<job, cancelReq, late, slotVars>>

\* process_claimed_job and every processor return unless still processing.
Start(r) ==
  /\ LoopFree /\ phase[r] = "created" /\ cancelReq[r] # "now"
  /\ IF status[job[r]] = "processing" THEN Become(r, "working") ELSE Leave(r)
  /\ UNCHANGED <<rowVars, tickVars, draft, api, procVars>>

\* Cancelled before its first step: the body never runs, nothing is popped.
CancelBeforeStart(r) ==
  /\ LoopFree /\ phase[r] = "created" /\ cancelReq[r] # "no"
  /\ phase' = [phase EXCEPT ![r] = "done"]
  /\ cancelReq' = [cancelReq EXCEPT ![r] = "no"]
  /\ late' = late \ {r}
  /\ UNCHANGED <<rowVars, job, slotVars, tickVars, draft, api, procVars>>

(* The processor finishes its work (or catches its failure), re-reads the   *)
(* row, and unless it is cancelled goes on to write the outcome.           *)
Finish(r, outcome) ==
  /\ LoopFree /\ phase[r] = "working" /\ cancelReq[r] # "now"
  /\ IF status[job[r]] = "cancelled"
       THEN Become(r, "notify") /\ UNCHANGED draft
       ELSE /\ draft' = [job |-> job[r], to |-> outcome, run |-> r,
                         then |-> IF outcome = "completed" THEN "tail" ELSE "notify"]
            /\ UNCHANGED <<runVars, slotVars>>
  /\ UNCHANGED <<rowVars, tickVars, api, procVars>>

\* The processor's own error handling raises: _process will catch it.
Raise(r) ==
  /\ LoopFree /\ phase[r] = "working" /\ cancelReq[r] # "now"
  /\ Become(r, "errnotify")
  /\ UNCHANGED <<rowVars, tickVars, draft, api, procVars>>

TailEnd(r) ==
  /\ LoopFree /\ phase[r] = "tail" /\ cancelReq[r] # "now"
  /\ Become(r, "notify")
  /\ UNCHANGED <<rowVars, tickVars, draft, api, procVars>>

Exit(r) ==
  /\ LoopFree /\ phase[r] = "notify"
  /\ Leave(r)
  /\ UNCHANGED <<rowVars, tickVars, draft, api, procVars>>

(* _process: except Exception -> fail_job_from_worker.                     *)
FailJobFromWorker(r) ==
  /\ LoopFree /\ phase[r] = "errnotify" /\ cancelReq[r] # "now"
  /\ IF status[job[r]] \in {"pending", "processing"}
       THEN /\ draft' = [job |-> job[r], to |-> "failed", run |-> r, then |-> "exit"]
            /\ UNCHANGED <<runVars, slotVars>>
       ELSE Leave(r) /\ UNCHANGED draft
  /\ UNCHANGED <<rowVars, tickVars, api, procVars>>

\* Mutant: the handler of CancelledError forgets the job id, before `finally`.
UnwindForgets(r) ==
  /\ LoopFree /\ phase[r] \in Live \ {"created"} /\ cancelReq[r] # "no"
  /\ IF phase[r] \in {"working", "tail"}
       THEN /\ phase' = [phase EXCEPT ![r] = "notify"]
            /\ cancelReq' = [cancelReq EXCEPT ![r] = "no"]
            /\ tasksByJob' = [tasksByJob EXCEPT ![job[r]] = None]
            /\ UNCHANGED <<job, late, inflight>>
       ELSE Leave(r)
  /\ UNCHANGED <<rowVars, tickVars, draft, api, procVars>>

(* CancelledError is raised at the await the coroutine is suspended in: no  *)
(* handler writes the row, only the `finally` clauses run.                 *)
Unwind(r) ==
  /\ LoopFree /\ phase[r] \in Live \ {"created"} /\ cancelReq[r] # "no"
  /\ IF phase[r] \in {"working", "tail"}
       THEN /\ phase' = [phase EXCEPT ![r] = "notify"]
            /\ cancelReq' = [cancelReq EXCEPT ![r] = "no"]
            /\ UNCHANGED <<job, late, slotVars>>
       ELSE Leave(r)
  /\ UNCHANGED <<rowVars, tickVars, draft, api, procVars>>

(* A coroutine still running passes JOB_MAX_RUNTIME_SECONDS.               *)
RunLate(r) ==
  /\ LoopFree /\ phase[r] \in Live
  /\ late' = late \cup {r}
  /\ UNCHANGED <<rowVars, phase, job, cancelReq, slotVars, tickVars, draft, api, procVars>>
-----------------------------------------------------------------------------
(* What the writer of an event-loop write does once it is committed.       *)
AfterDraft ==
  /\ draft' = None
  /\ CASE draft.then \in {"tail", "notify"} ->
            Become(draft.run, draft.then) /\ UNCHANGED tickVars
       [] draft.then = "exit" -> Leave(draft.run) /\ UNCHANGED tickVars
       [] draft.then = "cut" ->
            CancelNow({draft.run}) /\ UNCHANGED <<phase, job, late, slotVars, tickVars>>
       [] OTHER -> /\ tick' = "claim" /\ pick' = None
                   /\ todo' = todo \ {KindOf[draft.job]}
                   /\ UNCHANGED <<runVars, slotVars>>
  /\ UNCHANGED <<taskCancelled, api, procVars>>

Commit(j) ==
  /\ draft # None /\ draft.job = j
  /\ status' = [status EXCEPT ![j] = draft.to]
  /\ AfterDraft

(* fail_job_from_worker logs a commit that fails, and its caller carries on. *)
PersistFails ==
  /\ draft # None /\ draft.then \in {"exit", "cut"}
  /\ UNCHANGED status
  /\ AfterDraft
-----------------------------------------------------------------------------
(* Threadpool handlers: cancel_job, pause_job, resume_job and               *)
(* cancel_localization_task.  First the read and the check ...             *)
ApiRead(t, op, j) ==
  /\ proc # "down" /\ api[t] = IdleThread
  /\ CASE op = "cancel" -> status[j] \in Open
       [] op = "pause"  -> status[j] = "pending"
       [] op = "resume" -> status[j] = "paused"
       [] OTHER         -> j \notin taskCancelled
  /\ api' = [api EXCEPT ![t] = [op |-> op, job |-> j, at |-> "write",
                                open |-> status[j] \in Open]]
  /\ UNCHANGED <<rowVars, runVars, slotVars, tickVars, draft, procVars>>

Written == [cancel |-> "cancelled", cancelTask |-> "cancelled",
            pause |-> "paused", resume |-> "pending"]

(* ... then the write, whatever the row has become meanwhile ...           *)
ApiWrite(t) ==
  LET a == api[t] IN
  /\ a.at = "write"
  /\ status' = IF a.open THEN [status EXCEPT ![a.job] = Written[a.op]] ELSE status
  /\ taskCancelled' = IF a.op = "cancelTask" THEN taskCancelled \cup {a.job}
                                             ELSE taskCancelled
  /\ api' = [api EXCEPT ![t] = IF a.op \in {"cancel", "cancelTask"}
                                 THEN [a EXCEPT !.at = "signal"] ELSE IdleThread]
  /\ UNCHANGED <<runVars, slotVars, tickVars, draft, procVars>>

(* ... and after a cancel, worker.cancel_job: call_soon_threadsafe on the   *)
(* coroutine _tasks_by_job names, if there is one and it is not done.      *)
ApiSignal(t) ==
  LET a == api[t]
      r == tasksByJob[a.job] IN
  /\ a.at = "signal"
  /\ cancelReq' = IF /\ r \in LiveRuns /\ cancelReq[r] = "no"
                     /\ a.op = "cancel" \/ status[a.job] = "cancelled"
                    THEN [cancelReq EXCEPT ![r] = "soon"] ELSE cancelReq
  /\ api' = [api EXCEPT ![t] = IdleThread]
  /\ UNCHANGED <<rowVars, phase, job, late, slotVars, tickVars, draft, procVars>>
-----------------------------------------------------------------------------
(* The process: crash at any moment, graceful stop, and start.             *)
MemoryLost ==
  /\ phase' = [r \in Runs |-> "unused"]
  /\ job' = [r \in Runs |-> None]
  /\ cancelReq' = [r \in Runs |-> "no"]
  /\ late' = {}
  /\ tasksByJob' = [j \in Jobs |-> None]
  /\ inflight' = {}
  /\ tick' = "idle" /\ todo' = {} /\ pick' = None
  /\ draft' = None
  /\ api' = [t \in Threads |-> IdleThread]
  /\ proc' = "down"

Crash ==
  /\ proc # "down" /\ restarts < MaxRestarts
  /\ MemoryLost
  /\ UNCHANGED <<rowVars, restarts>>

\* worker.stop: the running tick ends, every known coroutine is cancelled ...
StopBegin ==
  /\ proc = "up" /\ restarts < MaxRestarts
  /\ proc' = "stopping"
  /\ UNCHANGED <<rowVars, runVars, slotVars, tickVars, draft, api, restarts>>

StopCancelsTasks ==
  /\ proc = "stopping" /\ tick = "idle" /\ draft = None
  /\ CancelNow({tasksByJob[j] : j \in Jobs})
  /\ proc' = "draining"
  /\ UNCHANGED <<rowVars, phase, job, late, slotVars, tickVars, draft, api, restarts>>

\* ... and gathered, and the process ends.
StopEnd ==
  /\ proc = "draining" /\ draft = None
  /\ \A j \in Jobs : tasksByJob[j] \notin LiveRuns
  /\ MemoryLost
  /\ UNCHANGED <<rowVars, restarts>>

\* Mutant: jobs the watchdog or a shutdown made fail are tried again.
BootRetriesFailed ==
  /\ proc = "down"
  /\ status' = [j \in Jobs |-> IF status[j] \in {"processing", "failed"}
                                THEN "pending" ELSE status[j]]
  /\ proc' = "up" /\ restarts' = restarts + 1
  /\ UNCHANGED <<taskCancelled, runVars, slotVars, tickVars, draft, api>>

\* worker.start: recover_interrupted_jobs.
Boot ==
  /\ proc = "down"
  /\ status' = [j \in Jobs |-> IF status[j] = "processing" THEN "pending" ELSE status[j]]
  /\ proc' = "up" /\ restarts' = restarts + 1
  /\ UNCHANGED <<taskCancelled, runVars, slotVars, tickVars, draft, api>>
-----------------------------------------------------------------------------
Tick ==
  \/ TickBegin \/ ReconcileCancelledSlots
  \/ \E j \in Jobs : CancelOverdueJob(j)
  \/ OverdueEnd \/ ReplanEnd \/ RecoverOrphanedJobs \/ OrphanRecoveryFails
  \/ \E k \in Kinds : SelectNextJob(k) \/ StopClaiming(k)
  \/ ClaimUpdate \/ ClaimOfCancelledTask
  \/ \E r \in Runs : Spawn(r)
  \/ TickEnd

\* The steps a coroutine is certain to take: everything but `working` ends.
Advance(r) ==
  Start(r) \/ CancelBeforeStart(r) \/ TailEnd(r) \/ Exit(r)
    \/ FailJobFromWorker(r) \/ Unwind(r)

Run(r) ==
  Advance(r) \/ Raise(r) \/ RunLate(r) \/ \E o \in {"completed", "failed"} : Finish(r, o)

Handler(t) == ApiWrite(t) \/ ApiSignal(t)

Next ==
  \/ \E j \in Jobs : CreateJob(j)
  \/ Tick
  \/ \E r \in Runs : Run(r)
  \/ PersistFails \/ \E j \in Jobs : Commit(j)
  \/ \E t \in Threads : Handler(t) \/ \E op \in Ops, j \in Jobs : ApiRead(t, op, j)
  \/ Crash \/ StopBegin \/ StopCancelsTasks \/ StopEnd \/ Boot

Spec == Init /\ [][Next]_vars

(* Fairness: the worker loop keeps ticking and awaits nothing for ever; a    *)
(* coroutine that is ready is resumed between two ticks (asyncio's ready     *)
(* queue is FIFO), hence strong fairness; runtimes pass their limit; the     *)
(* database does not refuse the same write for ever; a handler that has      *)
(* read the row finishes.  Nothing is assumed of a processor's own work      *)
(* (Finish, Raise: it may hang), nor of users.                               *)
Fairness ==
  /\ WF_vars(Tick)
  /\ SF_vars(RecoverOrphanedJobs)
  /\ \A j \in Jobs : SF_vars(Commit(j))
  /\ WF_vars(PersistFails \/ \E j \in Jobs : Commit(j))
  /\ \A r \in Runs : SF_vars(Advance(r)) /\ SF_vars(RunLate(r))
  /\ \A t \in Threads : WF_vars(Handler(t))
  /\ WF_vars(StopCancelsTasks) /\ WF_vars(StopEnd) /\ WF_vars(Boot)

FairSpec == Spec /\ Fairness
-----------------------------------------------------------------------------
(* Properties.                                                             *)

\* Concurrency limit (JobWorker._tick): the coroutines alive for a kind never
\* exceed its limit, cancelled and unwinding ones included, although
\* _tasks_by_job may forget a coroutine before it has ended.
SlotLimit ==
  \A k \in Kinds : Cardinality({r \in LiveRuns : KindOf[job[r]] = k}) <= Limit[k]

\* A job is executed by at most one coroutine at a time, through orphan
\* recovery, watchdog, cancellation and restarts (_tasks_by_job, keyed by job).
NoDoubleRun == \A r, s \in LiveRuns : job[r] = job[s] => r = s

\* Orphan recovery and restart put a job back in the queue only when no
\* coroutine is still executing it.
RequeueOnlyAbandoned ==
  [][\A j \in Jobs : status[j] = "processing" /\ status'[j] = "pending"
                        => RunsOf(j) = {}]_vars

\* A job that was completed, failed or cancelled never returns to the queue
\* or to execution: no claim, recovery or stale write re-opens it.
FinishedStaysFinished ==
  [][\A j \in Jobs : status[j] \in Terminal => status'[j] \in Terminal]_vars

\* The worker and its handlers implement the abstract queue: a job is "busy"
\* from its claim until the coroutine created for it is done.
AbstractStage ==
  [j \in Jobs |-> CASE status[j] = "absent" -> "none"
                    [] status[j] \in {"pending", "paused"} -> "queued"
                    [] status[j] = "processing" -> "running"
                    [] OTHER -> "settled"]
AbstractBusy ==
  {j \in Jobs : RunsOf(j) # {} \/ (tick = "claimed" /\ pick = j)}

Queue == INSTANCE JobQueue WITH stage <- AbstractStage, busy <- AbstractBusy
ImplementsJobQueue == Queue!Spec

(* The inductive strengthenings of SlotLimit and NoDoubleRun.              *)

\* Which loop position an uncommitted write belongs to, and whose it is.
DraftInv ==
  draft # None =>
    /\ draft.then \in {"tail", "notify", "exit"} => tick \in {"idle", "replan"}
    /\ draft.then = "cut" => tick = "overdue"
    /\ draft.then = "claim" => tick = "claimed" /\ pick = draft.job
    /\ draft.then # "claim" => draft.run \in LiveRuns

\* A coroutine occupies a slot until it is pruned, and a job is only selected
\* for a kind that has a slot left.
SlotInv ==
  /\ LiveRuns \subseteq inflight
  /\ \A k \in Kinds : Cardinality(Slots(k)) <= Limit[k]
  /\ tick \in {"selected", "claimed"} =>
       Cardinality(Slots(KindOf[pick])) < Limit[KindOf[pick]]

\* _tasks_by_job names every living coroutine, and a job that may be claimed
\* (or that is claimed and about to get its coroutine) has none.
OwnInv ==
  /\ \A r \in LiveRuns : tasksByJob[job[r]] = r
  /\ \A j \in Jobs : status[j] \in {"absent", "pending"} => RunsOf(j) = {}
  /\ tick = "claimed" =>
       RunsOf(pick) = {} /\ status[pick] \notin {"absent", "pending"}
  /\ proc = "down" => LiveRuns = {} /\ tick = "idle"

\* With cancellation the only handler, nothing is paused or about to be.
CancelOnlyInv ==
  /\ \A j \in Jobs : status[j] # "paused"
  /\ \A t \in Threads : api[t].op \in {"cancel", "cancelTask", None}

\* What the proofs of SlotLimit and NoDoubleRun carry along.
SlotIInv == TypeOK /\ DraftInv /\ SlotInv
OwnIInv == TypeOK /\ DraftInv /\ OwnInv /\ CancelOnlyInv

\* A row is only paused while it is pending (pause_job_row: "Only pending jobs
\* can be paused").
PauseOnlyPending ==
  [][\A j \in Jobs : status'[j] = "paused" => status[j] \in {"pending", "paused"}]_vars

\* A row is only cancelled while it is open (cancel_job_row: "Only pending,
\* processing, or paused jobs can be cancelled").
CancelOnlyOpen ==
  [][\A j \in Jobs : status'[j] = "cancelled" => status[j] \in Open \cup {"cancelled"}]_vars

\* A coroutine that hangs is freed by the watchdog: no coroutine lives for ever.
EveryRunEnds == \A r \in Runs : r \in LiveRuns ~> r \notin LiveRuns

\* Every pending job is claimed or cancelled in the end, and no row stays in
\* processing, whatever hangs, fails or restarts before it in the queue.
EveryJobServed ==
  \A j \in Jobs, open \in {"pending", "processing"} : status[j] = open ~> status[j] # open
=============================================================================
