---------------------------- MODULE TaskPlanner ----------------------------
(***************************************************************************)
(* One localization task (subtitles of one language for one media item):   *)
(* its state machine (backend/app/localization/state.py, service.py), the  *)
(* planner that advances it (localization/planner.py, TaskPlanner.plan) and *)
(* the jobs the planner creates (create_* of jobs/service.py).             *)
(*                                                                         *)
(* plan() is called by the worker's tick, by a job's coroutine when it     *)
(* ends, and by API handlers: several calls are under way at one time, all *)
(* on one event loop.  At an await a call gives the loop up; between two   *)
(* awaits it holds it (`turn`).  cancel() runs on a threadpool thread, so   *)
(* it comes even between the check of a transition and its commit          *)
(* (`draft`).  The worker that runs the jobs is module JobWorker; here a    *)
(* job starts and ends in one step each.                                   *)
(***************************************************************************)
EXTENDS Integers, Sequences, FiniteSets

CONSTANTS
  Planners,       \* calls of plan() that may be under way at one time
  Cases,          \* the tasks considered: a subset of AllCases
  VerifyMax,      \* VERIFY_MAX_ATTEMPTS
  EnqueueMax,     \* SOURCE_ENQUEUE_MAX_ATTEMPTS
  Sources,        \* whether a source lies beside the media at first: subset of BOOLEAN
  Events,         \* what users and time may do: a subset of AllEvents
  MaxJobs,        \* bound on the job rows
  MaxFutile,      \* bound on the jobs cancelled, and the requests that come to nothing
  MaxRetries,     \* bound on the retries users ask for
  None            \* Python's None

\* What is given for a task: its media has an extractable subtitle stream, Bazarr
\* can be asked to search for a source, the audio can be transcribed, another
\* job has translated an identical source already, the origin is "manual".
AllCases == [embedded : BOOLEAN, requestable : BOOLEAN, transcribable : BOOLEAN,
             cached : BOOLEAN, manual : BOOLEAN]
AllEvents == {"cancel", "cancelJob", "source", "target", "cooldown"}
Kinds == {"extract", "request", "transcribe", "translate"}

ASSUME TaskPlannerAssumption ==
  /\ Cases \subseteq AllCases
  /\ Sources \subseteq BOOLEAN
  /\ VerifyMax \in Nat \ {0} /\ EnqueueMax \in Nat \ {0}
  /\ Events \subseteq AllEvents
  /\ MaxJobs \in Nat /\ MaxFutile \in Nat /\ MaxRetries \in Nat

VARIABLES
  \* what is given, which never changes
  given,
  \* the task row, and its metadata
  status, verifies, due, enqueues,
  \* the job rows, and the not_found cooldown of the candidate
  jobs, cooling,
  \* the world: a source file and the target file beside the media, and
  \* whether Bazarr lists the target
  srt, target, bazarr,
  \* the calls of plan(): where each is, its source snapshot, the loop's
  \* holder and its decided, uncommitted transition
  at, snap, turn, draft,
  \* the thread in cancel(), and the retries so far
  cancelling, retries

taskVars  == <<status, verifies, due, enqueues>>
jobVars   == <<jobs, cooling>>
worldVars == <<srt, target, bazarr>>
planVars  == <<at, snap, turn, draft>>
userVars  == <<cancelling, retries, given>>
vars == <<taskVars, jobVars, worldVars, planVars, userVars>>
-----------------------------------------------------------------------------
Active == {"requested", "planning", "waiting_for_source", "processing", "verifying"}
TaskStatuses == Active \cup {"completed", "failed", "blocked", "cancelled"}

\* ALLOWED_TRANSITIONS
Allowed ==
  [requested |-> {"planning", "waiting_for_source", "processing", "verifying",
                  "completed", "cancelled", "blocked"},
   planning |-> {"waiting_for_source", "processing", "verifying", "completed",
                 "blocked", "failed", "cancelled"},
   waiting_for_source |-> {"planning", "processing", "completed", "failed",
                           "cancelled", "blocked"},
   processing |-> {"verifying", "waiting_for_source", "failed", "cancelled", "completed"},
   verifying |-> {"completed", "failed", "cancelled", "processing"},
   completed |-> {},
   failed |-> {"planning", "requested", "completed"},
   blocked |-> {"planning", "requested", "completed"},
   cancelled |-> {}]

OpenStatuses == {"pending", "processing"}
JobStatuses == OpenStatuses \cup
  {"completed", "failed", "cancelled", "skipped", "not_found"}

Awaits == {"reviving", "checking", "resolving", "resolved", "candidate", "exists",
           "rescan", "recheck", "finishing", "extract", "request", "gate", "denied"}
Holding == {"look", "write", "translate"}
Places == {"idle"} \cup Awaits \cup Holding

\* enqueuing: the call is inside the try of create_job.
Snapshots == [exists : BOOLEAN, translate : BOOLEAN, extract : BOOLEAN, request : BOOLEAN,
              enqueuing : BOOLEAN]
NoSnapshot == [exists |-> FALSE, translate |-> FALSE, extract |-> FALSE, request |-> FALSE,
               enqueuing |-> FALSE]

JobRows == [kind : Kinds, status : JobStatuses, attached : BOOLEAN]
Drafts == [to : TaskStatuses, then : Places \ {"write"}]
Cancels == [jobs : SUBSET (1..MaxJobs), task : BOOLEAN]

ASSUME NoneAssumption == None \notin Planners /\ None \notin Drafts /\ None \notin Cancels

TaskOK ==
  /\ status \in TaskStatuses
  /\ verifies \in 0..(VerifyMax + 1) /\ enqueues \in 0..EnqueueMax
  /\ due \in BOOLEAN

JobsOK == jobs \in Seq(JobRows) /\ Len(jobs) <= MaxJobs /\ cooling \in BOOLEAN

WorldOK == srt \in BOOLEAN /\ target \in BOOLEAN /\ bazarr \in BOOLEAN

CallsOK ==
  /\ at \in [Planners -> Places]
  /\ snap \in [Planners -> Snapshots]
  /\ turn \in Planners \cup {None}
  /\ draft \in Drafts \cup {None}
  /\ \A p \in Planners : at[p] \in Holding <=> turn = p
  /\ \A p \in Planners : at[p] = "write" => draft # None
  /\ draft # None => \E p \in Planners : at[p] = "write"

UsersOK ==
  /\ cancelling \in Cancels \cup {None}
  /\ retries \in 0..MaxRetries /\ given \in Cases

TypeOK == TaskOK /\ JobsOK /\ WorldOK /\ CallsOK /\ UsersOK

OpenJobs == {i \in DOMAIN jobs : jobs[i].status \in OpenStatuses}
OpenOf(k) == {i \in OpenJobs : jobs[i].kind = k}
Attached(k) == {i \in DOMAIN jobs : jobs[i].attached /\ jobs[i].kind = k}

\* _latest_job(task.id, k) exists and has one of these statuses.
LatestIs(k, ss) ==
  \E i \in Attached(k) : jobs[i].status \in ss /\ \A j \in Attached(k) : j <= i
Done(k) == LatestIs(k, {"completed"})

Init ==
  /\ given \in Cases
  /\ status = "requested" /\ verifies = 0 /\ due = TRUE /\ enqueues = 0
  /\ jobs = <<>> /\ cooling = FALSE
  /\ srt \in Sources /\ target = FALSE /\ bazarr = FALSE
  /\ at = [p \in Planners |-> "idle"]
  /\ snap = [p \in Planners |-> NoSnapshot]
  /\ turn = None /\ draft = None
  /\ cancelling = None /\ retries = 0
-----------------------------------------------------------------------------
(* How a call of plan() goes on.                                           *)
GoWith(p, place, snapshot) ==
  /\ at' = [at EXCEPT ![p] = place]
  /\ turn' = IF place \in Holding THEN p ELSE None
  /\ draft' = None
  /\ snap' = [snap EXCEPT ![p] = snapshot]

Go(p, place) == GoWith(p, place, IF place = "idle" THEN NoSnapshot ELSE snap[p])

\* Decided, but not committed yet.
Decided(p, to, then) ==
  /\ at' = [at EXCEPT ![p] = "write"]
  /\ turn' = p
  /\ draft' = [to |-> to, then |-> then]
  /\ UNCHANGED snap

\* The exception of a refused transition: the callers of plan() log it; the try
\* around create_job fails the task, if the table allows that.
Raise(p) ==
  IF snap[p].enqueuing /\ "failed" \in Allowed[status]
    THEN Decided(p, "failed", "idle") ELSE Go(p, "idle")

\* Mutant: a transition that is not checked against the table.
TransitionUnchecked(p, to, then) ==
  IF status = to THEN Go(p, then) ELSE Decided(p, to, then)

(* LocalizationTaskService.transition: assert_transition, then the write.    *)
(* An unchanged status is not written.                                     *)
Transition(p, to, then) ==
  CASE status = to -> Go(p, then)
    [] status # to /\ to \in Allowed[status] -> Decided(p, to, then)
    [] OTHER -> Raise(p)

Write(p) ==
  /\ turn = p /\ at[p] = "write"
  /\ status' = draft.to
  /\ Go(p, draft.then)
  /\ UNCHANGED <<verifies, due, enqueues, jobVars, worldVars, userVars>>

\* A coroutine suspended at `place` is resumed.
Resumed(p, place) == turn = None /\ at[p] = place

(* _sync_status_from_job                                                   *)
SyncStatusFromJob(p) ==
  IF status \in Active THEN Transition(p, "processing", "idle") ELSE Go(p, "idle")

(* plan: a failed or blocked task is only looked at for a target that has   *)
(* appeared; a requested one is set to planning.                           *)
Begin(p) ==
  /\ Resumed(p, "idle")
  /\ CASE status \in {"failed", "blocked"} -> Go(p, "reviving")
       [] status = "requested" -> Transition(p, "planning", "look")
       [] status \in Active \ {"requested"} -> Go(p, "look")
       [] OTHER -> FALSE
  /\ UNCHANGED <<taskVars, jobVars, worldVars, userVars>>

\* An open job of the task: wait for it.
Look(p) ==
  /\ turn = p /\ at[p] = "look"
  /\ IF \E i \in OpenJobs : jobs[i].attached
       THEN SyncStatusFromJob(p) ELSE Go(p, "checking")
  /\ UNCHANGED <<taskVars, jobVars, worldVars, userVars>>

\* Mutant: the file beside the media is enough.
AnswersOfDisk == {target, bazarr, FALSE}

(* _target_satisfied: what Bazarr answers; an error counts as "absent".     *)
Answers == {bazarr, FALSE}

Revive(p) ==
  /\ Resumed(p, "reviving")
  /\ \E present \in Answers :
       IF present
         THEN Transition(p, "completed", "idle") /\ verifies' = 0 /\ due' = TRUE
         ELSE Go(p, "idle") /\ UNCHANGED <<verifies, due>>
  /\ UNCHANGED <<status, enqueues, jobVars, worldVars, userVars>>

\* The target is there: an extracted source goes first, then the task completes.
Extracted == \E i \in Attached("extract") : jobs[i].status = "completed"

Complete(p, discard) ==
  /\ verifies' = 0 /\ due' = TRUE
  /\ IF srt /\ Extracted /\ discard
       THEN srt' = FALSE /\ Go(p, "finishing")
       ELSE UNCHANGED srt /\ Transition(p, "completed", "idle")

Finish(p) ==
  /\ Resumed(p, "finishing")
  /\ Transition(p, "completed", "idle")
  /\ UNCHANGED <<taskVars, jobVars, worldVars, userVars>>
-----------------------------------------------------------------------------
(* Verification: _needs_verify, _advance_verify, _record_verify_failure.     *)
NeedsVerify == status = "verifying" \/ (Done("translate") /\ target)

AdvanceVerify(p) == Transition(p, "verifying", "rescan")

\* attempts is counted without a limit in the code; the model caps it.
RecordVerifyFailure(p) ==
  LET attempts == verifies + 1 IN
  /\ verifies' = IF attempts > VerifyMax + 1 THEN verifies ELSE attempts
  /\ due' = FALSE
  /\ Transition(p, IF attempts >= VerifyMax THEN "blocked" ELSE "verifying", "idle")

\* Bazarr rescans (or fails to) and may list the target from then on.
Rescan(p) ==
  /\ Resumed(p, "rescan")
  /\ bazarr' \in {bazarr, bazarr \/ target}
  /\ \E ok \in {bazarr', FALSE} :
       IF ok THEN verifies' = 0 /\ due' = TRUE /\ Go(p, "recheck")
             ELSE RecordVerifyFailure(p)
  /\ UNCHANGED <<status, enqueues, jobVars, srt, target, userVars>>

Recheck(p) ==
  /\ Resumed(p, "recheck")
  /\ \E present \in Answers :
       IF present THEN Complete(p, TRUE) ELSE RecordVerifyFailure(p) /\ UNCHANGED srt
  /\ UNCHANGED <<status, enqueues, jobVars, target, bazarr, userVars>>

\* RETRY: the back-off of the last failed verification has passed.
VerifyDue ==
  /\ ~due /\ due' = TRUE
  /\ UNCHANGED <<status, verifies, enqueues, jobVars, worldVars, planVars, userVars>>

(* plan after its first await: verify, fail, or look for a source.          *)
FailedStep == \E k \in {"translate", "extract", "transcribe"} : LatestIs(k, {"failed"})

Check(p) ==
  /\ Resumed(p, "checking")
  /\ \E present \in Answers :
       IF present THEN Complete(p, Done("translate") /\ target)
       ELSE /\ UNCHANGED <<verifies, due, srt>>
            /\ CASE NeedsVerify -> IF due THEN AdvanceVerify(p) ELSE Go(p, "idle")
                 [] ~NeedsVerify /\ FailedStep /\ status # "planning" ->
                      Transition(p, "failed", "idle")
                 [] OTHER -> Go(p, "resolving")
  /\ UNCHANGED <<status, enqueues, jobVars, target, bazarr, userVars>>
-----------------------------------------------------------------------------
(* Sources: _resolve_source_snapshot, which awaits Bazarr and the probe, so  *)
(* that the snapshot is old when it is used.                               *)
Resolve(p) ==
  /\ Resumed(p, "resolving")
  /\ \E present \in Answers :
       GoWith(p, "resolved",
         [exists    |-> target \/ present,
          translate |-> srt,
          extract   |-> ~srt /\ given.embedded,
          request   |-> ~srt /\ ~given.embedded /\ given.requestable,
          enqueuing |-> FALSE])
  /\ UNCHANGED <<taskVars, jobVars, worldVars, userVars>>

\* _prefer_completed_extract, _transcribe and _request correct the snapshot.
SourceWritten == srt /\ \E k \in Kinds \ {"translate"} : Done(k)
CanTranslate(p) == snap[p].translate \/ SourceWritten
CanExtract(p) == snap[p].extract /\ ~SourceWritten /\ ~Done("extract")
CanRequest(p) ==
  snap[p].request /\ (Done("request") => status = "planning" /\ ~CanTranslate(p))

\* An open job of the same candidate that belongs to no task.
Orphans == {i \in OpenJobs : ~jobs[i].attached}

\* _bind_task_id and attach_job: only an active task takes a job.
Bind(i) == jobs' = [jobs EXCEPT ![i].attached = @ \/ status \in Active]
NewJob(k, s) == [kind |-> k, status |-> s, attached |-> status \in Active]

\* Mutant: every call inserts a row.
InsertJob(k) == Len(jobs) < MaxJobs /\ jobs' = Append(jobs, NewJob(k, "pending"))

(* The create_* methods: an open job of the kind is reused.                 *)
CreateJob(k) ==
  IF OpenOf(k) # {} THEN \E i \in OpenOf(k) : Bind(i)
  ELSE Len(jobs) < MaxJobs /\ jobs' = Append(jobs, NewJob(k, "pending"))

\* A row that says why nothing is done; a row like the last one is left out.
Skip(k) ==
  IF LatestIs(k, {"skipped"}) THEN UNCHANGED jobs
  ELSE Len(jobs) < MaxJobs /\ jobs' = Append(jobs, NewJob(k, "skipped"))
-----------------------------------------------------------------------------
(* No source: _after_source_not_found, _source_enqueue_failure, waiting.     *)
\* Mutant: nothing is said of the task when no source is found.
GiveUpSilently(p) == Go(p, "idle")

GiveUp(p) ==
  Transition(p, IF given.manual /\ status # "planning" THEN "failed" ELSE "waiting_for_source",
             "idle")

AfterSourceNotFound(p) ==
  CASE Attached("transcribe") # {} ->
         IF LatestIs("transcribe", OpenStatuses) THEN SyncStatusFromJob(p) ELSE GiveUp(p)
    [] Attached("transcribe") = {} /\ OpenOf("transcribe") # {} -> GiveUp(p)
    [] OTHER ->
         Go(p, IF given.transcribable /\ ~given.embedded /\ ~srt /\ ~target THEN "gate" ELSE "denied")

\* After the request branch: it was not taken, or extract could not be queued.
NoSource(p) ==
  IF \/ LatestIs("request", {"not_found"})
     \/ Done("request") /\ ~CanTranslate(p) /\ ~CanRequest(p)
    THEN AfterSourceNotFound(p)
    ELSE Transition(p, "waiting_for_source", "idle")

RequestSource(p) ==
  CASE ~CanRequest(p) -> NoSource(p)
    [] CanRequest(p) /\ cooling /\ status # "planning" -> AfterSourceNotFound(p)
    [] OTHER -> Transition(p, "processing", "request")

(* plan after the snapshot: what to do next.                               *)
Decide(p) ==
  /\ Resumed(p, "resolved")
  /\ CASE snap[p].exists -> Go(p, "exists") /\ UNCHANGED jobs
       [] ~snap[p].exists /\ Orphans # {} ->
            (\E i \in Orphans : Bind(i)) /\ SyncStatusFromJob(p)
       [] OTHER ->
            /\ UNCHANGED jobs
            /\ CASE CanTranslate(p) -> Transition(p, "processing", "translate")
                 [] ~CanTranslate(p) /\ CanExtract(p) -> Transition(p, "processing", "extract")
                 [] OTHER -> RequestSource(p)
  /\ UNCHANGED <<taskVars, cooling, worldVars, userVars>>

\* target_exists: complete if Bazarr knows, else let it rescan.
Exists(p) ==
  /\ Resumed(p, "exists")
  /\ \E present \in Answers :
       IF present THEN Transition(p, "completed", "idle") ELSE AdvanceVerify(p)
  /\ UNCHANGED <<taskVars, jobVars, worldVars, userVars>>

\* Mutant: the target is not looked at again.
TranslateRowUnchecked(p) ==
  IF given.cached /\ OpenOf("translate") = {} THEN Skip("translate") /\ Go(p, "idle")
  ELSE CreateJob("translate") /\ Go(p, "idle")

(* create_job: a target on disk, an open job, an identical translation, a     *)
(* new row.                                                                *)
TranslateRow(p) ==
  CASE target -> Skip("translate") /\ GoWith(p, "exists", [snap[p] EXCEPT !.enqueuing = TRUE])
    [] ~target /\ given.cached /\ OpenOf("translate") = {} -> Skip("translate") /\ Go(p, "idle")
    [] OTHER -> CreateJob("translate") /\ Go(p, "idle")

\* It awaits the candidate list when the source is not on disk any more.
CreateTranslate(p) ==
  /\ turn = p /\ at[p] = "translate"
  /\ IF srt THEN TranslateRow(p) ELSE Go(p, "candidate") /\ UNCHANGED jobs
  /\ UNCHANGED <<taskVars, cooling, worldVars, userVars>>

CandidateAnswered(p) ==
  /\ Resumed(p, "candidate")
  /\ IF srt THEN TranslateRow(p) ELSE Transition(p, "failed", "idle") /\ UNCHANGED jobs
  /\ UNCHANGED <<taskVars, cooling, worldVars, userVars>>

\* create_extract_job awaits the candidate list, then looks at the disk.
CreateExtract(p) ==
  /\ Resumed(p, "extract")
  /\ \/ /\ IF srt THEN Skip("extract") ELSE CreateJob("extract")
        /\ Go(p, "idle")
     \/ RequestSource(p) /\ UNCHANGED jobs    \* candidate gone, or Bazarr silent
  /\ UNCHANGED <<taskVars, cooling, worldVars, userVars>>

\* create_request_subtitle_job awaits the candidate list too.
CreateRequest(p) ==
  /\ Resumed(p, "request")
  /\ CreateJob("request") /\ enqueues' = 0 /\ Go(p, "idle")
  /\ UNCHANGED <<status, verifies, due, cooling, worldVars, userVars>>

SourceEnqueueFailure(p) ==
  /\ Resumed(p, "request")
  /\ enqueues' = IF enqueues < EnqueueMax THEN enqueues + 1 ELSE enqueues
  /\ Transition(p, IF enqueues + 1 >= EnqueueMax THEN "failed" ELSE "waiting_for_source",
                "idle")
  /\ UNCHANGED <<status, verifies, due, jobVars, worldVars, userVars>>

\* transcribe_gate_for_media reads the disk, then awaits the probe.
GateDenied(p) ==
  /\ Resumed(p, "denied")
  /\ GiveUp(p)
  /\ UNCHANGED <<taskVars, jobVars, worldVars, userVars>>

\* The row comes before the transition; the media may have become unreadable.
CreateTranscribe(p) ==
  /\ Resumed(p, "gate")
  /\ \/ CreateJob("transcribe") /\ Transition(p, "processing", "idle")
     \/ UNCHANGED jobs /\ GiveUp(p)
  /\ UNCHANGED <<taskVars, cooling, worldVars, userVars>>
-----------------------------------------------------------------------------
(* The jobs, as JobWorker runs them.  claim_next_job cancels a job whose     *)
(* task is cancelled.                                                      *)
StartJob(i) ==
  /\ turn = None /\ i \in DOMAIN jobs /\ jobs[i].status = "pending"
  /\ jobs' = [jobs EXCEPT ![i].status =
       IF jobs[i].attached /\ status = "cancelled" THEN "cancelled" ELSE "processing"]
  /\ UNCHANGED <<taskVars, cooling, worldVars, planVars, userVars>>

\* The planner makes up for such a job by a new one, again and again: bounded.
Futile(i) ==
  \/ jobs[i].status = "cancelled"
  \/ jobs[i].kind = "request" /\ jobs[i].status \in {"failed", "not_found"}

MayBeFutile == Cardinality({i \in DOMAIN jobs : Futile(i)}) < MaxFutile

EndJob(i, s) == jobs' = [jobs EXCEPT ![i].status = s]

JobCompletes(i) ==
  /\ turn = None /\ i \in DOMAIN jobs /\ jobs[i].status = "processing"
  /\ jobs[i].kind = "translate" => ~target    \* write_srt_atomic, overwrite=False
  /\ EndJob(i, "completed")
  /\ target' = (target \/ jobs[i].kind = "translate")
  /\ srt' \in IF jobs[i].kind = "request" THEN {srt, TRUE}
                ELSE {srt \/ jobs[i].kind # "translate"}
  /\ UNCHANGED <<taskVars, cooling, bazarr, planVars, userVars>>

JobFails(i) ==
  /\ turn = None /\ i \in DOMAIN jobs /\ jobs[i].status = "processing"
  /\ jobs[i].kind = "request" => MayBeFutile
  /\ EndJob(i, "failed")
  /\ UNCHANGED <<taskVars, cooling, worldVars, planVars, userVars>>

\* _process_request_job: Bazarr found nothing in time; the cooldown starts.
RequestNotFound(i) ==
  /\ turn = None /\ i \in DOMAIN jobs
  /\ jobs[i].status = "processing" /\ jobs[i].kind = "request" /\ MayBeFutile
  /\ EndJob(i, "not_found") /\ cooling' = TRUE
  /\ UNCHANGED <<taskVars, worldVars, planVars, userVars>>
-----------------------------------------------------------------------------
(* Users.  cancel() reads the open jobs, unattached ones of the task's       *)
(* target language included, and commits all its writes at once.           *)
OfTargetLanguage == {"translate", "transcribe"}

CancelRead ==
  /\ "cancel" \in Events /\ cancelling = None
  /\ status = "cancelled" \/ "cancelled" \in Allowed[status]
  /\ cancelling' = [jobs |-> {i \in OpenJobs : jobs[i].attached
                                                 \/ jobs[i].kind \in OfTargetLanguage},
                    task |-> status # "cancelled"]
  /\ UNCHANGED <<taskVars, jobVars, worldVars, planVars, retries, given>>

CancelWrite ==
  /\ cancelling # None
  /\ jobs' = [i \in DOMAIN jobs |-> IF i \in cancelling.jobs
                                    THEN [jobs[i] EXCEPT !.status = "cancelled"] ELSE jobs[i]]
  /\ status' = IF cancelling.task THEN "cancelled" ELSE status
  /\ cancelling' = None
  /\ UNCHANGED <<verifies, due, enqueues, cooling, worldVars, planVars, retries, given>>

CancelJob(i) ==
  /\ "cancelJob" \in Events /\ i \in OpenJobs /\ MayBeFutile
  /\ EndJob(i, "cancelled")
  /\ UNCHANGED <<taskVars, cooling, worldVars, planVars, userVars>>

(* prepare_retry sets the status past the table; an async handler.         *)
PrepareRetry ==
  /\ turn = None /\ retries < MaxRetries /\ status \in {"failed", "blocked", "cancelled"}
  /\ status' = "planning" /\ verifies' = 0 /\ due' = TRUE
  /\ retries' = retries + 1
  /\ UNCHANGED <<enqueues, jobVars, worldVars, planVars, cancelling, given>>

\* Somebody writes a source or the target, or the cooldown passes.
Outside ==
  /\ \/ "source" \in Events /\ ~srt /\ srt' = TRUE /\ UNCHANGED <<target, cooling>>
     \/ "target" \in Events /\ ~target /\ target' = TRUE /\ UNCHANGED <<srt, cooling>>
     \/ "cooldown" \in Events /\ cooling /\ cooling' = FALSE /\ UNCHANGED <<srt, target>>
  /\ UNCHANGED <<taskVars, jobs, bazarr, planVars, userVars>>

\* Bazarr scans its library by itself.
BazarrScans ==
  /\ target /\ ~bazarr /\ bazarr' = TRUE
  /\ UNCHANGED <<taskVars, jobVars, srt, target, planVars, userVars>>
-----------------------------------------------------------------------------
Plan(p) ==
  \/ Write(p) \/ Begin(p) \/ Look(p) \/ Revive(p) \/ Finish(p) \/ Rescan(p) \/ Recheck(p)
  \/ Check(p) \/ Resolve(p) \/ Decide(p) \/ Exists(p) \/ CreateTranslate(p)
  \/ CandidateAnswered(p) \/ GateDenied(p) \/ CreateExtract(p) \/ CreateRequest(p) \/ SourceEnqueueFailure(p) \/ CreateTranscribe(p)

Work(i) == StartJob(i) \/ JobCompletes(i) \/ JobFails(i) \/ RequestNotFound(i)

Next ==
  \/ \E p \in Planners : Plan(p)
  \/ \E i \in 1..MaxJobs : Work(i) \/ CancelJob(i)
  \/ CancelRead \/ CancelWrite \/ PrepareRetry \/ Outside \/ BazarrScans \/ VerifyDue

Spec == Init /\ [][Next]_vars

(* Fairness: the worker plans every active task again and again and awaits   *)
(* nothing for ever (its clients time out), starts and ends the jobs         *)
(* (JobWorker's liveness), and time passes.  Users do nothing they must.    *)
Fairness ==
  /\ \A p \in Planners : WF_vars(Plan(p))
  /\ \A i \in 1..MaxJobs : WF_vars(Work(i))
  /\ WF_vars(VerifyDue)

FairSpec == Spec /\ Fairness
-----------------------------------------------------------------------------
(* Properties.                                                             *)

\* However many calls of plan() are under way, with whatever old snapshots, at
\* most one open job of each kind exists (the create_* methods).
OneOpenJobPerKind ==
  \A i, j \in OpenJobs : jobs[i].kind = jobs[j].kind => i = j

\* A task is completed only when Bazarr lists the target, not when a job is done.
CompletedIsListed == status = "completed" => bazarr

\* Work that has been done is not queued again, by retries or by a plan() that
\* was awaiting while another one's job did it.
NothingRedone ==
  [][\A i \in DOMAIN jobs' \ DOMAIN jobs : jobs'[i].status = "pending" =>
       /\ jobs'[i].kind = "translate" => ~target
       /\ jobs'[i].kind = "extract" => ~(Done("extract") /\ srt)]_vars

\* A cancelled task starts no execution: a job of its candidate that is still
\* pending when the task is cancelled never starts (cancel).
CancelStopsExecutions ==
  [][status = "cancelled" =>
       \A i \in DOMAIN jobs : jobs[i].status = "pending" => jobs'[i].status # "processing"]_vars

\* Once the cancel and the one transition that may have been decided before it
\* are committed, no call of plan() that was awaiting works on the task again:
\* only a retry re-opens it (transition, cancel).
Abandoned == status = "cancelled" /\ draft = None
CancelledStays == [][Abandoned => Abandoned' \/ retries' > retries]_vars

\* Automatic verification stops after VERIFY_MAX_ATTEMPTS (_record_verify_failure).
VerificationBounded == verifies <= VerifyMax

\* The planner never gives up a waiting task's rescan because the state machine
\* refuses it (_advance_verify).
RescanNotRefused ==
  [][\A p \in Planners :
       at[p] = "exists" /\ at'[p] = "idle" => status # "waiting_for_source"]_vars

\* A processing task without an open job does not stay so: the next plan()
\* queues a job, or verifies, completes, fails or waits.
NothingProcessing == status = "processing" /\ ~\E i \in OpenJobs : jobs[i].attached
ProcessingAdvances == NothingProcessing ~> ~NothingProcessing
=============================================================================
