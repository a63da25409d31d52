------------------------------ MODULE Fallback ------------------------------
(***************************************************************************)
(* Automatic subtitle fallback for one title that Bazarr may want: the     *)
(* scanner (jobs/scanner.py, services/fallback.py) that observes the title *)
(* and enqueues at most one next job, the candidate snapshot it works from *)
(* (services/candidates.py), and the request, extract and translate jobs   *)
(* it creates (jobs/service.py), down to the disk and Bazarr.              *)
(*                                                                         *)
(* The scanner, the users' calls and the jobs are coroutines of one event  *)
(* loop: each action is the code between two awaits.  What the TaskPlanner *)
(* does with a task's jobs is in TaskPlanner; the attempts inside one      *)
(* translation are in AiBudget and TranslateJob.                           *)
(***************************************************************************)
EXTENDS Integers, Sequences, FiniteSets

CONSTANTS
  MaxRows,     \* bound on the rows of the jobs table
  MaxRetries,  \* maximum_automatic_retries
  Grace,       \* bazarr_grace_period_minutes, in ticks of the clock
  Cooldown,    \* REQUEST_NOT_FOUND_COOLDOWN_HOURS, in ticks
  MaxPolls,    \* REQUEST_TIMEOUT_SECONDS / REQUEST_POLL_SECONDS
  MaxCalls,    \* bound on the users' calls of a behaviour
  MaxEvents,   \* bound on what happens outside the program in a behaviour
  Starts,      \* what a behaviour starts from: a subset of Cases
  Users,       \* the calls users make: a subset of UserOps
  None

Cases == [source : BOOLEAN, embedded : BOOLEAN, identical : BOOLEAN]
UserOps == {"create", "retry", "cancel", "clear", "sync", "toggle"}

ASSUME FallbackAssumption ==
  /\ {MaxRows, MaxRetries, Grace, Cooldown, MaxPolls, MaxCalls, MaxEvents} \subseteq Nat
  /\ MaxPolls > 0
  /\ Users \subseteq UserOps /\ Starts \subseteq Cases

VARIABLES
  jobs,      \* the rows of the title, in order of id
  run,       \* where the coroutine of each processing row is
  observed,  \* the title's observed_candidates row
  scan,      \* where the scanner is, and the candidate it has in hand
  call,      \* a retry_job waiting for the candidate list, or None
  disk,      \* the files: source and target subtitles
  title,     \* what does not come from this program: see Titles
  enabled,   \* automatic_fallback_enabled
  events,    \* how many calls and outside events there were
  made       \* translations the scanner started in this wanted period, since
             \* their history was last cleared

vars == <<jobs, run, observed, scan, call, disk, title, enabled, events, made>>
-----------------------------------------------------------------------------
JobKinds == {"translate", "extract", "request"}
OpenStatuses == {"pending", "processing", "paused"}
Statuses == OpenStatuses \cup {"completed", "failed", "cancelled", "skipped"}
Each(all) == {all} \cup {{x} : x \in all}      \* a filter, or none
\* reason_code, grouped by what RETRYABLE_REASON_CODES and
\* NON_RETRYABLE_REASON_CODES make of it: "other" is in neither.
Retryable == {"temporary", "verify_failed", "rescan_failed"}
NonRetryable == {"target_exists", "cache_hit", "not_found", "extract_failed",
                 "cancelled", "final"}
Reasons == Retryable \cup NonRetryable \cup {"other", "source_exists", "embedded", None}

Rows == [kind : JobKinds, status : Statuses,
         reason : Reasons, auto : BOOLEAN, task : BOOLEAN, cool : 0..Cooldown]

Observations == [wanted : BOOLEAN, age : 0..Grace, attempts : Nat]
ASSUME NoneAssumption == None \notin Rows /\ None \notin Observations

\* wanted: Bazarr lists the title; embedded: an extractable track; identical:
\* another title with the same source text has a completed, present translation
Titles == [wanted : BOOLEAN, embedded : BOOLEAN, identical : BOOLEAN]
Ids == 1..MaxRows
Idle == [at |-> "idle", polls |-> 0]
RunSteps == {"idle", "lookup", "trigger", "poll", "fallback", "extract", "rescan",
             "chain", "listing", "translate"}
NoScan == [at |-> "idle", cand |-> None, active |-> {}, row |-> 0]

TypeOK ==
  /\ jobs \in Seq(Rows) /\ Len(jobs) <= MaxRows
  /\ run \in [Ids -> [at : RunSteps, polls : 0..(MaxPolls - 1)]]
  /\ observed = None \/ observed \in Observations
  /\ scan.at \in {"idle", "probing", "built", "verify"} /\ scan.active \subseteq JobKinds
  /\ call = None \/ call \in [kind : JobKinds, task : BOOLEAN]
  /\ disk \in [source : BOOLEAN, target : BOOLEAN]
  /\ title \in Titles /\ enabled \in BOOLEAN
  /\ events \in [calls : 0..MaxCalls, outside : 0..MaxEvents] /\ made \in Nat

Init ==
  /\ jobs = <<>> /\ run = [i \in Ids |-> Idle]
  /\ observed = None /\ scan = NoScan /\ call = None
  /\ \E t \in Starts :
       /\ disk = [source |-> t.source, target |-> FALSE]
       /\ title = [wanted |-> TRUE, embedded |-> t.embedded, identical |-> t.identical]
  /\ enabled = TRUE /\ events = [calls |-> 0, outside |-> 0] /\ made = 0
-----------------------------------------------------------------------------
(* Queries over the rows.                                                   *)
OpenOf(K) == {i \in DOMAIN jobs : jobs[i].kind \in K /\ jobs[i].status \in OpenStatuses}
Latest(k) ==    \* _latest_job: the newest row of a kind
  LET s == {i \in DOMAIN jobs : jobs[i].kind = k}
  IN IF s = {} THEN None ELSE jobs[CHOOSE i \in s : \A j \in s : j <= i]
Is(row, S) == row # None /\ row.status \in S
\* A completed translation that Bazarr still reports missing: its row, or 0
VerifyFailed ==
  LET s == {i \in DOMAIN jobs : jobs[i].kind = "translate" /\ jobs[i].status = "completed"
                                 /\ jobs[i].reason = "verify_failed"}
  IN IF s # {} /\ disk.target THEN CHOOSE i \in s : \A j \in s : j <= i ELSE 0
CoolingDown ==
  \E i \in DOMAIN jobs : /\ jobs[i].kind = "request" /\ jobs[i].reason = "not_found"
                          /\ jobs[i].cool > 0

Insert(k, st, why, auto, task) ==
  Append(jobs, [kind |-> k, status |-> st, reason |-> why, auto |-> auto, task |-> task,
                cool |-> 0])

\* What create_job, create_extract_job and create_request_subtitle_job make of
\* a call, in the order of their checks
Reused(k) == OpenOf({k}) # {}
\* Mutant: the open rows are not looked for.
TranslateUnseen == IF ~disk.source THEN "refused" ELSE IF disk.target THEN "target_exists"
                   ELSE IF title.identical THEN "cache_hit" ELSE "new"
\* Mutant: the candidate is trusted for what is on disk.
TranslateBlindly == IF OpenOf({"translate"}) # {} THEN "reuse"
                    ELSE IF title.identical THEN "cache_hit" ELSE "new"
TranslateOutcome == IF ~disk.source THEN "refused" ELSE IF disk.target THEN "target_exists"
                    ELSE IF Reused("translate") THEN "reuse"
                    ELSE IF title.identical THEN "cache_hit" ELSE "new"
ExtractOutcome == IF disk.source THEN "source_exists"
                  ELSE IF Reused("extract") THEN "reuse" ELSE "new"
RequestOutcome == IF Reused("request") THEN "reuse" ELSE "new"
Outcome(k) == CASE k = "translate" -> TranslateOutcome
                [] k = "extract"   -> ExtractOutcome
                [] k = "request"   -> RequestOutcome

Create(k, auto, task) ==
  CASE Outcome(k) = "refused" -> jobs
    [] Outcome(k) = "reuse"   -> [i \in DOMAIN jobs |-> IF i \in OpenOf({k}) /\ task
                                     THEN [jobs[i] EXCEPT !.task = TRUE] ELSE jobs[i]]
    [] Outcome(k) = "new"     -> Insert(k, "pending", None, auto, task)
    [] OTHER                  -> Insert(k, "skipped", Outcome(k), auto, task)

Room == Len(jobs) < MaxRows
Happens == /\ events.outside < MaxEvents
           /\ events' = [events EXCEPT !.outside = @ + 1]
-----------------------------------------------------------------------------
(* CandidateService: what the wanted list and the disk say of the title.    *)
Candidate(active) ==
  [targetExists |-> disk.target,
   canTranslate |-> disk.source /\ ~disk.target,
   canExtract   |-> title.embedded /\ ~disk.source /\ ~disk.target,
   hasSource    |-> disk.source,
   active       |-> active]
CanRequest(c) == ~c.targetExists /\ ~c.hasSource /\ ~c.canExtract

(* FallbackPlanner.                                                         *)
\* Mutant: every scan starts a new wanted period.
ObserveAfresh == [wanted |-> TRUE, age |-> 0, attempts |-> 0]
Observe ==   \* observe_candidate: a reappearing title restarts its period
  IF observed = None \/ ~observed.wanted
    THEN [wanted |-> TRUE, age |-> 0, attempts |-> 0]
    ELSE observed

CanRetryFailed(o) ==
  LET last == Latest("translate") IN
  /\ o.attempts < MaxRetries
  /\ \/ last = None
     \/ last.status \in {"skipped", "cancelled"} /\ last.reason \notin NonRetryable
     \/ last.status = "failed" /\ last.reason \in Retryable

\* The first of these that applies; "none" when nothing is left to do.
NextAction(c, o) ==
  LET last == Latest("translate") IN
  IF OpenOf(JobKinds) # {} THEN "none"
  ELSE IF o.age < Grace THEN "wait_grace"
  ELSE IF VerifyFailed # 0 THEN "verify"
  ELSE IF c.targetExists \/ (Is(last, {"completed"}) /\ disk.target) THEN "none"
  ELSE IF c.canTranslate
    THEN IF Is(last, {"failed", "cancelled", "skipped"}) /\ ~CanRetryFailed(o)
           THEN "none" ELSE "translate"
  ELSE IF c.canExtract
    THEN IF "extract" \in c.active THEN "none" ELSE "extract"
  ELSE IF CanRequest(c) /\ "request" \notin c.active /\ ~CoolingDown
            /\ ~Is(Latest("request"), {"completed"})
    THEN "request" ELSE "none"

ScanFetch ==   \* list_candidates up to the probing of the media files
  /\ scan.at = "idle" /\ enabled
  /\ scan' = [NoScan EXCEPT !.at = "probing",
                            !.active = {k \in JobKinds : OpenOf({k}) # {}}]
  /\ UNCHANGED <<jobs, run, observed, call, disk, title, enabled, events, made>>

ScanFails ==   \* BazarrError: the scan ends with nothing observed
  /\ scan.at = "probing" /\ Happens
  /\ scan' = NoScan
  /\ UNCHANGED <<jobs, run, observed, call, disk, title, enabled, made>>

ScanBuild ==   \* the rest of _fetch_candidates, then mark_not_wanted
  /\ scan.at = "probing"
  /\ IF title.wanted
       THEN /\ scan' = [scan EXCEPT !.at = "built", !.cand = Candidate(scan.active)]
            /\ UNCHANGED observed
       ELSE /\ scan' = NoScan
            /\ observed' = IF observed = None THEN None
                           ELSE [observed EXCEPT !.wanted = FALSE]
  /\ UNCHANGED <<jobs, run, call, disk, title, enabled, events, made>>

\* enqueue_for_candidate: observe, decide and create without an await; the
\* localization task may fail to be ensured, and the job is then its own.
ScanEnqueue ==
  /\ scan.at = "built"
  /\ LET o   == Observe
         act == IF enabled THEN NextAction(scan.cand, o) ELSE "none"
         new == act \in JobKinds /\ Outcome(act) = "new"
         o2  == IF new THEN [o EXCEPT !.attempts = @ + 1] ELSE o
     IN /\ observed' = IF enabled THEN o2 ELSE observed
        /\ made' = (IF enabled /\ (observed = None \/ ~observed.wanted) THEN 0 ELSE made)
                   + (IF new /\ act = "translate" THEN 1 ELSE 0)
        /\ IF act \in JobKinds
             THEN Room /\ \E task \in BOOLEAN : jobs' = Create(act, TRUE, task)
             ELSE UNCHANGED jobs
        /\ scan' = IF act = "verify"
                     THEN [NoScan EXCEPT !.at = "verify", !.row = VerifyFailed] ELSE NoScan
  /\ UNCHANGED <<run, call, disk, title, enabled, events>>

\* retry_bazarr_sync, or the planner's verification of the task: rescan,
\* look again, and write the outcome on the completed row
Synced(i, ok) ==
  [jobs EXCEPT ![i].reason = IF ok THEN None ELSE "verify_failed"]

ScanVerify ==
  /\ scan.at = "verify"
  /\ \E ok \in BOOLEAN :
       jobs' = IF scan.row \in DOMAIN jobs THEN Synced(scan.row, ok) ELSE jobs
  /\ scan' = NoScan
  /\ UNCHANGED <<run, observed, call, disk, title, enabled, events, made>>
-----------------------------------------------------------------------------
(* Jobs: from the worker's claim to the end of the kind's processor.        *)
At(i, step) == i \in DOMAIN jobs /\ run[i].at = step
Go(i, step) == run' = [run EXCEPT ![i].at = step]
Leave(i) == run' = [run EXCEPT ![i] = Idle]
Cancelled(i) == jobs[i].status = "cancelled"
EndRow(i, st, why) ==
  jobs' = [jobs EXCEPT ![i].status = st, ![i].reason = why, 
                          ![i].cool = IF why = "not_found" THEN Cooldown ELSE 0]
OutsideRuns == <<observed, scan, call, title, enabled, events, made>>

FirstStep(k) == CASE k = "request" -> "lookup" [] k = "extract" -> "extract"
                  [] k = "translate" -> "translate"
Claim(i) ==   \* one job of each kind at a time
  /\ i \in DOMAIN jobs /\ jobs[i].status = "pending"
  /\ \A j \in DOMAIN jobs : jobs[j].kind = jobs[i].kind => run[j].at = "idle"
  /\ jobs' = [jobs EXCEPT ![i].status = "processing"]
  /\ run' = [run EXCEPT ![i] = [at |-> FirstStep(jobs[i].kind), polls |-> 0]]
  /\ UNCHANGED <<disk, OutsideRuns>>

Stop(i) ==   \* a coroutine sees its row cancelled after an await
  /\ i \in DOMAIN jobs /\ run[i].at \in RunSteps \ {"idle", "rescan", "chain", "listing"}
  /\ Cancelled(i)
  /\ Leave(i)
  /\ disk' \in IF run[i].at = "extract" THEN {disk, [disk EXCEPT !.source = TRUE]} ELSE {disk}
  /\ UNCHANGED <<jobs, OutsideRuns>>

Gone(i) ==   \* the row was deleted: `not row`
  /\ i \in Ids \ DOMAIN jobs /\ run[i].at # "idle"
  /\ Leave(i)
  /\ UNCHANGED <<jobs, disk, OutsideRuns>>

\* _lookup_requested_subtitle_bounded found the subtitle: _complete_request_job
Found(i) ==
  /\ At(i, "lookup") \/ At(i, "poll")
  /\ ~Cancelled(i) /\ disk.source
  /\ EndRow(i, "completed", None) /\ Go(i, "chain")
  /\ UNCHANGED <<disk, OutsideRuns>>

\* Nothing on disk yet, or the lookup itself ran into its time limit
LookupEmpty(i) ==
  /\ At(i, "lookup") /\ ~Cancelled(i)
  /\ Go(i, "trigger")
  /\ UNCHANGED <<jobs, disk, OutsideRuns>>

Trigger(i) ==  \* ask Bazarr to search; it may deliver at any later time
  /\ At(i, "trigger") /\ ~Cancelled(i)
  /\ Go(i, "poll")
  /\ UNCHANGED <<jobs, disk, OutsideRuns>>

Poll(i) ==   \* one round without a result; the HI search is one of them
  /\ At(i, "poll") /\ ~Cancelled(i)
  /\ run' = IF run[i].polls + 1 < MaxPolls
              THEN [run EXCEPT ![i].polls = @ + 1]
              ELSE [run EXCEPT ![i].at = "fallback"]
  /\ UNCHANGED <<jobs, disk, OutsideRuns>>

RequestFallback(i) ==   \* _extract_fallback_for_request and what follows it
  /\ At(i, "fallback") /\ ~Cancelled(i)
  /\ \/ /\ title.embedded
        /\ disk' = [disk EXCEPT !.source = TRUE]
        /\ EndRow(i, "completed", IF disk.source THEN None ELSE "embedded")
        /\ Go(i, "chain")
     \/ /\ EndRow(i, "skipped", "not_found") /\ Leave(i)
        /\ UNCHANGED disk
  /\ UNCHANGED OutsideRuns

Extracted(i) ==  \* extract_embedded_track returned; the rescan commits the row
  /\ At(i, "extract") /\ ~Cancelled(i)
  /\ disk' = [disk EXCEPT !.source = TRUE]
  /\ EndRow(i, "completed", None) /\ Go(i, "rescan")
  /\ UNCHANGED OutsideRuns

Rescanned(i) ==
  /\ At(i, "rescan")
  /\ \E ok \in BOOLEAN :
       jobs' = IF ok THEN jobs ELSE [jobs EXCEPT ![i].reason = "rescan_failed"]
  /\ Go(i, "chain")
  /\ UNCHANGED <<disk, OutsideRuns>>

\* _maybe_chain_automatic_translate and maybe_chain_translate, up to the await
ChainStart(i) ==
  /\ At(i, "chain")
  /\ IF /\ jobs[i].auto /\ ~jobs[i].task /\ enabled
        /\ OpenOf({"translate"}) = {}
       THEN Go(i, "listing") ELSE Leave(i)
  /\ UNCHANGED <<jobs, disk, OutsideRuns>>

ChainEnd(i) ==
  /\ At(i, "listing")
  /\ IF disk.source /\ (IF title.wanted THEN ~disk.target ELSE observed # None)
       THEN Room /\ jobs' = Create("translate", TRUE, FALSE)
       ELSE UNCHANGED jobs
  /\ Leave(i)
  /\ UNCHANGED <<disk, OutsideRuns>>

\* A translation: written and verified, written only, or failed
Translated(i) ==
  /\ At(i, "translate") /\ ~Cancelled(i) /\ ~disk.target
  /\ disk' = [disk EXCEPT !.target = TRUE]
  /\ \E why \in {None, "rescan_failed", "verify_failed"} : EndRow(i, "completed", why)
  /\ Leave(i)
  /\ UNCHANGED OutsideRuns

Fails(i) ==   \* the processor's except: any await of it may raise
  /\ i \in DOMAIN jobs /\ run[i].at \in {"lookup", "trigger", "poll", "extract", "translate"}
  /\ ~Cancelled(i)
  /\ \E why \in CASE jobs[i].kind = "request" -> {"temporary"}
                  [] jobs[i].kind = "extract" -> {"extract_failed"}
                  [] OTHER -> {"temporary", "final", "other"} :
       EndRow(i, "failed", why)
  /\ Leave(i)
  /\ UNCHANGED <<disk, OutsideRuns>>
-----------------------------------------------------------------------------
(* Users, Bazarr, the disk and the clock.                                   *)
UserOp(op) == /\ op \in Users /\ events.calls < MaxCalls
              /\ events' = [events EXCEPT !.calls = @ + 1]

UserCreate(k) ==   \* a click, or the batch buttons: the candidate is awaited first
  /\ UserOp("create") /\ call = None
  /\ call' = [kind |-> k, task |-> FALSE]
  /\ UNCHANGED <<jobs, run, observed, scan, disk, title, enabled, made>>

UserRetry(i) ==    \* retry_job reads the row, then creates a new one
  /\ UserOp("retry") /\ call = None /\ i \in DOMAIN jobs
  /\ call' = [kind |-> jobs[i].kind, task |-> jobs[i].task]
  /\ UNCHANGED <<jobs, run, observed, scan, disk, title, enabled, made>>

CallEnds ==   \* get_candidate returned: the job is created, or the call refused
  /\ call # None
  /\ \/ /\ Room /\ title.wanted
        /\ call.kind = "extract" => Candidate({}).canExtract
        /\ jobs' = Create(call.kind, FALSE, call.task)
     \/ UNCHANGED jobs
  /\ call' = None
  /\ UNCHANGED <<run, observed, scan, disk, title, enabled, events, made>>

UserCancel(i) ==
  /\ UserOp("cancel") /\ i \in OpenOf(JobKinds)
  /\ EndRow(i, "cancelled", "cancelled")
  /\ UNCHANGED <<run, observed, scan, call, disk, title, enabled, made>>

\* clear_jobs, filtered by kind and by status, or not: the rows go whatever their
\* status, and the next insert takes the id after the largest that is left.  (Here
\* the rows that go are the newest, as a row's place is its id.)
UserClear(K, S) ==
  /\ UserOp("clear")
  /\ \E n \in 0..(Len(jobs) - 1) :
       /\ {i \in DOMAIN jobs : jobs[i].kind \in K /\ jobs[i].status \in S} = (n + 1)..Len(jobs)
       /\ jobs' = SubSeq(jobs, 1, n)
       /\ made' = IF \E i \in (n + 1)..Len(jobs) : jobs[i].kind = "translate" THEN 0 ELSE made
  /\ UNCHANGED <<run, observed, scan, call, disk, title, enabled>>

UserSync(i) ==
  /\ UserOp("sync") /\ i \in DOMAIN jobs
  /\ jobs[i].kind = "translate" /\ jobs[i].status = "completed"
  /\ \E ok \in BOOLEAN : jobs' = Synced(i, ok)
  /\ UNCHANGED <<run, observed, scan, call, disk, title, enabled, made>>

UserToggle ==
  /\ UserOp("toggle") /\ enabled' = ~enabled
  /\ UNCHANGED <<jobs, run, observed, scan, call, disk, title, made>>

Outside ==   \* Bazarr delivers a source or a target, changes its mind, a file goes
  /\ Happens
  /\ \/ /\ \E f \in {"source", "target"} : disk' = [disk EXCEPT ![f] = ~@]
        /\ UNCHANGED title
     \/ /\ title' = [title EXCEPT !.wanted = ~@]
        /\ UNCHANGED disk
  /\ UNCHANGED <<jobs, run, observed, scan, call, enabled, made>>

\* Time passes for the grace period and for the cooldowns.
Aged == [i \in DOMAIN jobs |->
           [jobs[i] EXCEPT !.cool = IF @ > 0 THEN @ - 1 ELSE 0]]
Tick ==
  /\ observed' = IF observed # None /\ observed.age < Grace
                   THEN [observed EXCEPT !.age = @ + 1] ELSE observed
  /\ jobs' = Aged
  /\ observed' # observed \/ jobs' # jobs
  /\ UNCHANGED <<run, scan, call, disk, title, enabled, events, made>>

Scan == ScanFetch \/ ScanFails \/ ScanBuild \/ ScanEnqueue \/ ScanVerify
Work(i) == \/ Claim(i) \/ Stop(i) \/ Gone(i) \/ Found(i) \/ LookupEmpty(i) \/ Trigger(i)
           \/ Poll(i) \/ RequestFallback(i) \/ Extracted(i) \/ Rescanned(i)
           \/ ChainStart(i) \/ ChainEnd(i) \/ Translated(i) \/ Fails(i)
User == \/ \E k \in JobKinds : UserCreate(k)
        \/ \E K \in Each(JobKinds), S \in Each(Statuses) : UserClear(K, S)
        \/ \E i \in Ids : UserRetry(i) \/ UserCancel(i) \/ UserSync(i)
        \/ CallEnds \/ UserToggle
Next == Scan \/ (\E i \in Ids : Work(i)) \/ User \/ Outside \/ Tick

Spec == Init /\ [][Next]_vars
\* The scanner's loop and the worker's tasks are scheduled; time passes.
FairSpec == /\ Spec
            /\ WF_vars(ScanFetch) /\ WF_vars(ScanBuild) /\ WF_vars(ScanEnqueue)
            /\ WF_vars(ScanVerify) /\ WF_vars(CallEnds) /\ WF_vars(Tick)
            /\ \A i \in Ids : WF_vars(Work(i))
-----------------------------------------------------------------------------
\* Two open jobs of one kind never exist for a title, whoever creates them and
\* however long their candidate lookups take (the dedup of the create_* calls).
OneOpenPerKind == \A k \in JobKinds : Cardinality(OpenOf({k})) <= 1

\* Within one wanted period the scanner starts no more translations that come
\* to nothing than maximum_automatic_retries allows (the first is always made):
\* failed starts are what automatic_attempts is there to bound.
Delivered == {i \in DOMAIN jobs : jobs[i].kind = "translate" /\ jobs[i].status = "completed"}
MaxUndelivered == IF MaxRetries = 0 THEN 1 ELSE MaxRetries
RetriesBounded == made <= Cardinality(Delivered) + MaxUndelivered

\* Why: what was started is no more than automatic_attempts counts, which the
\* scanner looks at when the last translation came to nothing; when it was
\* completed there is one start to spare, and a row that is completed stays so,
\* as none of the coroutines that are left at it ends it once more.
RetryInv ==
  /\ made <= IF observed = None THEN 0 ELSE observed.attempts
  /\ made > 0 => \E i \in DOMAIN jobs : jobs[i].kind = "translate"
  /\ \A i \in DOMAIN jobs : jobs[i].status = "completed" =>
       run[i].at \in {"idle", "rescan", "chain", "listing"}
  /\ \A i \in Delivered :
       (\A j \in DOMAIN jobs : jobs[j].kind = "translate" => j <= i)
         => made < Cardinality(Delivered) + MaxUndelivered
ScanTyped == scan = [at |-> scan.at, cand |-> scan.cand, active |-> scan.active, row |-> scan.row]
FallbackIInv == TypeOK /\ ScanTyped /\ RetryInv /\ RetriesBounded

\* One open job of a kind, and no more translations than may be tried.
FallbackSafe == TypeOK /\ OneOpenPerKind /\ RetriesBounded

\* No caller, however stale the candidate it decided on, opens a translation
\* while the target is on disk or its source is not (create_job's own checks).
NoFutileTranslation ==
  [][\A i \in DOMAIN jobs' :
       /\ i \notin DOMAIN jobs
       /\ jobs'[i].kind = "translate" /\ jobs'[i].status = "pending"
       => disk.source /\ ~disk.target]_vars

\* A title that stays wanted with a source on disk is settled in the end: its
\* target is written, or the last translation is one the scanner may not retry.
\* (Or the rows of the model are used up.)
Ready == title.wanted /\ enabled /\ disk.source
Settled == \/ disk.target \/ ~Room
           \/ /\ Is(Latest("translate"), {"failed", "cancelled", "skipped"})
              /\ observed # None /\ ~CanRetryFailed(observed)
Settles == <>[]Ready => <>[]Settled

\* A job that was never claimed does not become completed (clear_jobs is said
\* to delete "job history rows", and not to hand their runs to later jobs).
OnlyRunJobsComplete ==
  [][\A i \in DOMAIN jobs \cap DOMAIN jobs' :
       jobs'[i].status = "completed" /\ jobs[i].status # "completed"
         => jobs[i].status = "processing"]_vars

\* The scanner does not repeat an extraction that failed for a reason of
\* NON_RETRYABLE_REASON_CODES.
FailedExtractIsFinal ==
  [][\A i \in DOMAIN jobs' :
       /\ i \notin DOMAIN jobs /\ jobs'[i].kind = "extract" /\ jobs'[i].auto
       => ~ \E j \in DOMAIN jobs : /\ jobs[j].kind = "extract" /\ jobs[j].status = "failed"
                                   /\ jobs[j].reason \in NonRetryable]_vars
=============================================================================
