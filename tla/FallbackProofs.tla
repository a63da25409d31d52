--------------------------- MODULE FallbackProofs ---------------------------
(* One open job of each kind, a bounded number of translations that come to *)
(* nothing, and none that cannot be of use, for any number of rows and       *)
(* retries and whatever users, Bazarr and the scanner do between a decision  *)
(* and the row it leads to.                                                  *)
EXTENDS Fallback, FiniteInduction, FiniteSetTheorems, SequenceTheorems, TLAPS

USE FallbackAssumption

Calls == [kind : JobKinds, task : BOOLEAN]
Runs == [at : RunSteps, polls : 0..(MaxPolls - 1)]
\* A coroutine that is left at a completed row does not end it once more.
Quiet == {"idle", "rescan", "chain", "listing"}
QuietDone == \A i \in DOMAIN jobs : jobs[i].status = "completed" => run[i].at \in Quiet
FallbackTyped ==
  /\ jobs \in Seq(Rows) /\ Len(jobs) <= MaxRows
  /\ call = None \/ call \in Calls
  /\ run \in [Ids -> Runs] /\ QuietDone
OneOpen ==
  \A i, j \in DOMAIN jobs :
    /\ jobs[i].status \in OpenStatuses /\ jobs[j].status \in OpenStatuses
    /\ jobs[i].kind = jobs[j].kind
    => i = j

\* What a step may do to the rows.  It changes some, none of which it opens again,
\* completes or makes another kind; it completes the one its coroutine is at; it
\* takes the last ones away; or it adds one, which is open only when create_job and
\* its like have found that it may be.
Kept(new, old) ==
  /\ new.kind = old.kind /\ (new.status \in OpenStatuses => old.status \in OpenStatuses)
  /\ new.status = "completed" <=> old.status = "completed"
Updated == /\ jobs' \in Seq(Rows) /\ DOMAIN jobs' = DOMAIN jobs
           /\ \A i \in DOMAIN jobs : Kept(jobs'[i], jobs[i])
Completes == \E i \in DOMAIN jobs, row \in Rows :
               /\ jobs' = [jobs EXCEPT ![i] = row]
               /\ row.kind = jobs[i].kind /\ row.status = "completed"
               /\ run'[i].at \in Quiet
Cut == /\ jobs' \in Seq(Rows) /\ DOMAIN jobs' \subseteq DOMAIN jobs
       /\ \A i \in DOMAIN jobs' : jobs'[i] = jobs[i]
       /\ observed' = observed
       /\ \/ made' = 0
          \/ made' = made /\ \A i \in DOMAIN jobs \ DOMAIN jobs' : jobs[i].kind # "translate"
Sound(row) == row.status \in OpenStatuses =>
                /\ OpenOf({row.kind}) = {}
                /\ row.kind = "translate" => disk.source /\ ~disk.target
Added == \E row \in Rows : /\ jobs' = Append(jobs, row) /\ Sound(row) /\ Room
                            /\ row.status # "completed"
Change == Updated \/ Completes \/ Added

LEMMA UnchangedRows == ASSUME FallbackTyped, jobs' = jobs PROVE Change
BY DEF FallbackTyped, Change, Updated, Kept

\* One row is written.
LEMMA RowWritten ==
  ASSUME FallbackTyped, NEW i \in DOMAIN jobs, NEW row \in Rows, Kept(row, jobs[i]),
         jobs' = [jobs EXCEPT ![i] = row]
  PROVE  Change
<1>1. jobs' \in Seq(Rows) /\ DOMAIN jobs' = DOMAIN jobs
  BY ExceptSeq DEF FallbackTyped
<1>2. jobs'[i] = row /\ \A j \in DOMAIN jobs \ {i} : jobs'[j] = jobs[j]
  OBVIOUS
<1> QED
  BY <1>1, <1>2 DEF Change, Updated, Kept

LEMMA RowTyped == ASSUME FallbackTyped, NEW i \in DOMAIN jobs PROVE jobs[i] \in Rows
BY DEF FallbackTyped

\* A coroutine or a user ends a row.
LEMMA EndRowChange ==
  ASSUME FallbackTyped, NEW i \in DOMAIN jobs, NEW st \in Statuses \ OpenStatuses,
         NEW why \in Reasons, EndRow(i, st, why),
         IF st = "completed" THEN run'[i].at \in Quiet ELSE jobs[i].status # "completed"
  PROVE  Change
<1> DEFINE cool == IF why = "not_found" THEN Cooldown ELSE 0
           row == [jobs[i] EXCEPT !.status = st, !.reason = why, !.cool = cool]
<1>1. cool \in 0..Cooldown
  OBVIOUS
<1>2. row \in Rows /\ row.kind = jobs[i].kind /\ row.status = st
  BY <1>1, RowTyped DEF Rows, Statuses
<1>3. jobs' = [jobs EXCEPT ![i] = row]
  BY DEF EndRow
<1> HIDE DEF row
<1>4. CASE st = "completed"
  BY <1>2, <1>3, <1>4 DEF Change, Completes
<1>5. CASE st # "completed"
  BY <1>2, <1>3, <1>5, RowWritten DEF Kept
<1> QED
  BY <1>4, <1>5

LEMMA SyncedChange ==
  ASSUME FallbackTyped, NEW i \in DOMAIN jobs, NEW why \in Reasons,
         jobs' = [jobs EXCEPT ![i].reason = why]
  PROVE  Change
<1> DEFINE row == [jobs[i] EXCEPT !.reason = why]
<1>1. row \in Rows /\ row.kind = jobs[i].kind /\ row.status = jobs[i].status
  BY RowTyped DEF Rows
<1> HIDE DEF row
<1> QED
  BY <1>1, RowWritten DEF Kept, row

\* create_job, create_extract_job and create_request_subtitle_job.
LEMMA CreateChange ==
  ASSUME FallbackTyped, NEW k \in JobKinds, NEW auto \in BOOLEAN, NEW task \in BOOLEAN,
         jobs' = Create(k, auto, task), Room
  PROVE  Change
<1>1. CASE Outcome(k) = "refused"
  BY <1>1, UnchangedRows DEF Create
<1>2. CASE Outcome(k) = "reuse"
  <2> DEFINE f(i) == IF i \in OpenOf({k}) /\ task THEN [jobs[i] EXCEPT !.task = TRUE] ELSE jobs[i]
  <2>1. jobs' = [i \in DOMAIN jobs |-> f(i)]
    BY <1>2 DEF Create
  <2>2. \A i \in DOMAIN jobs : f(i) \in Rows /\ Kept(f(i), jobs[i])
    BY RowTyped DEF Rows, Kept
  <2> HIDE DEF f
  <2>3. jobs' \in Seq(Rows) /\ DOMAIN jobs' = DOMAIN jobs
    BY <2>1, <2>2 DEF FallbackTyped
  <2> QED
    BY <2>1, <2>2, <2>3 DEF Change, Updated
<1>3. CASE Outcome(k) = "new"
  <2> DEFINE row == [kind |-> k, status |-> "pending", reason |-> None, auto |-> auto,
                     task |-> task, cool |-> 0]
  <2>1. row \in Rows /\ row.kind = k /\ row.status # "completed"
    BY DEF Rows, Statuses, OpenStatuses, Reasons
  <2>2. jobs' = Append(jobs, row)
    BY <1>3 DEF Create, Insert
  <2>3. OpenOf({k}) = {}
    BY <1>3 DEF Outcome, TranslateOutcome, ExtractOutcome, RequestOutcome, Reused, JobKinds
  <2>4. k = "translate" => disk.source /\ ~disk.target
    BY <1>3 DEF Outcome, TranslateOutcome
  <2> HIDE DEF row
  <2> QED
    BY <2>1, <2>2, <2>3, <2>4 DEF Change, Added, Sound
<1>4. CASE Outcome(k) \in {"target_exists", "cache_hit", "source_exists"}
  <2> DEFINE row == [kind |-> k, status |-> "skipped", reason |-> Outcome(k), auto |-> auto,
                     task |-> task, cool |-> 0]
  <2>1. row \in Rows /\ row.status = "skipped"
    BY <1>4 DEF Rows, Statuses, Reasons, NonRetryable
  <2>2. jobs' = Append(jobs, row)
    BY <1>4 DEF Create, Insert
  <2> HIDE DEF row
  <2> QED
    BY <2>1, <2>2 DEF Change, Added, Sound, OpenStatuses
<1>5. Outcome(k) \in {"refused", "reuse", "new", "target_exists", "cache_hit", "source_exists"}
  BY DEF Outcome, TranslateOutcome, ExtractOutcome, RequestOutcome, JobKinds
<1> QED
  BY <1>1, <1>2, <1>3, <1>4, <1>5

\* A caller that waits for the candidate list knows which kind of job it wants.
LEMMA CallTyped ==
  ASSUME FallbackTyped, [Next]_vars PROVE call' = None \/ call' \in Calls
<1> USE DEF FallbackTyped, Calls
<1>1. ASSUME NEW k \in JobKinds, UserCreate(k) PROVE call' \in Calls
  BY <1>1 DEF UserCreate
<1>2. ASSUME NEW i \in Ids, UserRetry(i) PROVE call' \in Calls
  <2>1. jobs[i] \in Rows
    BY <1>2, RowTyped DEF UserRetry
  <2> QED
    BY <1>2, <2>1 DEF UserRetry, Rows
<1>3. CASE CallEnds
  BY <1>3 DEF CallEnds
<1>4. CASE UNCHANGED call
  BY <1>4
<1>5. ASSUME NEW i \in Ids, Work(i) PROVE UNCHANGED call
  BY <1>5 DEF Work, Claim, Stop, Gone, Found, LookupEmpty, Trigger, Poll, RequestFallback,
              Extracted, Rescanned, ChainStart, ChainEnd, Translated, Fails, OutsideRuns
<1>6. ASSUME Scan \/ Outside \/ Tick PROVE UNCHANGED call
  BY <1>6 DEF Scan, ScanFetch, ScanFails, ScanBuild, ScanEnqueue, ScanVerify, Outside, Tick
<1>7. ASSUME User PROVE \/ UNCHANGED call
                        \/ CallEnds
                        \/ \E k \in JobKinds : UserCreate(k)
                        \/ \E i \in Ids : UserRetry(i)
  BY <1>7 DEF User, UserClear, UserCancel, UserSync, UserToggle
<1> QED
  BY <1>1, <1>2, <1>3, <1>4, <1>5, <1>6, <1>7 DEF Next, vars

LEMMA ScanChange == ASSUME FallbackTyped, Scan PROVE Change
<1>1. CASE ScanEnqueue
  <2> DEFINE act == IF enabled THEN NextAction(scan.cand, Observe) ELSE "none"
  <2>1. CASE act \in JobKinds
    <3> PICK task \in BOOLEAN : Room /\ jobs' = Create(act, TRUE, task)
      BY <1>1, <2>1 DEF ScanEnqueue
    <3> QED
      BY <2>1, CreateChange
  <2>2. CASE act \notin JobKinds
    <3>1. jobs' = jobs
      BY <1>1, <2>2 DEF ScanEnqueue
    <3> QED
      BY <3>1, UnchangedRows
  <2> QED
    BY <2>1, <2>2
<1>2. CASE ScanVerify
  <2> PICK ok \in BOOLEAN :
             jobs' = IF scan.row \in DOMAIN jobs THEN Synced(scan.row, ok) ELSE jobs
    BY <1>2 DEF ScanVerify
  <2>1. CASE scan.row \in DOMAIN jobs
    <3>1. jobs' = [jobs EXCEPT ![scan.row].reason = IF ok THEN None ELSE "verify_failed"]
      BY <2>1 DEF Synced
    <3>2. (IF ok THEN None ELSE "verify_failed") \in Reasons
      BY DEF Reasons, Retryable
    <3> QED
      BY <2>1, <3>1, <3>2, SyncedChange
  <2> QED
    BY <2>1, UnchangedRows
<1>3. CASE ScanFetch \/ ScanFails \/ ScanBuild
  BY <1>3, UnchangedRows DEF ScanFetch, ScanFails, ScanBuild
<1> QED
  BY <1>1, <1>2, <1>3 DEF Scan

LEMMA ClaimChange == ASSUME FallbackTyped, NEW i \in Ids, Claim(i) PROVE Change
<1> DEFINE row == [jobs[i] EXCEPT !.status = "processing"]
<1>1. i \in DOMAIN jobs /\ jobs[i].status = "pending" /\ jobs' = [jobs EXCEPT ![i] = row]
  BY DEF Claim
<1>2. row \in Rows /\ row.kind = jobs[i].kind /\ row.status # "completed"
  BY <1>1, RowTyped DEF Rows, Statuses, OpenStatuses
<1> HIDE DEF row
<1> QED
  BY <1>1, <1>2, RowWritten DEF Kept, OpenStatuses

LEMMA WorkChange == ASSUME FallbackTyped, NEW i \in Ids, Work(i) PROVE Change
<1> USE DEF At
<1>0. {"completed", "failed", "skipped"} \subseteq Statuses \ OpenStatuses
  BY DEF Statuses, OpenStatuses
<1>1. CASE Found(i) \/ Extracted(i)
  <2>1. EndRow(i, "completed", None) /\ run'[i].at \in Quiet
    BY <1>1 DEF Found, Extracted, Go, FallbackTyped, Quiet, Runs
  <2> QED
    BY <1>0, <1>1, <2>1, EndRowChange DEF Found, Extracted, Reasons
<1>2. CASE RequestFallback(i)
  <2>1. CASE EndRow(i, "completed", IF disk.source THEN None ELSE "embedded") /\ Go(i, "chain")
    <3>1. run'[i].at \in Quiet
      BY <2>1 DEF Go, FallbackTyped, Quiet, Runs
    <3> QED
      BY <1>0, <1>2, <2>1, <3>1, EndRowChange DEF RequestFallback, Reasons
  <2>2. CASE EndRow(i, "skipped", "not_found")
    <3>1. jobs[i].status # "completed"
      BY <1>2 DEF RequestFallback, FallbackTyped, QuietDone, Quiet
    <3> QED
      BY <1>0, <1>2, <2>2, <3>1, EndRowChange DEF RequestFallback, Reasons, NonRetryable
  <2> QED
    BY <1>2, <2>1, <2>2 DEF RequestFallback
<1>3. CASE Rescanned(i)
  <2> PICK ok \in BOOLEAN :
             jobs' = IF ok THEN jobs ELSE [jobs EXCEPT ![i].reason = "rescan_failed"]
    BY <1>3 DEF Rescanned
  <2>1. i \in DOMAIN jobs /\ "rescan_failed" \in Reasons
    BY <1>3 DEF Rescanned, Reasons, Retryable
  <2> QED
    BY <2>1, SyncedChange, UnchangedRows
<1>4. CASE ChainEnd(i)
  <2>1. CASE Room /\ jobs' = Create("translate", TRUE, FALSE)
    BY <2>1, CreateChange DEF JobKinds
  <2> QED
    BY <1>4, <2>1, UnchangedRows DEF ChainEnd
<1>5. CASE Translated(i)
  <2> PICK why \in {None, "rescan_failed", "verify_failed"} : EndRow(i, "completed", why)
    BY <1>5 DEF Translated
  <2>1. i \in DOMAIN jobs /\ why \in Reasons /\ run'[i].at \in Quiet
    BY <1>5 DEF Translated, Reasons, Retryable, Leave, Idle, FallbackTyped, Quiet
  <2> QED
    BY <1>0, <2>1, EndRowChange
<1>6. CASE Fails(i)
  <2>1. i \in DOMAIN jobs /\ jobs[i].status # "completed"
    BY <1>6 DEF Fails, FallbackTyped, QuietDone, Quiet
  <2>2. \E why \in {"temporary", "extract_failed", "final", "other"} : EndRow(i, "failed", why)
    BY <1>6 DEF Fails
  <2>3. {"temporary", "extract_failed", "final", "other"} \subseteq Reasons
    BY DEF Reasons, Retryable, NonRetryable
  <2> QED
    BY <1>0, <2>1, <2>2, <2>3, EndRowChange
<1>7. CASE Claim(i)
  BY <1>7, ClaimChange
<1>8. CASE Stop(i) \/ Gone(i) \/ LookupEmpty(i) \/ Trigger(i) \/ Poll(i) \/ ChainStart(i)
  BY <1>8, UnchangedRows DEF Stop, Gone, LookupEmpty, Trigger, Poll, ChainStart
<1> QED
  BY <1>1, <1>2, <1>3, <1>4, <1>5, <1>6, <1>7, <1>8 DEF Work

LEMMA ClearCuts == ASSUME FallbackTyped, NEW K, NEW S, UserClear(K, S) PROVE Cut
<1>1. PICK n \in 0..(Len(jobs) - 1) :
        /\ jobs' = SubSeq(jobs, 1, n)
        /\ made' = IF \E i \in (n + 1)..Len(jobs) : jobs[i].kind = "translate" THEN 0 ELSE made
  BY DEF UserClear
<1>2. /\ n \in Nat /\ n \in Int /\ 1 \in Int /\ n <= Len(jobs) /\ Len(jobs) \in Nat
      /\ \A i \in 1..n : jobs[i] \in Rows
  BY <1>1 DEF FallbackTyped
<1>3. /\ jobs' \in Seq(Rows) /\ Len(jobs') = n
      /\ \A i \in 1..Len(jobs') : jobs'[i] = jobs[i]
  <2>1. /\ SubSeq(jobs, 1, n) \in Seq(Rows)
        /\ Len(SubSeq(jobs, 1, n)) = IF 1 <= n THEN n - 1 + 1 ELSE 0
        /\ \A i \in 1..n-1+1 : SubSeq(jobs, 1, n)[i] = jobs[1 + i - 1]
    BY <1>2, SubSeqProperties
  <2> QED
    BY <1>1, <1>2, <2>1
<1>4. DOMAIN jobs = 1..Len(jobs) /\ DOMAIN jobs' = 1..Len(jobs')
  BY <1>3 DEF FallbackTyped
<1>5. DOMAIN jobs' \subseteq DOMAIN jobs /\ DOMAIN jobs \ DOMAIN jobs' = (n + 1)..Len(jobs)
  BY <1>2, <1>3, <1>4
<1>6. UNCHANGED observed
  BY DEF UserClear
<1> QED
  BY <1>1, <1>3, <1>4, <1>5, <1>6 DEF Cut

LEMMA UserChange == ASSUME FallbackTyped, User PROVE Change \/ Cut
<1>1. CASE CallEnds
  <2>1. CASE Room /\ jobs' = Create(call.kind, FALSE, call.task)
    <3>1. call \in Calls
      BY <1>1 DEF CallEnds, FallbackTyped
    <3>2. call.kind \in JobKinds /\ call.task \in BOOLEAN
      BY <3>1 DEF Calls
    <3> QED
      BY <2>1, <3>2, CreateChange
  <2> QED
    BY <1>1, <2>1, UnchangedRows DEF CallEnds
<1>2. ASSUME NEW i \in Ids, UserCancel(i) PROVE Change
  <2>1. "cancelled" \in Statuses \ OpenStatuses /\ "cancelled" \in Reasons
    BY DEF Statuses, OpenStatuses, Reasons, NonRetryable
  <2>2. i \in DOMAIN jobs /\ EndRow(i, "cancelled", "cancelled") /\ jobs[i].status # "completed"
    BY <1>2 DEF UserCancel, OpenOf, OpenStatuses
  <2> QED
    BY <2>1, <2>2, EndRowChange
<1>3. ASSUME NEW i \in Ids, UserSync(i) PROVE Change
  <2> PICK ok \in BOOLEAN : jobs' = Synced(i, ok)
    BY <1>3 DEF UserSync
  <2>1. jobs' = [jobs EXCEPT ![i].reason = IF ok THEN None ELSE "verify_failed"]
    BY DEF Synced
  <2>2. i \in DOMAIN jobs /\ (IF ok THEN None ELSE "verify_failed") \in Reasons
    BY <1>3 DEF UserSync, Reasons, Retryable
  <2> QED
    BY <2>1, <2>2, SyncedChange
<1>4. ASSUME NEW K, NEW S, UserClear(K, S) PROVE Cut
  BY <1>4, ClearCuts
<1>5. ASSUME \/ UserToggle
             \/ \E k \in JobKinds : UserCreate(k)
             \/ \E i \in Ids : UserRetry(i)
      PROVE  Change
  BY <1>5, UnchangedRows DEF UserToggle, UserCreate, UserRetry
<1> QED
  BY <1>1, <1>2, <1>3, <1>4, <1>5 DEF User

LEMMA TickChange == ASSUME FallbackTyped, Tick PROVE Change
<1> DEFINE f(i) == [jobs[i] EXCEPT !.cool = IF @ > 0 THEN @ - 1 ELSE 0]
<1>1. jobs' = [i \in DOMAIN jobs |-> f(i)]
  BY DEF Tick, Aged
<1>2. ASSUME NEW i \in DOMAIN jobs PROVE f(i) \in Rows /\ Kept(f(i), jobs[i])
  <2>1. jobs[i] \in Rows
    BY RowTyped
  <2>2. (IF jobs[i].cool > 0 THEN jobs[i].cool - 1 ELSE 0) \in 0..Cooldown
    BY <2>1 DEF Rows
  <2> QED
    BY <2>1, <2>2 DEF Rows, Kept
<1> HIDE DEF f
<1>3. jobs' \in Seq(Rows) /\ DOMAIN jobs' = DOMAIN jobs
  BY <1>1, <1>2 DEF FallbackTyped
<1> QED
  BY <1>1, <1>2, <1>3 DEF Change, Updated

LEMMA StepChange == ASSUME FallbackTyped, [Next]_vars PROVE Change \/ Cut
<1>1. CASE Outside \/ UNCHANGED vars
  BY <1>1, UnchangedRows DEF Outside, vars
<1> QED
  BY <1>1, ScanChange, WorkChange, UserChange, TickChange DEF Next

\* What a change means for the dedup.
LEMMA ChangeKeepsOneOpen ==
  ASSUME FallbackTyped, OneOpen, Change \/ Cut PROVE jobs' \in Seq(Rows) /\ OneOpen'
<1>1. CASE Updated
  BY <1>1 DEF Updated, Kept, OneOpen
<1>2. CASE Cut
  BY <1>2 DEF Cut, OneOpen
<1>4. CASE Completes
  <2> PICK i \in DOMAIN jobs, row \in Rows :
             /\ jobs' = [jobs EXCEPT ![i] = row]
             /\ row.kind = jobs[i].kind /\ row.status = "completed"
    BY <1>4 DEF Completes
  <2>1. jobs' \in Seq(Rows) /\ DOMAIN jobs' = DOMAIN jobs
    BY ExceptSeq DEF FallbackTyped
  <2>2. OneOpen'
    BY <2>1 DEF OneOpen, OpenStatuses
  <2> QED
    BY <2>1, <2>2
<1>3. CASE Added
  <2> PICK row \in Rows : jobs' = Append(jobs, row) /\ Sound(row)
    BY <1>3 DEF Added
  <2>1. /\ jobs' \in Seq(Rows) /\ Len(jobs') = Len(jobs) + 1 /\ Len(jobs) \in Nat
        /\ \A i \in 1..Len(jobs) : jobs'[i] = jobs[i]
        /\ jobs'[Len(jobs) + 1] = row
    BY AppendProperties DEF FallbackTyped
  <2>2. DOMAIN jobs = 1..Len(jobs) /\ DOMAIN jobs' = DOMAIN jobs \cup {Len(jobs) + 1}
    BY <2>1 DEF FallbackTyped
  <2>3. row.status \in OpenStatuses =>
          \A i \in DOMAIN jobs : ~(jobs[i].kind = row.kind /\ jobs[i].status \in OpenStatuses)
    BY DEF Sound, OpenOf
  <2>4. OneOpen'
    BY <2>1, <2>2, <2>3 DEF OneOpen
  <2> QED
    BY <2>1, <2>4
<1> QED
  BY <1>1, <1>2, <1>3, <1>4 DEF Change

LEMMA RowIds == ASSUME FallbackTyped PROVE DOMAIN jobs = 1..Len(jobs) /\ DOMAIN jobs \subseteq Ids
BY DEF FallbackTyped, Ids

\* The table stays within its bound.
LEMMA ChangeKeepsRoom == ASSUME FallbackTyped, OneOpen, Change \/ Cut PROVE Len(jobs') <= MaxRows
<1>1. jobs' \in Seq(Rows)
  BY ChangeKeepsOneOpen
<1>2. /\ Len(jobs) \in Nat /\ Len(jobs') \in Nat /\ Len(jobs) <= MaxRows
      /\ DOMAIN jobs = 1..Len(jobs) /\ DOMAIN jobs' = 1..Len(jobs')
  BY <1>1 DEF FallbackTyped
<1>3. ASSUME DOMAIN jobs' \subseteq DOMAIN jobs PROVE Len(jobs') <= MaxRows
  BY <1>2, <1>3
<1>4. CASE Updated \/ Cut
  BY <1>3, <1>4 DEF Updated, Cut
<1>5. CASE Completes
  BY <1>3, <1>5 DEF Completes
<1>6. CASE Added
  BY <1>2, <1>6, AppendProperties DEF Added, Room, FallbackTyped
<1> QED
  BY <1>4, <1>5, <1>6 DEF Change

LEMMA RunsTyped == ASSUME FallbackTyped, [Next]_vars PROVE run' \in [Ids -> Runs]
<1> USE DEF FallbackTyped, Runs, RunSteps, Idle
<1>1. ASSUME NEW i \in Ids, Work(i) PROVE run' \in [Ids -> Runs]
  <2>1. CASE Claim(i)
    <3>1. jobs[i] \in Rows
      BY <2>1, RowTyped DEF Claim
    <3>2. FirstStep(jobs[i].kind) \in RunSteps
      BY <3>1 DEF FirstStep, Rows, JobKinds
    <3> QED
      BY <2>1, <3>2 DEF Claim
  <2>0. Leave(i) => run' \in [Ids -> Runs]
    BY DEF Leave
  <2>2. CASE Stop(i) \/ Gone(i) \/ Translated(i) \/ Fails(i)
    BY <2>0, <2>2 DEF Stop, Gone, Translated, Fails
  <2>3. CASE Found(i) \/ LookupEmpty(i) \/ Trigger(i) \/ RequestFallback(i) \/ Extracted(i)
             \/ Rescanned(i)
    BY <2>3 DEF Found, LookupEmpty, Trigger, RequestFallback, Extracted, Rescanned, Go, Leave
  <2>4. CASE Poll(i)
    BY <2>4 DEF Poll
  <2>5. CASE ChainStart(i) \/ ChainEnd(i)
    <3>1. Go(i, "listing") => run' \in [Ids -> Runs]
      BY DEF Go
    <3> QED
      BY <2>0, <2>5, <3>1 DEF ChainStart, ChainEnd
  <2> QED
    BY <1>1, <2>1, <2>2, <2>3, <2>4, <2>5 DEF Work
<1>2. ASSUME Scan \/ User \/ Outside \/ Tick \/ UNCHANGED vars PROVE run' = run
  BY <1>2 DEF Scan, ScanFetch, ScanFails, ScanBuild, ScanEnqueue, ScanVerify, User, UserCreate,
              UserClear, UserRetry, UserCancel, UserSync, CallEnds, UserToggle, Outside, Tick, vars
<1> QED
  BY <1>1, <1>2 DEF Next

\* The coroutines that are left at completed rows only go on to their end.
LEMMA RunMoves ==
  ASSUME FallbackTyped, [Next]_vars, NEW k \in DOMAIN jobs, jobs[k].status = "completed"
  PROVE  run'[k].at \in Quiet
<1>0. k \in Ids /\ run[k].at \in Quiet
  BY RowIds DEF FallbackTyped, QuietDone
<1>1. ASSUME NEW i \in Ids, Work(i) PROVE run'[k].at \in Quiet
  <2> USE DEF FallbackTyped, Quiet, Runs, RunSteps, Idle, At, Go, Leave
  <2>1. CASE i # k
    BY <1>0, <1>1, <2>1 DEF Work, Claim, Stop, Gone, Found, LookupEmpty, Trigger, Poll,
       RequestFallback, Extracted, Rescanned, ChainStart, ChainEnd, Translated, Fails
  <2>2. CASE i = k
    <3>1. Rescanned(k) \/ ChainStart(k) \/ ChainEnd(k)
      BY <1>0, <1>1, <2>2 DEF Work, Claim, Stop, Gone, Found, LookupEmpty, Trigger, Poll,
         RequestFallback, Extracted, Translated, Fails, Cancelled
    <3>2. Leave(k) \/ \E step \in Quiet : Go(k, step)
      BY <3>1 DEF Rescanned, ChainStart, ChainEnd
    <3>3. Leave(k) => run'[k].at \in Quiet
      BY <1>0
    <3>4. ASSUME NEW step \in Quiet, Go(k, step) PROVE run'[k].at \in Quiet
      BY <1>0, <3>4
    <3> QED
      BY <3>2, <3>3, <3>4
  <2> QED
    BY <2>1, <2>2
<1>2. ASSUME Scan \/ User \/ Outside \/ Tick \/ UNCHANGED vars PROVE run' = run
  BY <1>2 DEF Scan, ScanFetch, ScanFails, ScanBuild, ScanEnqueue, ScanVerify, User, UserCreate,
              UserClear, UserRetry, UserCancel, UserSync, CallEnds, UserToggle, Outside, Tick, vars
<1> QED
  BY <1>0, <1>1, <1>2 DEF Next

LEMMA QuietStep == ASSUME FallbackTyped, OneOpen, [Next]_vars PROVE QuietDone'
<1> SUFFICES ASSUME NEW k \in DOMAIN jobs', jobs'[k].status = "completed"
             PROVE  run'[k].at \in Quiet
  BY DEF QuietDone
<1>1. CASE Updated
  BY <1>1, RunMoves DEF Updated, Kept
<1>2. CASE Cut
  BY <1>2, RunMoves DEF Cut
<1>3. CASE Completes
  BY <1>3, RunMoves DEF Completes
<1>4. CASE Added
  <2> PICK row \in Rows : jobs' = Append(jobs, row) /\ row.status # "completed"
    BY <1>4 DEF Added
  <2>1. /\ DOMAIN jobs' = DOMAIN jobs \cup {Len(jobs) + 1} /\ jobs'[Len(jobs) + 1] = row
        /\ \A i \in DOMAIN jobs : jobs'[i] = jobs[i]
    BY AppendProperties DEF FallbackTyped
  <2> QED
    BY <2>1, RunMoves
<1> QED
  BY <1>1, <1>2, <1>3, <1>4, StepChange DEF Change

LEMMA FallbackStep == FallbackTyped /\ OneOpen /\ [Next]_vars => FallbackTyped' /\ OneOpen'
BY StepChange, CallTyped, ChangeKeepsOneOpen, ChangeKeepsRoom, RunsTyped, QuietStep
   DEF FallbackTyped

LEMMA FallbackInitial == Init => FallbackTyped /\ OneOpen
<1> SUFFICES ASSUME Init PROVE FallbackTyped /\ OneOpen
  OBVIOUS
<1>1. jobs = <<>> /\ DOMAIN jobs = {} /\ Len(jobs) = 0
  BY DEF Init
<1>2. run \in [Ids -> Runs]
  BY DEF Init, Runs, RunSteps, Idle
<1> QED
  BY <1>1, <1>2 DEF Init, FallbackTyped, OneOpen, QuietDone

-----------------------------------------------------------------------------
(* The rest of the types.                                                   *)

ObservedTyped == observed = None \/ observed \in Observations
ScanOK == /\ scan.at \in {"idle", "probing", "built", "verify"} /\ scan.active \subseteq JobKinds
          /\ ScanTyped
WorldOK == /\ disk \in [source : BOOLEAN, target : BOOLEAN]
           /\ title \in Titles /\ enabled \in BOOLEAN
           /\ events \in [calls : 0..MaxCalls, outside : 0..MaxEvents]
RestTyped == ObservedTyped /\ ScanOK /\ WorldOK /\ made \in Nat

LEMMA ScanOKMade ==
  ASSUME NEW at \in {"idle", "probing", "built", "verify"}, NEW cand,
         NEW active \in SUBSET JobKinds, NEW row,
         scan' = [at |-> at, cand |-> cand, active |-> active, row |-> row]
  PROVE  ScanOK'
BY DEF ScanOK, ScanTyped

LEMMA ScanRest == ASSUME RestTyped, Scan PROVE RestTyped'
<1> USE DEF RestTyped
<1>0. scan' = NoScan => ScanOK'
  BY DEF NoScan, ScanOK, ScanTyped
<1>1. CASE ScanFetch
  <2>1. scan' = [at |-> "probing", cand |-> None,
                 active |-> {k \in JobKinds : OpenOf({k}) # {}}, row |-> 0]
    BY <1>1 DEF ScanFetch, NoScan
  <2>2. ScanOK'
    BY <2>1, ScanOKMade
  <2> QED
    BY <1>1, <2>2 DEF ScanFetch, ObservedTyped, WorldOK
<1>2. CASE ScanFails
  BY <1>0, <1>2 DEF ScanFails, Happens, ObservedTyped, WorldOK
<1>3. CASE ScanBuild
  <2>1. ScanOK'
    <3>1. CASE title.wanted
      <4>1. scan' = [at |-> "built", cand |-> Candidate(scan.active), active |-> scan.active,
                     row |-> scan.row]
        BY <1>3, <3>1 DEF ScanBuild, ScanOK, ScanTyped
      <4> QED
        BY <4>1, ScanOKMade DEF ScanOK
    <3>2. CASE ~title.wanted
      BY <1>0, <1>3, <3>2 DEF ScanBuild
    <3> QED
      BY <3>1, <3>2
  <2>2. ObservedTyped'
    BY <1>3 DEF ScanBuild, ObservedTyped, Observations
  <2> QED
    BY <1>3, <2>1, <2>2 DEF ScanBuild, WorldOK
<1>4. CASE ScanEnqueue
  <2> DEFINE o == Observe
             act == IF enabled THEN NextAction(scan.cand, o) ELSE "none"
             new == act \in JobKinds /\ Outcome(act) = "new"
             o2 == IF new THEN [o EXCEPT !.attempts = @ + 1] ELSE o
  <2>1. o \in Observations
    BY DEF Observe, ObservedTyped, Observations
  <2> HIDE DEF o
  <2>2. o2 \in Observations
    <3> HIDE DEF new
    <3> QED
      BY <2>1 DEF Observations
  <2>3. observed' = (IF enabled THEN o2 ELSE observed)
        /\ scan' = (IF act = "verify" THEN [NoScan EXCEPT !.at = "verify", !.row = VerifyFailed]
                    ELSE NoScan)
        /\ made' = (IF enabled /\ (observed = None \/ ~observed.wanted) THEN 0 ELSE made)
                   + (IF new /\ act = "translate" THEN 1 ELSE 0)
        /\ UNCHANGED <<disk, title, enabled, events>>
    BY <1>4 DEF ScanEnqueue, o
  <2> HIDE DEF act, new, o2
  <2>4. ObservedTyped' /\ made' \in Nat
    BY <2>2, <2>3 DEF ObservedTyped
  <2>5. ScanOK'
    <3>1. CASE act = "verify"
      <4>1. scan' = [at |-> "verify", cand |-> None, active |-> {}, row |-> VerifyFailed]
        BY <2>3, <3>1 DEF NoScan
      <4> QED
        BY <4>1, ScanOKMade
    <3>2. CASE act # "verify"
      BY <1>0, <2>3, <3>2
    <3> QED
      BY <3>1, <3>2
  <2> QED
    BY <2>3, <2>4, <2>5 DEF WorldOK
<1>5. CASE ScanVerify
  BY <1>0, <1>5 DEF ScanVerify, ObservedTyped, WorldOK
<1> QED
  BY <1>1, <1>2, <1>3, <1>4, <1>5 DEF Scan

LEMMA RestStep == ASSUME RestTyped, [Next]_vars PROVE RestTyped'
<1> USE DEF RestTyped
<1>1. ASSUME NEW i \in Ids, Work(i) PROVE RestTyped'
  <2>1. UNCHANGED <<observed, scan, title, enabled, events, made>>
    BY <1>1 DEF Work, Claim, Stop, Gone, Found, LookupEmpty, Trigger, Poll, RequestFallback,
       Extracted, Rescanned, ChainStart, ChainEnd, Translated, Fails, OutsideRuns
  <2>2. disk' \in {disk, [disk EXCEPT !.source = TRUE], [disk EXCEPT !.target = TRUE]}
    BY <1>1 DEF Work, Claim, Stop, Gone, Found, LookupEmpty, Trigger, Poll, RequestFallback,
       Extracted, Rescanned, ChainStart, ChainEnd, Translated, Fails
  <2>3. disk' \in [source : BOOLEAN, target : BOOLEAN]
    BY <2>2 DEF WorldOK
  <2> QED
    BY <2>1, <2>3 DEF ObservedTyped, ScanOK, ScanTyped, WorldOK
<1>2. CASE User
  <2>1. UNCHANGED <<observed, scan, disk, title>> /\ (made' = made \/ made' = 0)
    BY <1>2 DEF User, UserCreate, UserClear, UserRetry, UserCancel, UserSync, CallEnds, UserToggle
  <2>2. events' = events \/ \E op \in UserOps : UserOp(op)
    BY <1>2 DEF User, UserCreate, UserClear, UserRetry, UserCancel, UserSync, CallEnds,
       UserToggle, UserOps
  <2>3. enabled' \in BOOLEAN
    BY <1>2 DEF User, UserCreate, UserClear, UserRetry, UserCancel, UserSync, CallEnds,
       UserToggle, WorldOK
  <2>4. events' \in [calls : 0..MaxCalls, outside : 0..MaxEvents]
    BY <2>2 DEF UserOp, WorldOK
  <2> QED
    BY <2>1, <2>3, <2>4 DEF ObservedTyped, ScanOK, ScanTyped, WorldOK
<1>3. CASE Outside
  <2>1. UNCHANGED <<observed, scan, enabled, made>>
    BY <1>3 DEF Outside
  <2>2. events' \in [calls : 0..MaxCalls, outside : 0..MaxEvents]
    BY <1>3 DEF Outside, Happens, WorldOK
  <2>3. disk' \in [source : BOOLEAN, target : BOOLEAN] /\ title' \in Titles
    BY <1>3 DEF Outside, WorldOK, Titles
  <2> QED
    BY <2>1, <2>2, <2>3 DEF ObservedTyped, ScanOK, ScanTyped, WorldOK
<1>4. CASE Tick
  <2>1. ObservedTyped'
    BY <1>4 DEF Tick, ObservedTyped, Observations
  <2> QED
    BY <1>4, <2>1 DEF Tick, ScanOK, ScanTyped, WorldOK
<1>5. CASE UNCHANGED vars
  BY <1>5 DEF vars, ObservedTyped, ScanOK, ScanTyped, WorldOK
<1> QED
  BY <1>1, <1>2, <1>3, <1>4, <1>5, ScanRest DEF Next

-----------------------------------------------------------------------------
(* The bound on the retries.                                                *)

Translations == {i \in DOMAIN jobs : jobs[i].kind = "translate"}
Newest(i) == i \in Translations /\ \A j \in Translations : j <= i
\* A delivered translation that is the newest leaves a start to spare.
Spare == \A i \in Delivered : Newest(i) => made < Cardinality(Delivered) + MaxUndelivered
Counted == made <= IF observed = None THEN 0 ELSE observed.attempts
Started == made > 0 => Translations # {}

LEMMA RetryParts == RetryInv <=> Counted /\ Started /\ QuietDone /\ Spare
BY DEF RetryInv, Counted, Started, QuietDone, Quiet, Spare, Newest, Translations, Delivered

LEMMA MaxUndeliveredFacts == MaxUndelivered \in Nat \ {0} /\ MaxRetries <= MaxUndelivered
BY DEF MaxUndelivered

LEMMA RowsFinite ==
  ASSUME NEW rows \in Seq(Rows) PROVE IsFiniteSet(DOMAIN rows) /\ DOMAIN rows \subseteq Int
<1>1. DOMAIN rows = 1..Len(rows) /\ Len(rows) \in Int
  OBVIOUS
<1> QED
  BY <1>1, FS_Interval

LEMMA DeliveredFinite ==
  ASSUME jobs \in Seq(Rows) PROVE IsFiniteSet(Delivered) /\ Cardinality(Delivered) \in Nat
<1>1. Delivered \subseteq DOMAIN jobs
  BY DEF Delivered
<1> QED
  BY <1>1, RowsFinite, FS_Subset, FS_CardinalityType

\* _latest_job returns the newest row of the kind.
LEMMA LatestIsNewest ==
  ASSUME jobs \in Seq(Rows)
  PROVE  \/ Translations = {} /\ Latest("translate") = None
         \/ \E i \in Translations : Newest(i) /\ Latest("translate") = jobs[i]
<1>1. CASE Translations = {}
  BY <1>1 DEF Translations, Latest
<1>2. CASE Translations # {}
  <2>1. Translations \subseteq DOMAIN jobs
    BY DEF Translations
  <2>2. IsFiniteSet(Translations) /\ \A i \in Translations : i \in Int
    BY <2>1, RowsFinite, FS_Subset
  <2>3. \E i \in Translations : \A j \in Translations : j <= i
    BY <1>2, <2>2, MaxExists
  <2>4. Latest("translate") = jobs[CHOOSE i \in Translations : \A j \in Translations : j <= i]
    BY <1>2 DEF Latest, Translations
  <2> QED
    BY <2>3, <2>4 DEF Newest
<1> QED
  BY <1>1, <1>2

\* Rows that are only added and completed: those delivered are delivered still, and
\* a newest translation that is delivered was so before, or is one more.
LEMMA DeliveredGrows ==
  ASSUME jobs \in Seq(Rows), jobs' \in Seq(Rows), DOMAIN jobs \subseteq DOMAIN jobs',
         \A i \in DOMAIN jobs : /\ jobs'[i].kind = jobs[i].kind
                                /\ jobs[i].status = "completed" => jobs'[i].status = "completed",
         \A i \in DOMAIN jobs' \ DOMAIN jobs : jobs'[i].status # "completed"
  PROVE  /\ Cardinality(Delivered) \in Nat /\ Cardinality(Delivered') \in Nat
         /\ Cardinality(Delivered) <= Cardinality(Delivered')
         /\ Translations \subseteq Translations'
         /\ \A i \in Delivered' : Newest(i)' =>
              \/ i \in Delivered /\ Newest(i)
              \/ Cardinality(Delivered) < Cardinality(Delivered')
<1>1. Delivered \subseteq Delivered' /\ Translations \subseteq Translations'
  BY DEF Delivered, Translations
<1>2. IsFiniteSet(Delivered) /\ Cardinality(Delivered) \in Nat
  BY DeliveredFinite
<1>3. IsFiniteSet(Delivered') /\ Cardinality(Delivered') \in Nat
  <2>1. IsFiniteSet(DOMAIN jobs') /\ Delivered' \subseteq DOMAIN jobs'
    BY RowsFinite DEF Delivered
  <2> QED
    BY <2>1, FS_Subset, FS_CardinalityType
<1>4. Cardinality(Delivered) <= Cardinality(Delivered')
  BY <1>1, <1>3, FS_Subset
<1>5. ASSUME NEW i \in Delivered', Newest(i)', i \notin Delivered
      PROVE  Cardinality(Delivered) < Cardinality(Delivered')
  <2>1. Cardinality(Delivered \cup {i}) = Cardinality(Delivered) + 1
    BY <1>2, <1>5, FS_AddElement
  <2>2. Delivered \cup {i} \subseteq Delivered'
    BY <1>1, <1>5
  <2>3. Cardinality(Delivered \cup {i}) <= Cardinality(Delivered')
    BY <1>3, <2>2, FS_Subset
  <2> QED
    BY <1>2, <1>3, <2>1, <2>3
<1>6. ASSUME NEW i \in Delivered, Newest(i)' PROVE Newest(i)
  BY <1>1, <1>6 DEF Newest, Translations, Delivered
<1> QED
  BY <1>1, <1>2, <1>3, <1>4, <1>5, <1>6

LEMMA ChangeGrows ==
  ASSUME FallbackTyped, OneOpen, Change
  PROVE  /\ jobs' \in Seq(Rows) /\ DOMAIN jobs \subseteq DOMAIN jobs'
         /\ \A i \in DOMAIN jobs : /\ jobs'[i].kind = jobs[i].kind
                                   /\ jobs[i].status = "completed" => jobs'[i].status = "completed"
         /\ \A i \in DOMAIN jobs' \ DOMAIN jobs : jobs'[i].status # "completed"
<1>0. jobs' \in Seq(Rows)
  BY ChangeKeepsOneOpen
<1>1. CASE Updated
  BY <1>0, <1>1 DEF Updated, Kept
<1>2. CASE Completes
  BY <1>0, <1>2 DEF Completes
<1>3. CASE Added
  BY <1>0, <1>3, AppendProperties DEF Added, FallbackTyped
<1> QED
  BY <1>1, <1>2, <1>3 DEF Change

\* Steps that start no translation, nor a wanted period.
LEMMA RetryKept ==
  ASSUME FallbackTyped, OneOpen, RestTyped, Change, Started, Spare, RetriesBounded,
         made' \in Nat, made' <= made
  PROVE  Started' /\ Spare' /\ RetriesBounded'
<1>1. /\ Cardinality(Delivered) \in Nat /\ Cardinality(Delivered') \in Nat
      /\ Cardinality(Delivered) <= Cardinality(Delivered')
      /\ Translations \subseteq Translations'
      /\ \A i \in Delivered' : Newest(i)' =>
           \/ i \in Delivered /\ Newest(i)
           \/ Cardinality(Delivered) < Cardinality(Delivered')
  <2>1. jobs \in Seq(Rows)
    BY DEF FallbackTyped
  <2> QED
    BY <2>1, ChangeGrows, DeliveredGrows
<1>2. made \in Nat /\ MaxUndelivered \in Nat
  BY MaxUndeliveredFacts DEF RestTyped
<1>3. Started'
  BY <1>1, <1>2 DEF Started
<1>4. RetriesBounded'
  BY <1>1, <1>2 DEF RetriesBounded, MaxUndelivered
<1>5. ASSUME NEW i \in Delivered', Newest(i)'
      PROVE  made' < Cardinality(Delivered') + MaxUndelivered
  <2>1. CASE i \in Delivered /\ Newest(i)
    BY <1>1, <1>2, <2>1 DEF Spare
  <2>2. CASE Cardinality(Delivered) < Cardinality(Delivered')
    BY <1>1, <1>2, <2>2 DEF RetriesBounded
  <2> QED
    BY <1>1, <1>5, <2>1, <2>2
<1>6. Spare'
  BY <1>5 DEF Spare, MaxUndelivered
<1> QED
  BY <1>3, <1>4, <1>6

\* clear_jobs: a history without translations that went is as before; else the
\* count starts anew.
LEMMA RetryCut ==
  ASSUME FallbackTyped, RestTyped, Cut, Counted, Started, Spare, RetriesBounded
  PROVE  Counted' /\ Started' /\ Spare' /\ RetriesBounded'
<1>0. /\ observed' = observed /\ made \in Nat /\ MaxUndelivered \in Nat \ {0}
      /\ jobs' \in Seq(Rows) /\ jobs \in Seq(Rows)
  BY MaxUndeliveredFacts DEF Cut, RestTyped, FallbackTyped
<1>1. CASE made' = 0
  <2>1. Counted'
    BY <1>0, <1>1 DEF Counted, RestTyped, ObservedTyped, Observations
  <2>2. Cardinality(Delivered') \in Nat
    <3>1. IsFiniteSet(DOMAIN jobs') /\ Delivered' \subseteq DOMAIN jobs'
      BY <1>0, RowsFinite DEF Delivered
    <3> QED
      BY <3>1, FS_Subset, FS_CardinalityType
  <2> QED
    BY <1>0, <1>1, <2>1, <2>2 DEF Started, Spare, RetriesBounded, MaxUndelivered
<1>2. CASE made' = made /\ \A i \in DOMAIN jobs \ DOMAIN jobs' : jobs[i].kind # "translate"
  <2>1. Translations' = Translations /\ Delivered' = Delivered
    BY <1>2 DEF Cut, Translations, Delivered
  <2> QED
    BY <1>0, <1>2, <2>1 DEF Counted, Started, Spare, Newest, RetriesBounded, MaxUndelivered
<1> QED
  BY <1>1, <1>2 DEF Cut

\* The scanner starts a translation: there was none, or one came to nothing and the
\* attempts are not used up, or one was delivered.
LEMMA StartAllowed ==
  ASSUME FallbackTyped, RestTyped, Started, Spare, RetriesBounded,
         NEW o \in Observations, NEW c, NextAction(c, o) = "translate",
         NEW m \in Nat, m <= made, m <= o.attempts
  PROVE  m < Cardinality(Delivered) + MaxUndelivered
<1>0. /\ made \in Nat /\ MaxUndelivered \in Nat \ {0} /\ MaxRetries <= MaxUndelivered
      /\ Cardinality(Delivered) \in Nat /\ o.attempts \in Nat
  BY MaxUndeliveredFacts, DeliveredFinite DEF RestTyped, FallbackTyped, Observations
<1>1. CASE Translations = {} /\ Latest("translate") = None
  BY <1>0, <1>1 DEF Started
<1>2. ASSUME NEW i \in Translations, Newest(i), Latest("translate") = jobs[i]
      PROVE  m < Cardinality(Delivered) + MaxUndelivered
  <2>1. i \in DOMAIN jobs /\ jobs[i] \in Rows /\ jobs[i] # None /\ jobs[i].kind = "translate"
    BY RowTyped, NoneAssumption DEF Translations
  <2>2. OpenOf(JobKinds) = {} /\ (Is(jobs[i], {"failed", "cancelled", "skipped"}) => CanRetryFailed(o))
    <3> HIDE DEF OpenOf, JobKinds
    <3> QED
      BY <1>2 DEF NextAction
  <2>3. jobs[i].status \in {"completed", "failed", "cancelled", "skipped"}
    BY <2>1, <2>2 DEF OpenOf, Rows, Statuses, OpenStatuses
  <2>4. CASE jobs[i].status = "completed"
    BY <1>0, <1>2, <2>1, <2>4 DEF Spare, Delivered
  <2>5. CASE jobs[i].status \in {"failed", "cancelled", "skipped"}
    <3>1. o.attempts < MaxRetries
      BY <2>1, <2>2, <2>5 DEF Is, CanRetryFailed
    <3> QED
      BY <1>0, <3>1
  <2> QED
    BY <2>3, <2>4, <2>5
<1>3. jobs \in Seq(Rows)
  BY DEF FallbackTyped
<1> QED
  BY <1>1, <1>2, <1>3, LatestIsNewest

\* observe_candidate, the decision and the creation: a new period starts with none,
\* and what is started is counted.
LEMMA RetryEnqueue ==
  ASSUME FallbackTyped, OneOpen, RestTyped, RestTyped', Counted, Started, Spare, RetriesBounded,
         ScanEnqueue
  PROVE  Counted' /\ Started' /\ Spare' /\ RetriesBounded'
<1> DEFINE o == Observe
           act == IF enabled THEN NextAction(scan.cand, o) ELSE "none"
           new == act \in JobKinds /\ Outcome(act) = "new"
           o2 == IF new THEN [o EXCEPT !.attempts = @ + 1] ELSE o
           m == IF enabled /\ (observed = None \/ ~observed.wanted) THEN 0 ELSE made
<1>1. o \in Observations /\ made \in Nat /\ m \in Nat /\ m <= made
  BY DEF Observe, RestTyped, ObservedTyped, Observations
<1>2. enabled => m <= o.attempts
  <2>1. CASE observed = None \/ ~observed.wanted
    BY <2>1 DEF Observe
  <2>2. CASE ~(observed = None \/ ~observed.wanted)
    BY <2>2 DEF Observe, Counted
  <2> QED
    BY <2>1, <2>2
<1>3. /\ observed' = (IF enabled THEN o2 ELSE observed)
      /\ made' = m + (IF new /\ act = "translate" THEN 1 ELSE 0)
      /\ act \in JobKinds => Room /\ \E task \in BOOLEAN : jobs' = Create(act, TRUE, task)
  BY DEF ScanEnqueue
<1>4. o2 \in Observations /\ o2 # None
      /\ o2.attempts = o.attempts + (IF new THEN 1 ELSE 0)
  <2> HIDE DEF new, o
  <2>1. [o EXCEPT !.attempts = @ + 1] \in Observations
        /\ [o EXCEPT !.attempts = @ + 1].attempts = o.attempts + 1 /\ o.attempts \in Nat
    BY <1>1 DEF Observations
  <2> QED
    BY <1>1, <2>1, NoneAssumption
<1>5. Change
  BY ScanChange DEF Scan
<1>6. act = "translate" => enabled /\ NextAction(scan.cand, o) = "translate"
  OBVIOUS
<1>7. CASE ~(new /\ act = "translate")
  <2>1. made' = m
    BY <1>1, <1>3, <1>7
  <2>2. ~enabled => m = made
    OBVIOUS
  <2> HIDE DEF o, act, new, o2, m
  <2>3. Counted'
    <3>1. CASE enabled
      <4>1. observed' = o2 /\ o2.attempts >= o.attempts
        BY <1>1, <1>3, <1>4, <3>1 DEF Observations
      <4> QED
        BY <1>1, <1>2, <1>4, <2>1, <3>1, <4>1 DEF Counted, Observations
    <3>2. CASE ~enabled
      BY <1>3, <2>1, <2>2, <3>2 DEF Counted
    <3> QED
      BY <3>1, <3>2
  <2> QED
    BY <1>1, <1>5, <2>1, <2>3, RetryKept
<1>8. CASE new /\ act = "translate"
  <2>1. m < Cardinality(Delivered) + MaxUndelivered
    <3> HIDE DEF o, m
    <3> QED
      BY <1>1, <1>2, <1>6, <1>8, StartAllowed
  <2>2. enabled /\ Outcome("translate") = "new" /\ Room
        /\ \E task \in BOOLEAN : jobs' = Create("translate", TRUE, task)
    <3> HIDE DEF o
    <3> QED
      BY <1>3, <1>6, <1>8
  <2>3. PICK row \in Rows : jobs' = Append(jobs, row) /\ row.kind = "translate"
                            /\ row.status = "pending"
    <3> PICK task \in BOOLEAN : jobs' = Create("translate", TRUE, task)
      BY <2>2
    <3> DEFINE row == [kind |-> "translate", status |-> "pending", reason |-> None,
                       auto |-> TRUE, task |-> task, cool |-> 0]
    <3>1. row \in Rows /\ row.kind = "translate" /\ row.status = "pending"
      BY DEF Rows, JobKinds, Statuses, OpenStatuses, Reasons
    <3>2. jobs' = Append(jobs, row)
      BY <2>2 DEF Create, Insert
    <3> HIDE DEF row
    <3> QED
      BY <3>1, <3>2
  <2>4. observed' = o2 /\ made' = m + 1 /\ o2.attempts = o.attempts + 1 /\ o.attempts \in Nat
    <3> HIDE DEF o, o2, m, new
    <3> QED
      BY <1>1, <1>3, <1>4, <1>8, <2>2 DEF Observations
  <2> HIDE DEF o, act, new, o2, m
  <2>5. /\ DOMAIN jobs' = DOMAIN jobs \cup {Len(jobs) + 1} /\ jobs'[Len(jobs) + 1] = row
        /\ DOMAIN jobs = 1..Len(jobs) /\ Len(jobs) \in Nat
    BY <2>3, AppendProperties DEF FallbackTyped
  <2>6. Counted'
    BY <1>1, <1>2, <1>4, <2>2, <2>4 DEF Counted
  <2>7. Started'
    BY <2>3, <2>5 DEF Started, Translations
  <2>8. /\ Cardinality(Delivered) \in Nat /\ Cardinality(Delivered') \in Nat
        /\ Cardinality(Delivered) <= Cardinality(Delivered')
    BY <1>5, ChangeGrows, DeliveredGrows DEF FallbackTyped
  <2>9. RetriesBounded'
    BY <1>1, <2>1, <2>4, <2>8, MaxUndeliveredFacts DEF RetriesBounded, MaxUndelivered
  <2>10. Spare'
    <3>1. ASSUME NEW i \in Delivered', Newest(i)' PROVE FALSE
      <4>1. i \in DOMAIN jobs' /\ jobs'[i].status = "completed" /\ Len(jobs) + 1 <= i
        BY <2>3, <2>5, <3>1 DEF Delivered, Newest, Translations
      <4> QED
        BY <2>3, <2>5, <4>1
    <3> QED
      BY <3>1 DEF Spare
  <2> QED
    BY <2>6, <2>7, <2>9, <2>10
<1> QED
  BY <1>7, <1>8

LEMMA RetryStep ==
  ASSUME FallbackTyped, OneOpen, RestTyped, Counted, Started, Spare, RetriesBounded, [Next]_vars
  PROVE  Counted' /\ Started' /\ Spare' /\ RetriesBounded'
<1>0. RestTyped'
  BY RestStep
\* Every other step leaves the count, and the attempts, as they are.
<1>1. ASSUME Change, made' = made,
             observed' = observed \/ (/\ observed # None /\ observed' # None
                                      /\ observed'.attempts = observed.attempts)
      PROVE  Counted' /\ Started' /\ Spare' /\ RetriesBounded'
  <2>1. made \in Nat /\ made <= made
    BY DEF RestTyped
  <2>2. Counted'
    BY <1>1 DEF Counted
  <2> QED
    BY <1>1, <2>1, <2>2, RetryKept
<1>2. CASE ScanEnqueue
  BY <1>0, <1>2, RetryEnqueue
<1>3. CASE ScanFetch \/ ScanFails \/ ScanVerify
  BY <1>1, <1>3, ScanChange DEF Scan, ScanFetch, ScanFails, ScanVerify
<1>4. ASSUME ScanBuild \/ Tick PROVE Counted' /\ Started' /\ Spare' /\ RetriesBounded'
  <2>1. Change /\ made' = made
    BY <1>4, ScanChange, TickChange DEF Scan, ScanBuild, Tick
  <2>2. \/ observed' = observed
        \/ observed # None /\ observed' \in {[observed EXCEPT !.wanted = FALSE],
                                             [observed EXCEPT !.age = @ + 1]}
    BY <1>4 DEF ScanBuild, Tick
  <2>3. CASE observed # None /\ observed' \in {[observed EXCEPT !.wanted = FALSE],
                                               [observed EXCEPT !.age = @ + 1]}
    <3>1. observed' # None
      <4>1. observed \in Observations /\ None \notin Observations
        BY <2>3, NoneAssumption DEF RestTyped, ObservedTyped
      <4>2. observed' = None \/ observed' \in Observations
        BY <1>0 DEF RestTyped, ObservedTyped
      <4>3. [observed EXCEPT !.wanted = FALSE] \in Observations
        BY <4>1 DEF Observations
      <4>4. \/ observed' = [observed EXCEPT !.age = @ + 1] /\ observed.age < Grace
            \/ observed' = [observed EXCEPT !.wanted = FALSE]
            \/ observed' = observed
        BY <1>4 DEF ScanBuild, Tick
      <4>5. observed.age < Grace => [observed EXCEPT !.age = @ + 1] \in Observations
        BY <4>1 DEF Observations
      <4> QED
        BY <4>1, <4>3, <4>4, <4>5
    <3>2. observed'.attempts = observed.attempts
      <4>1. observed \in Observations
        BY <2>3 DEF RestTyped, ObservedTyped
      <4> QED
        BY <2>3, <4>1 DEF Observations
    <3> QED
      BY <1>1, <2>1, <2>3, <3>1, <3>2
  <2> QED
    BY <1>1, <2>1, <2>2, <2>3
<1>5. ASSUME NEW i \in Ids, Work(i) PROVE Counted' /\ Started' /\ Spare' /\ RetriesBounded'
  <2>1. UNCHANGED <<observed, made>>
    BY <1>5 DEF Work, Claim, Stop, Gone, Found, LookupEmpty, Trigger, Poll, RequestFallback,
       Extracted, Rescanned, ChainStart, ChainEnd, Translated, Fails, OutsideRuns
  <2> QED
    BY <1>1, <1>5, <2>1, WorkChange
<1>6. CASE User
  <2>1. CASE Cut
    BY <2>1, RetryCut
  <2>2. CASE Change
    <3>1. UNCHANGED observed /\ (made' = made \/ \E K \in Each(JobKinds), S \in Each(Statuses) : UserClear(K, S))
      BY <1>6 DEF User, UserCreate, UserClear, UserRetry, UserCancel, UserSync, CallEnds, UserToggle
    <3>2. ASSUME NEW K, NEW S, UserClear(K, S)
          PROVE  Counted' /\ Started' /\ Spare' /\ RetriesBounded'
      BY <3>2, ClearCuts, RetryCut
    <3> QED
      BY <1>1, <2>2, <3>1, <3>2
  <2> QED
    BY <1>6, <2>1, <2>2, UserChange
<1>7. CASE Outside \/ UNCHANGED vars
  BY <1>1, <1>7, UnchangedRows DEF Outside, vars
<1> QED
  BY <1>2, <1>3, <1>4, <1>5, <1>6, <1>7 DEF Next, Scan

LEMMA RetryInitial == Init => RestTyped /\ Counted /\ Started /\ Spare /\ RetriesBounded
<1> SUFFICES ASSUME Init PROVE RestTyped /\ Counted /\ Started /\ Spare /\ RetriesBounded
  OBVIOUS
<1>1. jobs = <<>> /\ DOMAIN jobs = {} /\ made = 0 /\ observed = None
  BY DEF Init
<1>2. Delivered = {}
  BY <1>1 DEF Delivered
<1>3. RestTyped
  <2>1. ScanOK
    BY DEF Init, ScanOK, ScanTyped, NoScan
  <2>2. WorldOK
    BY DEF Init, WorldOK, Titles, Cases
  <2> QED
    BY <1>1, <2>1, <2>2 DEF RestTyped, ObservedTyped
<1>4. Cardinality(Delivered) = 0
  BY <1>2, FS_EmptySet
<1> QED
  BY <1>1, <1>2, <1>3, <1>4, MaxUndeliveredFacts DEF Counted, Started, Spare, RetriesBounded

LEMMA OneOpenCounts == OneOpen => OneOpenPerKind
<1> SUFFICES ASSUME OneOpen, NEW k \in JobKinds PROVE Cardinality(OpenOf({k})) <= 1
  BY DEF OneOpenPerKind
<1>1. CASE OpenOf({k}) = {}
  BY <1>1, FS_EmptySet
<1>2. ASSUME NEW i \in OpenOf({k}) PROVE Cardinality(OpenOf({k})) <= 1
  <2>1. OpenOf({k}) = {i}
    BY <1>2 DEF OneOpen, OpenOf
  <2> QED
    BY <2>1, FS_Singleton
<1> QED
  BY <1>1, <1>2

-----------------------------------------------------------------------------
\* Two open jobs of one kind never exist for a title, however long the candidate
\* lookups of those who create them take, and however many rows are cleared.
THEOREM OneJobOfAKind == Spec => []OneOpenPerKind
BY OneOpenCounts, FallbackInitial, FallbackStep, PTL DEF Spec

\* The types, one open job of a kind, and in one wanted period no more translations
\* that come to nothing than the scanner may start (enqueue_for_candidate,
\* _can_retry_failed), whatever the users clear, cancel and retry meanwhile.
THEOREM RetriesAreBounded == Spec => []FallbackSafe
<1> DEFINE IInv == /\ FallbackTyped /\ OneOpen /\ RestTyped
                   /\ Counted /\ Started /\ Spare /\ RetriesBounded
<1>1. Init => IInv
  BY FallbackInitial, RetryInitial
<1>2. IInv /\ [Next]_vars => IInv'
  BY FallbackStep, RestStep, RetryStep
<1>3. IInv => FallbackSafe
  <2> SUFFICES ASSUME IInv PROVE FallbackSafe
    OBVIOUS
  <2>1. TypeOK
    BY DEF TypeOK, FallbackTyped, RestTyped, ObservedTyped, ScanOK, WorldOK, Runs, Calls
  <2> QED
    BY <2>1, OneOpenCounts DEF FallbackSafe
<1> HIDE DEF IInv
<1> QED
  BY <1>1, <1>2, <1>3, PTL DEF Spec

\* No caller, however stale what it decided on, opens a translation while the
\* target is on disk or its source is not.
THEOREM NothingFutile == Spec => NoFutileTranslation
<1> DEFINE Futile(i) == i \notin DOMAIN jobs /\ jobs'[i].kind = "translate"
                        /\ jobs'[i].status = "pending" /\ ~(disk.source /\ ~disk.target)
<1>1. ASSUME FallbackTyped, [Next]_vars PROVE \A i \in DOMAIN jobs' : ~Futile(i)
  <2>1. CASE Updated \/ Cut
    BY <2>1 DEF Updated, Cut
  <2>2. CASE Added
    <3> PICK row \in Rows : jobs' = Append(jobs, row) /\ Sound(row)
      BY <2>2 DEF Added
    <3>1. DOMAIN jobs' = DOMAIN jobs \cup {Len(jobs) + 1} /\ jobs'[Len(jobs) + 1] = row
      BY <1>1, AppendProperties DEF FallbackTyped
    <3>2. row.status = "pending" /\ row.kind = "translate" => disk.source /\ ~disk.target
      BY DEF Sound, OpenStatuses
    <3> QED
      BY <3>1, <3>2
  <2>3. CASE Completes
    BY <2>3 DEF Completes
  <2> QED
    BY <1>1, <2>1, <2>2, <2>3, StepChange DEF Change
<1>2. ASSUME FallbackTyped, [Next]_vars
      PROVE  [\A i \in DOMAIN jobs' :
                 /\ i \notin DOMAIN jobs
                 /\ jobs'[i].kind = "translate" /\ jobs'[i].status = "pending"
                 => disk.source /\ ~disk.target]_vars
  BY <1>1, <1>2
<1> QED
  BY <1>2, FallbackInitial, FallbackStep, PTL DEF Spec, NoFutileTranslation
=============================================================================
