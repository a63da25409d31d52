---------------------------- MODULE TranslateJob ----------------------------
(***************************************************************************)
(* One translation job, from its claim to its end (backend/app/jobs/       *)
(* service.py, JobService._process_translate_job): the candidate models    *)
(* are tried in order until one translates the document; the target file   *)
(* is written, the row completed, and the media manager told and asked     *)
(* whether it sees the file.                                               *)
(*                                                                         *)
(* The coroutine shares the row with the threads that serve the API, and   *)
(* the target path with everyone who may write there.  It may be cut off   *)
(* at any await (CancelledError), and the process may die anywhere; the    *)
(* checkpoint of a translation is kept in memory only.                     *)
(***************************************************************************)
EXTENDS TranslateDocument

CONSTANTS
  Candidates,   \* routing.candidates is 1..Candidates
  InTask,       \* the job belongs to a localization task
  MaxRestarts   \* bound on the number of process restarts

ASSUME TranslateJobAssumption ==
  /\ Candidates \in Nat \ {0} /\ InTask \in BOOLEAN /\ MaxRestarts \in Nat
  /\ BatchModels \subseteq 1..Candidates

VARIABLES
  \* persistent
  status,      \* status column of the job row
  target,      \* what is at target_subtitle_path
  content,     \* the translation in the target file, if it is ours
  source,      \* the source subtitle is on disk
  restarts,
  \* memory of the coroutine
  at,          \* where it is
  cand,        \* index of the candidate
  checkpoint,  \* TranslationCheckpoint
  checks       \* verifications of the target made

jobVars == <<status, target, content, source, restarts, at, cand, checkpoint, checks>>
fileVars == <<target, content, source>>
vars == <<docVars, jobVars>>
-----------------------------------------------------------------------------
Places == {"queued",     \* no coroutine
           "attempt",    \* before the next candidate
           "translate",  \* in translate_document
           "check",      \* write_srt_atomic: path.exists()
           "replace",    \* write_srt_atomic: os.replace()
           "commit",     \* completed is set and about to be committed
           "rescan", "verify",
           "failing",    \* an exception has reached the last handler
           "fail",       \* which has decided to mark the row failed
           "ended"}

Empty == [text |-> Nothing, batch |-> 0]
MaxChecks == 3   \* the delays of _verify_target_with_backoff

JobTypeOK ==
  /\ TypeOK
  /\ status \in {"pending", "processing", "completed", "failed", "cancelled"}
  /\ target \in {"none", "ours", "other"} /\ content \in [Cues -> Texts]
  /\ source \in BOOLEAN /\ restarts \in 0..MaxRestarts
  /\ at \in Places /\ cand \in 1..(Candidates + 1)
  /\ checkpoint \in [text : [Cues -> Texts], batch : Nat]
  /\ checks \in 0..MaxChecks
  /\ at \in {"translate", "check", "replace"} <=> stage # "idle"
  /\ at \in {"check", "replace"} => stage = "done"

Init ==
  /\ DocInit
  /\ status = "pending" /\ target = "none" /\ content = Nothing
  /\ source = TRUE /\ restarts = 0
  /\ at = "queued" /\ cand = 1 /\ checkpoint = Empty /\ checks = 0

Cancelled == status = "cancelled"

Goto(place) == at' = place /\ UNCHANGED <<status, fileVars, restarts, cand, checkpoint, checks>>

\* The call of translate_document is over; what it leaves is garbage.
CallOver ==
  /\ stage' = "idle" /\ error' = "none"
  /\ text' = Nothing /\ batch' = 0 /\ pos' = 0 /\ NoBatch
  /\ UNCHANGED <<applied, faults>>
-----------------------------------------------------------------------------
\* The worker has claimed the row; source and candidates are looked at.
Start ==
  /\ at = "queued" /\ status = "pending"
  /\ status' = "processing" /\ at' = "attempt"
  /\ cand' = 1 /\ checkpoint' = Empty /\ checks' = 0
  /\ UNCHANGED <<fileVars, restarts, docVars>>

\* The source is gone or invalid, no model is eligible, or the job is cancelled.
StartFails ==
  /\ at = "attempt" /\ cand = 1
  /\ Goto("failing") /\ UNCHANGED docVars

SeeCancelled ==
  /\ at \in {"attempt", "failing"} \/ (at = "translate" /\ stage = "done")
  /\ Cancelled
  /\ Goto("ended") /\ CallOver

\* budget.reserve refuses the candidate.
BudgetBlocked ==
  /\ at = "attempt" /\ cand <= Candidates /\ ~Cancelled
  /\ cand' = cand + 1
  /\ UNCHANGED <<status, fileVars, restarts, at, checkpoint, checks, docVars>>

\* The for loop is exhausted: its else clause raises.
NoCandidateLeft ==
  /\ at = "attempt" /\ cand > Candidates
  /\ Goto("failing") /\ UNCHANGED docVars

Attempt ==
  /\ at = "attempt" /\ cand <= Candidates /\ ~Cancelled
  /\ Begin(cand, checkpoint)
  /\ Goto("translate")

\* The steps of translate_document.
Translate ==
  /\ at = "translate"
  /\ Answered \/ Failed \/ PollEnds \/ (~Cancelled /\ Continue(cand))
  /\ UNCHANGED jobVars

\* on_progress finds the row cancelled and raises.
ProgressStops ==
  /\ at = "translate" /\ stage \in {"progress", "poll"} /\ Cancelled
  /\ Goto("failing") /\ CallOver

\* Mutant: the checkpoint counts the batch that was being translated.
FallBackAhead ==
  /\ at = "translate" /\ stage = "raised" /\ error # "fatal" /\ cand < Candidates
  /\ checkpoint' = IF error = "retryable"
                     THEN [text |-> text, batch |-> batch + 1] ELSE checkpoint
  /\ cand' = cand + 1 /\ at' = "attempt"
  /\ CallOver
  /\ UNCHANGED <<status, fileVars, restarts, checks>>

\* Mutant: the next model starts from the checkpoint of the failed one's start.
FallBackStale ==
  /\ at = "translate" /\ stage = "raised" /\ error # "fatal" /\ cand < Candidates
  /\ cand' = cand + 1 /\ at' = "attempt"
  /\ CallOver
  /\ UNCHANGED <<status, fileVars, restarts, checkpoint, checks>>

\* RetryableTranslationError, or another technical failure: the next candidate
\* takes over, from the checkpoint that came with the former.
FallBack ==
  /\ at = "translate" /\ stage = "raised" /\ error # "fatal" /\ cand < Candidates
  /\ checkpoint' = IF error = "retryable"
                     THEN [text |-> text, batch |-> batch] ELSE checkpoint
  /\ cand' = cand + 1 /\ at' = "attempt"
  /\ CallOver
  /\ UNCHANGED <<status, fileVars, restarts, checks>>

\* Mutant: the last model's technical failure is passed over.
GiveUpOnFatal ==
  /\ at = "translate" /\ stage = "raised" /\ error = "fatal"
  /\ Goto("failing") /\ CallOver

GiveUp ==
  /\ at = "translate" /\ stage = "raised" /\ (error = "fatal" \/ cand = Candidates)
  /\ Goto("failing") /\ CallOver

\* Mutant: the row is not read again before the write.
DecideUnchecked ==
  /\ at = "translate" /\ stage = "done"
  /\ Goto("check") /\ UNCHANGED docVars

\* The outcome is there and the job not cancelled: write_srt_atomic is called.
Decide ==
  /\ at = "translate" /\ stage = "done" /\ ~Cancelled
  /\ Goto("check") /\ UNCHANGED docVars
-----------------------------------------------------------------------------
\* write_srt_atomic, first its check, then the rename of the complete file.
CheckTarget ==
  /\ at = "check"
  /\ IF target = "none" THEN Goto("replace") /\ UNCHANGED docVars
                        ELSE Goto("failing") /\ CallOver

ReplaceTarget ==
  /\ at = "replace"
  /\ target' = "ours" /\ content' = text /\ at' = "commit"
  /\ CallOver
  /\ UNCHANGED <<status, source, restarts, cand, checkpoint, checks>>

\* Mutant: an error of the write is logged like one of the rescan.
WriteFailsSilently ==
  /\ at = "replace"
  /\ Goto("commit") /\ CallOver

\* The disk is full or the directory read-only: the temporary file is removed.
WriteFails ==
  /\ at = "replace"
  /\ Goto("failing") /\ CallOver

\* completed is committed by the release of the session before the rescan.
CommitCompleted ==
  /\ at = "commit"
  /\ status' = "completed" /\ at' = "rescan"
  /\ UNCHANGED <<fileVars, restarts, cand, checkpoint, checks, docVars>>

\* The database refuses that commit, which is rolled back.  Within the try around
\* the rescan that is a warning: the coroutine ends, its row still in processing.
CommitRefused ==
  /\ at = "commit"
  /\ Goto("ended") \/ Goto("failing")
  /\ UNCHANGED docVars

Rescan ==
  /\ at = "rescan"
  /\ Goto("verify") \/ Goto("ended")     \* a failure is a warning
  /\ UNCHANGED docVars

\* Bazarr lists the target: without a task, an extracted source is removed.
Verified ==
  /\ at = "verify" /\ target # "none"
  /\ source' = IF InTask THEN source ELSE FALSE
  /\ at' = "ended"
  /\ UNCHANGED <<status, target, content, restarts, cand, checkpoint, checks, docVars>>

NotVerified ==
  /\ at = "verify"
  /\ checks' = checks + 1
  /\ at' = IF checks + 1 = MaxChecks THEN "ended" ELSE at
  /\ UNCHANGED <<status, fileVars, restarts, cand, checkpoint, docVars>>

\* The last handler: rollback, a fresh look at the row, failed.
Failing ==
  /\ at = "failing" /\ ~Cancelled
  /\ Goto("fail") /\ UNCHANGED docVars

CommitFailed ==
  /\ at = "fail"
  /\ status' = "failed" /\ at' = "ended"
  /\ UNCHANGED <<fileVars, restarts, cand, checkpoint, checks, docVars>>
-----------------------------------------------------------------------------
\* CancelledError at an await: the task of a cancelled job is cancelled, and
\* that of a job that has run for too long, which the watchdog marks failed.
AtAwait == at \in {"rescan", "verify"} \/ (at = "translate" /\ (stage = "poll" \/ sent))

CutOff ==
  /\ AtAwait
  /\ status' = IF status = "processing" THEN "failed" ELSE status
  /\ at' = "ended"
  /\ CallOver
  /\ UNCHANGED <<fileVars, restarts, cand, checkpoint, checks>>

\* A user cancels the job, on a thread.
Cancel ==
  /\ status \in {"pending", "processing"}
  /\ status' = "cancelled"
  /\ at' = IF at = "queued" THEN "ended" ELSE at
  /\ UNCHANGED <<fileVars, restarts, cand, checkpoint, checks, docVars>>

\* Someone else, Bazarr or a user, puts a file at the target path.
TargetAppears ==
  /\ target = "none"
  /\ target' = "other"
  /\ UNCHANGED <<status, content, source, restarts, at, cand, checkpoint, checks, docVars>>

\* A job in processing that nobody runs is queued again, with nothing but its row.
Requeue ==
  /\ status' = IF status = "processing" THEN "pending" ELSE status
  /\ at' = IF status \in {"pending", "processing"} THEN "queued" ELSE "ended"
  /\ cand' = 1 /\ checkpoint' = Empty /\ checks' = 0
  /\ stage' = "idle" /\ error' = "none" /\ text' = Nothing /\ batch' = 0 /\ pos' = 0
  /\ NoBatch /\ applied' = {} /\ faults' = {}
  /\ UNCHANGED fileVars

\* The process dies and comes back.
Restart ==
  /\ restarts < MaxRestarts
  /\ restarts' = restarts + 1
  /\ Requeue

\* The worker finds a row in processing whose coroutine has ended.
RecoverOrphan ==
  /\ at = "ended" /\ status = "processing"
  /\ Requeue
  /\ UNCHANGED restarts

Coroutine ==
  \/ Start \/ StartFails \/ SeeCancelled
  \/ BudgetBlocked \/ NoCandidateLeft \/ Attempt
  \/ Translate \/ ProgressStops \/ FallBack \/ GiveUp \/ Decide
  \/ CheckTarget \/ ReplaceTarget \/ WriteFails \/ CommitCompleted
  \/ CommitRefused \/ Rescan \/ Verified \/ NotVerified
  \/ Failing \/ CommitFailed

Environment == CutOff \/ Cancel \/ TargetAppears \/ Restart \/ RecoverOrphan

Next == Coroutine \/ Environment

Spec == Init /\ [][Next]_vars

\* The event loop goes on: every request is answered or times out (httpx), and
\* the worker claims what is pending and recovers what was abandoned.
FairSpec == Spec /\ WF_vars(Coroutine) /\ WF_vars(RecoverOrphan)
-----------------------------------------------------------------------------
(* Properties.                                                             *)

\* The file that is written has every cue translated, however many models,
\* checkpoints, repairs and splits it took (translate_document).
WrittenComplete == target = "ours" => \A c \in Cues : content[c] # "missing"

\* A job is only completed when its own file is at the target path, and a
\* source is only removed for a job that is completed, at whatever moment the
\* process dies (the order of write, commit, verification and removal).
CompletedDelivered ==
  /\ status = "completed" => target = "ours"
  /\ ~source => status = "completed"

\* What a request, or the asynchronous batch, is about.
InRequest == IF stage = "poll" THEN Remaining(batch)
             ELSE IF stage \in {"batches", "chunks"} THEN now ELSE {}

\* All failures so far were transient and hit the requests of the batches.
OnlyEarlyFaults == faults \subseteq {<<"transient", "batches">>, <<"transient", "poll">>}

\* After a timeout, 429 or 5xx that hit the requests of the batches, the next
\* model is not sent what was translated before (the checkpoint).
ResumeSkipsDone ==
  OnlyEarlyFaults => InRequest \cap applied = {}

\* "Timeout / 429 / 5xx -> next eligible model; successful batches are not
\* resent" (docs/translation-pipeline.md), wherever the failure hits.
NothingResent ==
  (\A f \in faults : f[1] = "transient") => InRequest \cap applied = {}

\* Repairs and splits end: a batch of n cues takes at most 3(2n-1) requests.
InHand == now \cup (UNION rest) \cup {c \in Cues : got[c] # "missing"}
RequestsBounded == calls > 0 => calls <= 3 * (2 * Cardinality(InHand) - 1)

\* Why: a payload of n cues that starts afresh has 6n - 3 requests ahead of it,
\* and a split takes as many for the halves as the payload has left.
RequestInv ==
  /\ stage = "poll" => Remaining(pos) # {}
  /\ stage \in Working => calls > 0
  /\ calls > 0 =>
       /\ now # {} /\ \A p \in rest : p # {} /\ p \cap now = {}
       /\ \A p, q \in rest : p = q \/ p \cap q = {}
       /\ calls + 6 * Cardinality(now) + 6 * Cardinality(UNION rest) - 3 * Cardinality(rest)
            <= 6 * Cardinality(InHand) + tries + 1

\* A cancellation that comes before the write is decided is respected: nothing
\* is written and the row stays cancelled, whatever the coroutine was doing.
Writing == {"check", "replace", "commit"}
CancelRespected ==
  [][Cancelled /\ at \notin Writing =>
       at' \notin Writing /\ (Cancelled' \/ at = "fail")]_vars

(* The inductive strengthening of WrittenComplete, CompletedDelivered and   *)
(* ResumeSkipsDone.                                                        *)
Filled(t, S) == \A c \in S : t[c] # "missing"

\* A cue of the batch in hand is translated, being translated, or waiting.
InBatch(c) == got[c] # "missing" \/ c \in now \/ \E p \in rest : c \in p

DocInv ==
  /\ Filled(text, Upto(pos))
  /\ stage \in {"batches", "poll", "progress"} => batch = pos
  /\ stage \in {"batches", "chunks"} =>
       \A c \in Cues : InBatch(c) <=> c \in BatchOf(pos + 1)
  /\ stage \in {"reading", "done"} => Filled(text, Cues)
  /\ stage = "raised" => error # "none"

CheckpointInv == Filled(checkpoint.text, Upto(checkpoint.batch))

\* While only the requests of batches have failed, and for a transient reason,
\* whatever was applied is behind the place where the next call resumes.
ResumeInv ==
  /\ at = "queued" => applied = {}
  /\ OnlyEarlyFaults =>
       /\ at = "attempt" => applied \subseteq Upto(checkpoint.batch)
       /\ stage \in {"batches", "poll", "chunks", "progress"} => applied \subseteq Upto(pos)
       /\ stage = "raised" => error = "fatal"
            \/ (error = "retryable" /\ applied \subseteq Upto(batch))

\* The order of write, commit and tail.
DeliveryInv ==
  /\ at \in {"commit", "rescan", "verify"} => target = "ours"
  /\ at \in {"rescan", "verify"} => status = "completed"
  /\ status = "completed" => at \in {"rescan", "verify", "ended"}
  /\ at \notin {"verify", "ended"} => checks = 0
  /\ at = "verify" => checks < MaxChecks

TranslateIInv ==
  /\ JobTypeOK /\ DocInv /\ CheckpointInv /\ ResumeInv /\ DeliveryInv
  /\ WrittenComplete
  /\ status = "completed" => target = "ours"
  /\ ~source => status = "completed" /\ at = "ended"

\* Every job is completed, failed or cancelled in the end.
JobEnds == status \in {"pending", "processing"} ~>
           status \in {"completed", "failed", "cancelled"}
=============================================================================
