----------------------------- MODULE Extraction -----------------------------
(***************************************************************************)
(* Getting an embedded subtitle track out of a media file: the extract     *)
(* job's coroutine (subtitles/embedded.py), the ffmpeg process it runs     *)
(* through media/process_runner.py, and the OCR thread of a bitmap track   *)
(* (subtitles/ocr.py), with the worker that cancels the coroutine (again   *)
(* at each tick while the row is cancelled), time limits, retries and      *)
(* restarts.  A thread cannot be cancelled: it outlives its coroutine.     *)
(***************************************************************************)
EXTENDS Integers, FiniteSets

CONSTANTS
  ExAttempts,  \* bound on the attempts of a behaviour: 1..n
  ExCues       \* bitmap subtitles of the track

ASSUME ExAssumption == ExAttempts \in Nat \ {0} /\ ExCues \in Nat \ {0}

VARIABLES
  exRow,     \* the job row: its kind of track and its status
  exAt,      \* the coroutine: where it is, and what its runner found
  exCancel,  \* a CancelledError waits for the coroutine's next await
  exProc,    \* the ffmpeg process of the coroutine
  exTemp,    \* the process' output file, in the attempt's own directory
  exThread,  \* the OCR thread of each attempt, with its cancel flag
  exOut,     \* the subtitle beside the media
  exLeft     \* a runner was cut off during its own cleaning

exVars == <<exRow, exAt, exCancel, exProc, exTemp, exThread, exOut, exLeft>>

ExNumbers == 1..ExAttempts
Gone == {"none", "ok", "bad"}              \* processes that do not run
InRunner == {"poll", "grace", "reap"}      \* awaits of run_process
ExAwaits == InRunner \cup {"ocr"}
NoThread == [at |-> "none", cue |-> 0, flag |-> FALSE]
ExRest == [at |-> "idle", path |-> "normal", attempt |-> 0]

ExTypeOK ==
  /\ exRow \in [track : {"text", "bitmap"},
                status : {"new", "pending", "processing", "completed", "failed", "cancelled"}]
  /\ exAt \in [at : ExAwaits \cup {"idle", "clean", "result"},
               path : {"normal", "timeout", "cancelled", "failed"}, attempt : 0..ExAttempts]
  /\ exCancel \in BOOLEAN /\ exLeft \in BOOLEAN
  /\ exProc \in Gone \cup {"running", "terminated", "killed"}
  /\ exTemp \in {"none", "partial", "whole"}
  /\ exThread \in [ExNumbers -> [at : {"none", "check", "ocr", "write", "replace", "done"},
                                 cue : 0..ExCues, flag : BOOLEAN]]
  /\ exOut \in {"none", "whole", "partial", "foreign"}

ExInit ==
  /\ exRow = [track |-> "text", status |-> "new"] /\ exAt = ExRest
  /\ exCancel = FALSE /\ exProc = "none" /\ exTemp = "none"
  /\ exThread = [a \in ExNumbers |-> NoThread] /\ exOut = "none" /\ exLeft = FALSE
-----------------------------------------------------------------------------
Me == exAt.attempt
Going(at) == exAt.at = at
ExGo(at) == exAt' = [exAt EXCEPT !.at = at]
ExEnds == exAt' = [exAt EXCEPT !.at = "idle", !.path = "normal"]

\* The coroutine is over: its temporary directory goes with it, and an
\* exception makes the row failed unless it was cancelled before.
ExRaise ==
  /\ ExEnds
  /\ exTemp' = "none"
  /\ exRow' = [exRow EXCEPT !.status = IF @ = "processing" THEN "failed" ELSE @]

ExStart ==   \* a worker claims the job, or the job that retries it
  /\ Going("idle") /\ exRow.status \in {"new", "pending", "failed", "cancelled"}
  /\ Me < ExAttempts
  /\ \E track \in IF exRow.status = "new" THEN {"text", "bitmap"} ELSE {exRow.track} :
       exRow' = [track |-> track, status |-> IF exOut = "none" THEN "processing" ELSE "failed"]
  /\ exAt' = [at |-> IF exOut = "none" THEN "poll" ELSE "idle",
              path |-> "normal", attempt |-> Me + 1]
  /\ exProc' = IF exOut = "none" THEN "running" ELSE "none"
  /\ exCancel' = FALSE
  /\ UNCHANGED <<exTemp, exThread, exOut, exLeft>>

(* run_process and _stop_process.                                           *)
Terminate(path) ==
  /\ exProc' = IF exProc = "running" THEN "terminated" ELSE exProc
  /\ exAt' = [exAt EXCEPT !.path = path, !.at = IF exProc \in Gone THEN "clean" ELSE "grace"]

PollDone ==
  /\ Going("poll") /\ ~exCancel /\ exProc \in {"ok", "bad"}
  /\ IF exProc = "ok" THEN /\ ExGo("result")
                           /\ UNCHANGED exTemp
     ELSE /\ exAt' = [exAt EXCEPT !.at = "result", !.path = "failed"]
          /\ exTemp' = "none"
  /\ UNCHANGED <<exRow, exCancel, exProc, exThread, exOut, exLeft>>

PollTimeout ==
  /\ Going("poll") /\ ~exCancel
  /\ Terminate("timeout")
  /\ UNCHANGED <<exRow, exCancel, exTemp, exThread, exOut, exLeft>>

\* Mutant: a process that ignores SIGTERM is not killed.
GraceWithoutKill ==
  /\ Going("grace") /\ ~exCancel
  /\ ExGo("clean")
  /\ UNCHANGED <<exRow, exCancel, exProc, exTemp, exThread, exOut, exLeft>>

GraceOver ==   \* it ended on SIGTERM, or SIGKILL follows
  /\ Going("grace") /\ ~exCancel
  /\ IF exProc \in Gone THEN ExGo("clean") /\ UNCHANGED exProc
     ELSE ExGo("reap") /\ exProc' = "killed"
  /\ UNCHANGED <<exRow, exCancel, exTemp, exThread, exOut, exLeft>>

\* The killed process was reaped, or is not within the five seconds given
ReapOver ==
  /\ Going("reap") /\ ~exCancel
  /\ ExGo("clean")
  /\ UNCHANGED <<exRow, exCancel, exProc, exTemp, exThread, exOut, exLeft>>

\* communicate() is given up, which swallows a CancelledError that comes
\* during its await; then the output files go.
CleanUp ==
  /\ Going("clean")
  /\ exTemp' = "none"
  /\ exCancel' \in (IF exProc = "killed" THEN {FALSE} ELSE {exCancel})
  /\ ExGo("result")
  /\ UNCHANGED <<exRow, exProc, exThread, exOut, exLeft>>

RunnerCancelled ==   \* CancelledError inside run_process, but not yet in its cleaning
  /\ exAt.at \in InRunner /\ exAt.path # "cancelled" /\ exCancel
  /\ exCancel' = FALSE
  /\ Terminate("cancelled")
  /\ UNCHANGED <<exRow, exTemp, exThread, exOut, exLeft>>

RunnerCutOff ==      \* ... during the `except` branch: nothing more is done
  /\ exAt.at \in InRunner /\ exAt.path = "cancelled" /\ exCancel
  /\ exCancel' = FALSE /\ exLeft' = TRUE
  /\ ExGo("result")
  /\ UNCHANGED <<exRow, exProc, exTemp, exThread, exOut>>
-----------------------------------------------------------------------------
(* extract_text_track and extract_pgs_track, after the runner.              *)
\* The output file, if there is one, is copied beside the media and renamed
\* without an await; the job is completed unless its row was cancelled meanwhile.
DeliverText ==
  /\ Going("result") /\ exAt.path # "cancelled" /\ exRow.track = "text"
  /\ IF exAt.path = "normal" /\ exTemp # "none"
       THEN /\ exOut' = exTemp
            /\ exRow' = [exRow EXCEPT !.status = IF @ = "processing" THEN "completed" ELSE @]
            /\ ExEnds /\ exTemp' = "none"
       ELSE ExRaise /\ UNCHANGED exOut
  /\ UNCHANGED <<exCancel, exProc, exThread, exLeft>>

StartOcr ==
  /\ Going("result") /\ exAt.path # "cancelled" /\ exRow.track = "bitmap"
  /\ IF exAt.path = "normal"
       THEN /\ exThread' = [exThread EXCEPT ![Me].at = "check"]
            /\ ExGo("ocr") /\ UNCHANGED <<exRow, exTemp>>
       ELSE ExRaise /\ UNCHANGED exThread
  /\ UNCHANGED <<exCancel, exProc, exOut, exLeft>>

Unwound ==   \* the CancelledError leaves the coroutine
  /\ Going("result") /\ exAt.path = "cancelled"
  /\ ExEnds /\ exTemp' = "none"
  /\ UNCHANGED <<exRow, exCancel, exProc, exThread, exOut, exLeft>>

\* Mutant: the thread is left alone when its coroutine stops waiting for it.
OcrForgotten ==
  /\ Going("ocr") /\ exCancel
  /\ exCancel' = FALSE
  /\ ExEnds /\ exTemp' = "none"
  /\ UNCHANGED <<exRow, exProc, exThread, exOut, exLeft>>

OcrCancelled ==
  /\ Going("ocr") /\ exCancel
  /\ exCancel' = FALSE
  /\ exThread' = [exThread EXCEPT ![Me].flag = TRUE]
  /\ ExEnds /\ exTemp' = "none"
  /\ UNCHANGED <<exRow, exProc, exOut, exLeft>>

OcrTimeout ==
  /\ Going("ocr") /\ ~exCancel /\ exThread[Me].at # "done"
  /\ exThread' = [exThread EXCEPT ![Me].flag = TRUE]
  /\ ExRaise
  /\ UNCHANGED <<exCancel, exProc, exOut, exLeft>>

OcrDone ==   \* the thread returned the path, or raised
  /\ Going("ocr") /\ ~exCancel /\ exThread[Me].at = "done"
  /\ IF exThread[Me].cue = ExCues
       THEN /\ exRow' = [exRow EXCEPT !.status = IF @ = "processing" THEN "completed" ELSE @]
            /\ ExEnds /\ exTemp' = "none"
       ELSE ExRaise
  /\ UNCHANGED <<exCancel, exProc, exThread, exOut, exLeft>>

Move(a, at) == exThread' = [exThread EXCEPT ![a].at = at]
ThreadCheck(a) ==   \* is_cancelled, before and after each picture
  /\ exThread[a].at = "check"
  /\ Move(a, IF exThread[a].flag THEN "done"
             ELSE IF exThread[a].cue = ExCues THEN "write" ELSE "ocr")
  /\ UNCHANGED <<exRow, exAt, exCancel, exProc, exTemp, exOut, exLeft>>

ThreadOcr(a) ==
  /\ exThread[a].at = "ocr"
  /\ exThread' = [exThread EXCEPT ![a].at = "check", ![a].cue = @ + 1]
  /\ UNCHANGED <<exRow, exAt, exCancel, exProc, exTemp, exOut, exLeft>>

\* write_srt_atomic with overwrite=False looks for the file, writes another and
\* renames it; a file that exists, and no readable text, are errors: the thread
\* ends short of its last cue.
ThreadLooks(a) ==
  /\ exThread[a].at = "write"
  /\ \/ exOut = "none" /\ Move(a, "replace")
     \/ exThread' = [exThread EXCEPT ![a].at = "done", ![a].cue = 0]
  /\ UNCHANGED <<exRow, exAt, exCancel, exProc, exTemp, exOut, exLeft>>

ThreadReplaces(a) ==
  /\ exThread[a].at = "replace"
  /\ exOut' = "whole" /\ Move(a, "done")
  /\ UNCHANGED <<exRow, exAt, exCancel, exProc, exTemp, exLeft>>
-----------------------------------------------------------------------------
(* The process, the users, the worker, other programs and restarts.         *)
ProcWrites ==
  /\ exProc \in {"running", "terminated"} /\ exTemp = "none"
  /\ exAt.at \in InRunner
  /\ exTemp' = "partial"
  /\ UNCHANGED <<exRow, exAt, exCancel, exProc, exThread, exOut, exLeft>>

ProcEnds ==   \* it finishes, fails, or obeys a signal; it may finish despite one
  /\ exProc \notin Gone
  /\ \/ /\ exProc # "killed" /\ exTemp = "partial"
        /\ exProc' = "ok"
        /\ exTemp' = "whole"
     \/ /\ exProc' = "bad"
        /\ UNCHANGED exTemp
  /\ UNCHANGED <<exRow, exAt, exCancel, exThread, exOut, exLeft>>

ExUserCancel ==
  /\ exRow.status \in {"pending", "processing"}
  /\ exRow' = [exRow EXCEPT !.status = "cancelled"]
  /\ exCancel' = (exAt.at # "idle")
  /\ UNCHANGED <<exAt, exProc, exTemp, exThread, exOut, exLeft>>

WorkerTick ==   \* _reconcile_cancelled_slots: the task is still there
  /\ exRow.status = "cancelled" /\ exAt.at # "idle" /\ ~exCancel
  /\ exCancel' = TRUE
  /\ UNCHANGED <<exRow, exAt, exProc, exTemp, exThread, exOut, exLeft>>

OtherWrites ==   \* Bazarr or a user places a subtitle of the same name
  /\ exOut = "none"
  /\ exOut' = "foreign"
  /\ UNCHANGED <<exRow, exAt, exCancel, exProc, exTemp, exThread, exLeft>>

Restart ==   \* the coroutine and the threads die; the row is queued again
  /\ exRow.status = "processing"
  /\ exRow' = [exRow EXCEPT !.status = "pending"]
  /\ exAt' = [ExRest EXCEPT !.attempt = Me] /\ exCancel' = FALSE
  /\ exProc' = "none" /\ exTemp' = "none"
  /\ exThread' = [a \in ExNumbers |-> [exThread[a] EXCEPT !.at = IF @ = "none" THEN @ ELSE "done"]]
  /\ UNCHANGED <<exOut, exLeft>>

Runner == \/ PollDone \/ PollTimeout \/ GraceOver \/ ReapOver \/ CleanUp
          \/ RunnerCancelled \/ RunnerCutOff
Caller == \/ DeliverText \/ StartOcr \/ Unwound \/ OcrCancelled \/ OcrTimeout \/ OcrDone
Thread(a) == ThreadCheck(a) \/ ThreadOcr(a) \/ ThreadLooks(a) \/ ThreadReplaces(a)
ExNext == \/ ExStart \/ Runner \/ Caller \/ (\E a \in ExNumbers : Thread(a))
          \/ ProcWrites \/ ProcEnds \/ ExUserCancel \/ WorkerTick \/ OtherWrites \/ Restart

ExSpec == ExInit /\ [][ExNext]_exVars
\* The event loop runs its coroutines, time limits expire, threads run.
ExFair == /\ WF_exVars(Runner) /\ WF_exVars(Caller)
          /\ \A a \in ExNumbers : WF_exVars(Thread(a))
-----------------------------------------------------------------------------
\* Whatever is cancelled, killed, timed out or restarted, the file beside the
\* media is whole: never what a process or a thread had half done.
ExOutWhole == exOut # "partial"

\* A completed extraction has a subtitle.
ExCompletedHasFile == exRow.status = "completed" => exOut # "none"

\* A runner that returned leaves no half written file and, unless the kernel
\* holds a killed process, no process, if it was not itself cut off.
ExNothingLeft ==
  Going("result") /\ ~exLeft => exTemp # "partial" /\ exProc \in Gone \cup {"killed"}

\* What is beside the media is whole and, for a completed job, there; a runner
\* leaves nothing behind.
ExSafe == ExOutWhole /\ ExCompletedHasFile /\ ExNothingLeft

\* "Partial output_paths are deleted unless the command completed
\* successfully" (run_process): also when the worker cancels a second time.
ExPartialsDeleted == Going("result") => exTemp # "partial"

\* The OCR of an attempt that was given up (cancelled, timed out, cut off by a
\* restart) adds no subtitle, but for the one it was already writing.
Abandoned(a) == ~(Going("ocr") /\ Me = a)
Writing(a) == exThread[a].at \in {"write", "replace"}
ExGivenUpIsQuiet ==
  [][\A a \in ExNumbers : Abandoned(a) /\ ~Writing(a) => ~Writing(a)']_exVars

\* "The system must never overwrite the original subtitle"
\* (docs/subtitle-ai-v0.1-cursor-handoff:70): also one that comes from elsewhere
\* while a track is extracted.
ExForeignKept == [][exOut = "foreign" => exOut' = "foreign"]_exVars

\* The coroutine ends, although a process may never obey and a thread may
\* never be interrupted.
ExEndsEventually == (exAt.at # "idle") ~> (exAt.at = "idle")
=============================================================================
