---------------------------- MODULE TranscribeJob ----------------------------
(***************************************************************************)
(* Transcribing a title's sound: the job rows, the coroutine of            *)
(* localization/transcription/service.py, the watcher that looks at the    *)
(* row each second, and the Whisper thread of each chunk.  The thread      *)
(* cannot be cancelled: it asks for its flag before each segment.  What    *)
(* chunks and segments hold is in SpeechText.                              *)
(***************************************************************************)
EXTENDS Integers, FiniteSets

CONSTANTS
  TrJobs,     \* bound on the title's transcribe rows: 1..n
  TrChunks,   \* chunks planned for the title
  TrSegments  \* segments Whisper finds in a chunk

ASSUME TrAssumption == /\ TrJobs \in Nat \ {0} /\ TrChunks \in Nat \ {0}
                       /\ TrSegments \in Nat \ {0}

VARIABLES
  trRow,     \* status of each row
  trRun,     \* its coroutine: the stage, the chunk, the chunks heard so far
  trFlag,    \* its cancel flag, which the watcher and every end of the run set
  trThread,  \* its Whisper thread
  trOut      \* the sidecar of the transcript's language

trVars == <<trRow, trRun, trFlag, trThread, trOut>>

TrRows == 1..TrJobs
TrAwaits == {"probe", "extract", "part", "whisper", "rescan"}
TrRest == [at |-> "idle", chunk |-> 0, heard |-> {}]
TrNoThread == [at |-> "none", seg |-> 0]

TrTypeOK ==
  /\ trRow \in [TrRows -> {"none", "pending", "processing", "completed", "failed", "cancelled"}]
  /\ trRun \in [TrRows -> [at : TrAwaits \cup {"idle", "chunk", "write", "commit"},
                           chunk : 0..TrChunks, heard : SUBSET (1..TrChunks)]]
  /\ trFlag \in [TrRows -> BOOLEAN]
  /\ trThread \in [TrRows -> [at : {"none", "load", "read", "ok", "bad", "stopped"},
                              seg : 0..TrSegments]]
  /\ trOut \in {"none", "transcript", "foreign"}

TrInit ==
  /\ trRow = [r \in TrRows |-> "none"] /\ trRun = [r \in TrRows |-> TrRest]
  /\ trFlag = [r \in TrRows |-> FALSE] /\ trThread = [r \in TrRows |-> TrNoThread]
  /\ trOut = "none"
-----------------------------------------------------------------------------
TrAt(r, at) == trRun[r].at = at
TrGo(r, at) == trRun' = [trRun EXCEPT ![r].at = at]
\* Whatever ends the transcription sets the flag and stops the watcher.
TrEnd(r) == trRun' = [trRun EXCEPT ![r] = TrRest] /\ trFlag' = [trFlag EXCEPT ![r] = TRUE]

TrFail(r, status) ==
  /\ TrEnd(r)
  /\ trRow' = [trRow EXCEPT ![r] = IF @ = "cancelled" THEN @ ELSE status]

TrCreate(r) ==   \* no open row, and the gate finds nothing to translate
  /\ trRow[r] = "none" /\ \A o \in 1..(r - 1) : trRow[o] # "none"
  /\ \A o \in TrRows : trRow[o] \notin {"pending", "processing"}
  /\ trOut = "none"
  /\ trRow' = [trRow EXCEPT ![r] = "pending"]
  /\ UNCHANGED <<trRun, trFlag, trThread, trOut>>

TrCancel(r) ==
  /\ trRow[r] \in {"pending", "processing"}
  /\ trRow' = [trRow EXCEPT ![r] = "cancelled"]
  /\ UNCHANGED <<trRun, trFlag, trThread, trOut>>

TrClaim(r) ==
  /\ trRow[r] = "pending" /\ TrAt(r, "idle")
  /\ trRow' = [trRow EXCEPT ![r] = "processing"]
  /\ TrGo(r, "probe")
  /\ trFlag' = [trFlag EXCEPT ![r] = FALSE]
  /\ UNCHANGED <<trThread, trOut>>

TrWatch(r) ==   \* watch_cancel and on_progress
  /\ ~TrAt(r, "idle") /\ trRow[r] = "cancelled" /\ ~trFlag[r]
  /\ trFlag' = [trFlag EXCEPT ![r] = TRUE]
  /\ UNCHANGED <<trRow, trRun, trThread, trOut>>

TrUnwound(r) ==   \* the worker cancels a cancelled or overdue job's coroutine
  /\ trRun[r].at \in TrAwaits
  /\ IF TrAt(r, "rescan") THEN TrEnd(r) /\ UNCHANGED trRow ELSE TrFail(r, "failed")
  /\ UNCHANGED <<trThread, trOut>>

TrRestart ==
  /\ trRow' = [r \in TrRows |-> IF trRow[r] = "processing" THEN "pending" ELSE trRow[r]]
  /\ trRun' = [r \in TrRows |-> TrRest] /\ trThread' = [r \in TrRows |-> TrNoThread]
  /\ trFlag' = [r \in TrRows |-> FALSE]
  /\ UNCHANGED trOut

TrForeign ==   \* Bazarr, or the user, puts a subtitle there
  /\ trOut = "none" /\ trOut' = "foreign"
  /\ UNCHANGED <<trRow, trRun, trFlag, trThread>>
-----------------------------------------------------------------------------
TrProbe(r) ==   \* duration and streams: no flag is asked for
  /\ TrAt(r, "probe")
  /\ \/ TrGo(r, "extract") /\ UNCHANGED <<trRow, trFlag>>
     \/ TrFail(r, "failed")
  /\ UNCHANGED <<trThread, trOut>>

\* extract_audio, of the whole sound and of a chunk's part of it; "Transcription
\* cancelled." makes the row cancelled.
TrExtract(r) ==
  /\ trRun[r].at \in {"extract", "part"}
  /\ \/ /\ trRun' = [trRun EXCEPT ![r] = IF TrAt(r, "part") THEN [@ EXCEPT !.at = "whisper"]
                                         ELSE [@ EXCEPT !.at = "chunk", !.chunk = 1]]
        /\ trThread' = IF TrAt(r, "part") THEN [trThread EXCEPT ![r] = [at |-> "load", seg |-> 0]]
                       ELSE trThread
        /\ UNCHANGED <<trRow, trFlag>>
     \/ TrFail(r, "failed") /\ UNCHANGED trThread
     \/ trFlag[r] /\ TrFail(r, "cancelled") /\ UNCHANGED trThread
  /\ UNCHANGED trOut

TrChunk(r) ==   \* a single chunk is the extracted sound itself, and asks nothing
  /\ TrAt(r, "chunk") /\ trThread[r].at = "none"
  /\ IF TrChunks = 1
       THEN /\ TrGo(r, "whisper") /\ trThread' = [trThread EXCEPT ![r] = [at |-> "load", seg |-> 0]]
            /\ UNCHANGED <<trRow, trFlag>>
       ELSE /\ UNCHANGED trThread
            /\ IF trFlag[r] THEN TrFail(r, "cancelled")
               ELSE TrGo(r, "part") /\ UNCHANGED <<trRow, trFlag>>
  /\ UNCHANGED trOut

TrTimeout(r) ==   \* LOCAL_TRANSCRIBE_TIMEOUT: the thread is told, not waited for
  /\ TrAt(r, "whisper") /\ trThread[r].at \in {"load", "read"}
  /\ TrFail(r, "failed")
  /\ UNCHANGED <<trThread, trOut>>

TrHeard(r) ==
  /\ TrAt(r, "whisper") /\ trThread[r].at \in {"ok", "bad", "stopped"}
  /\ IF trThread[r].at = "ok"
       THEN /\ trRun' = [trRun EXCEPT ![r].heard = @ \cup {trRun[r].chunk},
                            ![r].chunk = IF @ = TrChunks THEN @ ELSE @ + 1,
                            ![r].at = IF trRun[r].chunk = TrChunks THEN "write" ELSE "chunk"]
            /\ UNCHANGED <<trRow, trFlag>>
       ELSE TrFail(r, IF trThread[r].at = "bad" THEN "failed" ELSE "cancelled")
  /\ trThread' = [trThread EXCEPT ![r] = TrNoThread]
  /\ UNCHANGED trOut

TrWrite(r) ==   \* merged, formatted, and written over whatever is there
  /\ TrAt(r, "write")
  /\ \/ /\ trRun' = [trRun EXCEPT ![r].at = "commit"]
        /\ trFlag' = [trFlag EXCEPT ![r] = TRUE]
        /\ trOut' = "transcript" /\ UNCHANGED trRow
     \/ TrFail(r, "failed") /\ UNCHANGED trOut          \* no usable speech
  /\ UNCHANGED trThread

TrCommit(r) ==   \* the row is read again; completed before Bazarr is told
  /\ TrAt(r, "commit")
  /\ IF trRow[r] = "cancelled" THEN TrEnd(r) /\ UNCHANGED trRow
     ELSE /\ trRow' = [trRow EXCEPT ![r] = "completed"]
          /\ TrGo(r, "rescan") /\ UNCHANGED trFlag
  /\ UNCHANGED <<trThread, trOut>>

TrRescan(r) ==   \* a rescan that fails is a warning
  /\ TrAt(r, "rescan")
  /\ TrEnd(r)
  /\ UNCHANGED <<trRow, trThread, trOut>>
-----------------------------------------------------------------------------
(* run_faster_whisper, in its thread.                                       *)
TrLoad(r) ==   \* loads the model, decodes the sound; nobody asks for the flag
  /\ trThread[r].at = "load"
  /\ trThread' \in {[trThread EXCEPT ![r].at = at] : at \in {"read", "bad"}}
  /\ UNCHANGED <<trRow, trRun, trFlag, trOut>>

\* Mutant: a cancelled thread returns what it has heard so far.
ReadPartly(r) ==
  /\ trThread[r].at = "read"
  /\ trThread' = IF trThread[r].seg = TrSegments \/ trFlag[r]
                   THEN [trThread EXCEPT ![r].at = "ok"]
                 ELSE [trThread EXCEPT ![r].seg = @ + 1]
  /\ UNCHANGED <<trRow, trRun, trFlag, trOut>>

TrRead(r) ==   \* the flag before each segment; none after the last one
  /\ trThread[r].at = "read"
  /\ \/ trThread[r].seg = TrSegments /\ trThread' = [trThread EXCEPT ![r].at = "ok"]
     \/ /\ trThread[r].seg # TrSegments
        /\ trThread' = IF trFlag[r] THEN [trThread EXCEPT ![r].at = "stopped"]
                       ELSE [trThread EXCEPT ![r].seg = @ + 1]
  /\ UNCHANGED <<trRow, trRun, trFlag, trOut>>

TrConsumed(r) ==   \* the observer takes the result of a thread nobody waits for
  /\ trThread[r].at \in {"ok", "bad", "stopped"} /\ ~TrAt(r, "whisper")
  /\ trThread' = [trThread EXCEPT ![r] = TrNoThread]
  /\ UNCHANGED <<trRow, trRun, trFlag, trOut>>
-----------------------------------------------------------------------------
TrRunStep(r) == \/ TrProbe(r) \/ TrExtract(r) \/ TrChunk(r) \/ TrHeard(r) \/ TrWrite(r)
                \/ TrCommit(r) \/ TrRescan(r)
TrThreadStep(r) == TrLoad(r) \/ TrRead(r) \/ TrConsumed(r)

TrNext ==
  \/ TrRestart \/ TrForeign
  \/ \E r \in TrRows : \/ TrCreate(r) \/ TrCancel(r) \/ TrClaim(r) \/ TrWatch(r)
                       \/ TrUnwound(r) \/ TrTimeout(r) \/ TrRunStep(r) \/ TrThreadStep(r)

TrFair == \A r \in TrRows : WF_trVars(TrRunStep(r)) /\ WF_trVars(TrThreadStep(r))
TrSpec == TrInit /\ [][TrNext]_trVars /\ TrFair
-----------------------------------------------------------------------------
\* The transcript that is written has every segment of every chunk: a thread
\* that is told to stop while its coroutine still waits does not shorten it.
TrWhole ==
  [][\A r \in TrRows :
       /\ TrAt(r, "write") /\ trOut' = "transcript" => trRun[r].heard = 1..TrChunks
       /\ TrAt(r, "whisper") /\ trRun'[r].heard # trRun[r].heard /\ trRun'[r].heard # {}
            => trThread[r].seg = TrSegments]_trVars

\* A job that the user cancelled stays cancelled, whichever of the coroutine,
\* the watcher, the thread and the worker ends it.
TrCancelSticks ==
  [][\A r \in TrRows : trRow[r] = "cancelled" => trRow'[r] = "cancelled"]_trVars

\* A thread that is told to stop hears no further segment, so that it does not
\* keep a processor from the job that comes after.
TrToldThreadStops ==
  [][\A r \in TrRows : trFlag[r] /\ trFlag'[r] => trThread'[r].seg <= trThread[r].seg]_trVars

\* The transcript is whole and a cancel final, for the row and for the thread.
TrSafe == TrWhole /\ TrCancelSticks /\ TrToldThreadStops

\* Every run ends, and every thread does, those nobody waits for as well.
TrEnds == \A r \in TrRows : /\ ~TrAt(r, "idle") ~> TrAt(r, "idle")
                            /\ trThread[r].at # "none" ~> trThread[r].at = "none"

\* docs/subtitle-ai-v0.1-cursor-handoff: an original subtitle is never overwritten.
TrForeignKept == [][trOut = "foreign" => trOut' = "foreign"]_trVars
=============================================================================
