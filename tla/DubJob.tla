------------------------------- MODULE DubJob -------------------------------
(***************************************************************************)
(* Dubbing one title in one language: the job rows (create, retry, cancel, *)
(* claim), the pipeline's coroutine (localization/dubbing/pipeline.py),    *)
(* the cache of finished cues, and the threads that speak cues with one    *)
(* Chatterbox model shared by the whole process.  A thread outlives the    *)
(* coroutine that waits for it, so runs of two rows may share the model.   *)
(* A bound cue has a voice of its own, named by the cue; 0 is the model's  *)
(* default voice.                                                          *)
(***************************************************************************)
EXTENDS Integers, FiniteSets

CONSTANTS
  DubRuns,     \* bound on the title's dub rows: 1..n
  DubCues,     \* cues of the subtitle: 1..n
  DubRecycles  \* values of chatterbox_recycle_cues

ASSUME DubAssumption ==
  DubRuns \in Nat \ {0} /\ DubCues \in Nat \ {0}
  /\ DubRecycles \subseteq Nat /\ DubRecycles # {}

VARIABLES
  dubRow,     \* rows: status, and the cues their bindings give a voice
  dubRun,     \* the row's coroutine
  dubThread,  \* its thread: the cue spoken, its reference, its model
  dubWav,     \* voice of the cue's file in the run's temporary directory
  dubConds,   \* voice conditions of each model object
  dubLoaded,  \* the model object of _MODEL_BY_DEVICE, 0 when there is none
  dubLock,    \* the row whose thread holds _COND_PREP_LOCK, or 0
  dubCache,   \* finished cues by the bindings they were spoken under
  dubOut,     \* the dub beside the media: the voice of each cue
  dubRecycle  \* chatterbox_recycle_cues, which every start of the process reads

dubVars == <<dubRow, dubRun, dubThread, dubWav, dubConds, dubLoaded, dubLock, dubCache, dubOut,
             dubRecycle>>

DubRows == 1..DubRuns
Cues == 1..DubCues
Casts == {{}, {1}, Cues}       \* no voices, voices for some cues, for all
Models == 1..(2 * DubRuns + 1)
Mute == -1
Voices == 0..DubCues
NoDub == [c \in Cues |-> Mute]
DubProcesses == {"shape", "mix", "separate", "mux"}
DubWaits == DubProcesses \cup {"load", "synth", "unload", "slow", "verify"}
NoRun == [at |-> "idle", cue |-> 0, fresh |-> 0, model |-> 0, clips |-> NoDub]
NoSpeaker == [at |-> "none", voice |-> 0, model |-> 0, discard |-> FALSE]

DubTypeOK ==
  /\ dubRow \in [DubRows -> [status : {"none", "pending", "processing", "completed",
                                       "failed", "cancelled"}, bound : Casts]]
  /\ dubRun \in [DubRows -> [at : DubWaits \cup {"idle", "cue", "place", "done"},
                   cue : 0..(DubCues + 1), fresh : 0..DubCues, model : {0} \cup Models,
                   clips : [Cues -> Voices \cup {Mute}]]]
  /\ dubThread \in [DubRows -> [at : {"none", "queued", "prepared"}, voice : Voices,
                                model : {0} \cup Models, discard : BOOLEAN]]
  /\ dubWav \in [DubRows -> Voices \cup {Mute}]
  /\ dubConds \in [Models -> Voices]
  /\ dubLoaded \in {0} \cup Models /\ dubLock \in {0} \cup DubRows
  /\ dubCache \in [Casts -> [Cues -> Voices \cup {Mute}]]
  /\ dubOut \in [Cues -> Voices \cup {Mute}]
  /\ dubRecycle \in DubRecycles

DubInit ==
  /\ dubRow = [r \in DubRows |-> [status |-> "none", bound |-> {}]]
  /\ dubRun = [r \in DubRows |-> NoRun]
  /\ dubThread = [r \in DubRows |-> NoSpeaker]
  /\ dubWav = [r \in DubRows |-> Mute]
  /\ dubConds = [m \in Models |-> 0] /\ dubLoaded = 0 /\ dubLock = 0
  /\ dubCache = [b \in Casts |-> NoDub] /\ dubOut = NoDub
  /\ dubRecycle \in DubRecycles

dubModel == <<dubThread, dubConds, dubLoaded, dubLock, dubRecycle>>
-----------------------------------------------------------------------------
DubIs(r, at) == dubRun[r].at = at
DubGoes(r, at) == dubRun' = [dubRun EXCEPT ![r].at = at]
DubGone(r) == dubRow[r].status = "cancelled"                 \* is_cancelled()
\* The run leaves its temporary directory, and its cue file goes with it.
DubEnd(r) == dubRun' = [dubRun EXCEPT ![r] = NoRun] /\ dubWav' = [dubWav EXCEPT ![r] = Mute]
DubQuit(r) == DubEnd(r) /\ UNCHANGED dubRow                   \* returns None
DubFail(r) ==
  /\ DubEnd(r)
  /\ dubRow' = [dubRow EXCEPT ![r].status = IF DubGone(r) THEN @ ELSE "failed"]

(* The rows.                                                                *)
DubNextRow(r) ==   \* rows are inserted in order, while none is open
  /\ dubRow[r].status = "none" /\ \A o \in 1..(r - 1) : dubRow[o].status # "none"
  /\ \A o \in DubRows : dubRow[o].status \notin {"pending", "processing"}

DubInsert(r, bound) == dubRow' = [dubRow EXCEPT ![r] = [status |-> "pending", bound |-> bound]]

DubStart(r) ==   \* start_manual_dub; replacing removes the dub there is
  /\ DubNextRow(r)
  /\ \E bound \in Casts, replace \in BOOLEAN :
       /\ replace \/ dubOut = NoDub
       /\ DubInsert(r, bound)
  /\ dubOut' = NoDub
  /\ UNCHANGED <<dubRun, dubWav, dubModel, dubCache>>

DubRetry(r) ==   \* retry_job gives the new row neither overrides nor bindings
  /\ DubNextRow(r) /\ r > 1
  /\ DubInsert(r, {})
  /\ dubOut' = NoDub
  /\ UNCHANGED <<dubRun, dubWav, dubModel, dubCache>>

DubCancel(r) ==
  /\ dubRow[r].status \in {"pending", "processing"}
  /\ dubRow' = [dubRow EXCEPT ![r].status = "cancelled"]
  /\ UNCHANGED <<dubRun, dubWav, dubModel, dubCache, dubOut>>

DubClaim(r) ==   \* a dub that is there is not replaced by a run
  /\ dubRow[r].status = "pending" /\ DubIs(r, "idle")
  /\ dubRow' = [dubRow EXCEPT ![r].status = IF dubOut = NoDub THEN "processing" ELSE "failed"]
  /\ dubRun' = [dubRun EXCEPT ![r] = IF dubOut = NoDub THEN [NoRun EXCEPT !.at = "cue", !.cue = 1]
                                     ELSE NoRun]
  /\ UNCHANGED <<dubWav, dubModel, dubCache, dubOut>>

\* The worker cancels the coroutine at an await: its row was cancelled, or ran
\* past the limit and was made failed.  Its thread goes on, and is told to
\* discard what it writes.
DubUnwound(r) ==
  /\ dubRun[r].at \in DubWaits
  /\ DubFail(r)
  /\ dubThread' = [dubThread EXCEPT ![r].discard = dubThread[r].at # "none"]
  /\ UNCHANGED <<dubConds, dubLoaded, dubLock, dubCache, dubOut, dubRecycle>>

DubRestart ==   \* threads and models are gone, processing rows are queued again
  /\ dubRow' = [r \in DubRows |-> [dubRow[r] EXCEPT !.status =
                                     IF @ = "processing" THEN "pending" ELSE @]]
  /\ dubRun' = [r \in DubRows |-> NoRun] /\ dubThread' = [r \in DubRows |-> NoSpeaker]
  /\ dubWav' = [r \in DubRows |-> Mute]
  /\ dubConds' = [m \in Models |-> 0] /\ dubLoaded' = 0 /\ dubLock' = 0
  /\ UNCHANGED <<dubCache, dubOut, dubRecycle>>
-----------------------------------------------------------------------------
(* The pipeline, cue by cue.                                                *)
DubVoice(r) == IF dubRun[r].cue \in dubRow[r].bound THEN dubRun[r].cue ELSE 0
DubSpeakable(r) == dubRow[r].bound # {} => dubRun[r].cue \in dubRow[r].bound
DubKept(r) == dubCache[dubRow[r].bound][dubRun[r].cue]
DubReady(r) == DubIs(r, "cue") /\ ~DubGone(r) /\ DubSpeakable(r)
DubUncached(r) == DubReady(r) /\ DubKept(r) = Mute
DubTurn(r) ==   \* the next cue, or the mix
  IF dubRun[r].cue = DubCues THEN "mix" ELSE "cue"
DubAdd(r, voice, at) ==   \* a clip on the timeline
  LET run == dubRun[r] IN
  dubRun' = [dubRun EXCEPT ![r] = [run EXCEPT !.clips[run.cue] = voice, !.at = at,
                                              !.cue = run.cue + 1]]

\* Mutant: a cue of the cache is skipped, and not put on the timeline.
CachedSkipped(r) ==
  /\ DubReady(r) /\ DubKept(r) # Mute
  /\ dubRun' = [dubRun EXCEPT ![r].at = DubTurn(r), ![r].cue = @ + 1]
  /\ UNCHANGED <<dubRow, dubWav, dubModel, dubCache, dubOut>>

DubCached(r) ==
  /\ DubReady(r) /\ DubKept(r) # Mute
  /\ DubAdd(r, DubKept(r), DubTurn(r))
  /\ UNCHANGED <<dubRow, dubWav, dubModel, dubCache, dubOut>>

DubStops(r) ==   \* a cancelled row, or a cue without a voice in a dub that has voices
  /\ DubIs(r, "cue")
  /\ \/ DubGone(r) /\ DubQuit(r)
     \/ ~DubGone(r) /\ ~DubSpeakable(r) /\ DubFail(r)
  /\ UNCHANGED <<dubModel, dubCache, dubOut>>

DubLoad(r) ==   \* load_chatterbox_model: the loaded model, or a new one, or none
  /\ DubUncached(r) /\ dubRun[r].model = 0
  /\ DubGoes(r, "load")
  /\ UNCHANGED <<dubRow, dubWav, dubModel, dubCache, dubOut>>

DubFree == Models \ ({dubLoaded} \cup {dubRun[r].model : r \in DubRows}
                                 \cup {dubThread[r].model : r \in DubRows})
DubHasModel(r) ==
  /\ DubIs(r, "load")
  /\ \/ DubFail(r) /\ UNCHANGED <<dubConds, dubLoaded>>
     \/ LET m == IF dubLoaded # 0 THEN dubLoaded ELSE CHOOSE f \in DubFree : TRUE IN
        /\ dubRun' = [dubRun EXCEPT ![r] = [@ EXCEPT !.at = "cue", !.model = m]]
        /\ dubLoaded' = m
        /\ dubConds' = IF m = dubLoaded THEN dubConds ELSE [dubConds EXCEPT ![m] = 0]
        /\ UNCHANGED <<dubRow, dubWav>>
  /\ UNCHANGED <<dubThread, dubLock, dubCache, dubOut, dubRecycle>>

DubSpeak(r) ==   \* synthesize: a thread of its own; an earlier one may still run
  /\ DubUncached(r) /\ dubRun[r].model # 0 /\ dubThread[r].at = "none"
  /\ DubGoes(r, "synth")
  /\ dubThread' = [dubThread EXCEPT ![r] =
       [at |-> "queued", voice |-> DubVoice(r), model |-> dubRun[r].model, discard |-> FALSE]]
  /\ UNCHANGED <<dubRow, dubWav, dubConds, dubLoaded, dubLock, dubCache, dubOut, dubRecycle>>
-----------------------------------------------------------------------------
(* write_chatterbox_wav, in its thread.                                     *)
\* Mutant: the reference is prepared outside the lock.
PrepareUnlocked(r) ==
  /\ dubThread[r].at = "queued"
  /\ dubThread' = [dubThread EXCEPT ![r].at = "prepared"]
  /\ dubConds' = IF dubThread[r].voice = 0 THEN dubConds
                 ELSE [dubConds EXCEPT ![dubThread[r].model] = dubThread[r].voice]
  /\ UNCHANGED <<dubRow, dubRun, dubWav, dubLoaded, dubLock, dubCache, dubOut, dubRecycle>>

DubPrepare(r) ==   \* without a reference the conditions stay as they are
  /\ dubThread[r].at = "queued" /\ dubLock = 0
  /\ dubThread' = [dubThread EXCEPT ![r].at = "prepared"]
  /\ dubLock' = r
  /\ dubConds' = IF dubThread[r].voice = 0 THEN dubConds
                 ELSE [dubConds EXCEPT ![dubThread[r].model] = dubThread[r].voice]
  /\ UNCHANGED <<dubRow, dubRun, dubWav, dubLoaded, dubCache, dubOut, dubRecycle>>

\* Mutant: the lock is not given back when the cue is written.
GenerateLocked(r) ==
  /\ dubThread[r].at = "prepared"
  /\ dubThread' = [dubThread EXCEPT ![r] = NoSpeaker]
  /\ \E ok \in BOOLEAN :
       dubWav' = IF ok /\ ~dubThread[r].discard
                   THEN [dubWav EXCEPT ![r] = dubConds[dubThread[r].model]] ELSE dubWav
  /\ UNCHANGED <<dubRow, dubRun, dubConds, dubLoaded, dubLock, dubCache, dubOut, dubRecycle>>

DubGenerate(r) ==   \* what is to be discarded is unlinked by the done callback
  /\ dubThread[r].at = "prepared"
  /\ dubThread' = [dubThread EXCEPT ![r] = NoSpeaker]
  /\ dubLock' = IF dubLock = r THEN 0 ELSE dubLock
  /\ \E ok \in BOOLEAN :
       dubWav' = IF ok /\ ~dubThread[r].discard
                   THEN [dubWav EXCEPT ![r] = dubConds[dubThread[r].model]] ELSE dubWav
  /\ UNCHANGED <<dubRow, dubRun, dubConds, dubLoaded, dubCache, dubOut, dubRecycle>>

DubSpoken(r) ==   \* the coroutine has the cue, or an error, or was cancelled
  /\ DubIs(r, "synth") /\ dubThread[r].at = "none"
  /\ IF DubGone(r) \/ dubWav[r] = Mute THEN DubFail(r)
     ELSE DubGoes(r, "shape") /\ UNCHANGED <<dubRow, dubWav>>
  /\ UNCHANGED <<dubModel, dubCache, dubOut>>
-----------------------------------------------------------------------------
\* Mutant: the count goes on over restarts of the count.
FreshEver(r) == dubRun[r].fresh + dubRun[r].cue + 1

DubFresh(r) == dubRun[r].fresh + 1
DubNextStage(r) ==   \* a slow cue ends the run; the model is recycled between cues
  {"slow"} \cup
  IF dubRecycle > 0 /\ DubFresh(r) >= dubRecycle /\ dubRun[r].cue < DubCues
    THEN {"unload"} ELSE {DubTurn(r)}
DubShaped(r, at) ==
  /\ LET run == dubRun[r] IN
     dubRun' = [dubRun EXCEPT ![r] = [run EXCEPT !.clips[run.cue] = dubWav[r], !.at = at,
                                        !.cue = run.cue + 1, !.fresh = DubFresh(r)]]
  /\ dubWav' = [dubWav EXCEPT ![r] = Mute]

DubShape(r) ==   \* shaped, checked, checkpointed and put on the timeline
  /\ DubIs(r, "shape")
  /\ \E at \in DubNextStage(r) :
       /\ DubShaped(r, at)
       /\ dubCache' = [dubCache EXCEPT ![dubRow[r].bound][dubRun[r].cue] = dubWav[r]]
  /\ UNCHANGED <<dubRow, dubModel, dubOut>>

DubUnload(r) ==   \* what is popped is a tuple, from which nothing can be deleted
  /\ dubRun[r].at \in {"slow", "unload"}
  /\ dubLoaded' = 0
  /\ IF DubIs(r, "slow") \/ dubLoaded # 0 THEN DubFail(r)
     ELSE /\ dubRun' = [dubRun EXCEPT ![r] = [@ EXCEPT !.at = "cue", !.model = 0, !.fresh = 0]]
          /\ UNCHANGED <<dubRow, dubWav>>
  /\ UNCHANGED <<dubThread, dubConds, dubLock, dubCache, dubOut, dubRecycle>>

DubBroken(r) ==   \* ffmpeg, a quality check or the separation fails, or sees the cancel
  /\ dubRun[r].at \in DubProcesses
  /\ DubFail(r)
  /\ UNCHANGED <<dubModel, dubCache, dubOut>>

DubMix(r) ==   \* the separation only for a mix that keeps the background
  /\ \/ DubIs(r, "mix") /\ ~DubGone(r) /\ \E at \in {"separate", "mux"} : DubGoes(r, at)
     \/ DubIs(r, "separate") /\ DubGoes(r, "mux")
     \/ DubIs(r, "mux") /\ ~DubGone(r) /\ DubGoes(r, "place")
  /\ UNCHANGED <<dubRow, dubWav, dubModel, dubCache, dubOut>>

DubPlace(r) ==   \* after the last look at the row: staging file, then replace
  /\ DubIs(r, "place")
  /\ \/ DubGoes(r, "verify") /\ dubOut' = dubRun[r].clips /\ UNCHANGED <<dubRow, dubWav>>
     \/ DubFail(r) /\ UNCHANGED dubOut
  /\ UNCHANGED <<dubModel, dubCache>>

DubVerify(r) ==   \* a verified dub clears its cues; an unverified one is as good
  /\ DubIs(r, "verify")
  /\ \/ /\ DubGoes(r, "done") /\ UNCHANGED <<dubRow, dubWav>>
        /\ dubCache' \in {dubCache} \cup
             IF dubOut = NoDub THEN {} ELSE {[dubCache EXCEPT ![dubRow[r].bound] = NoDub]}
     \/ DubFail(r) /\ UNCHANGED dubCache
  /\ UNCHANGED <<dubModel, dubOut>>

DubDone(r) ==
  /\ DubIs(r, "done")
  /\ DubEnd(r)
  /\ dubRow' = [dubRow EXCEPT ![r].status = IF DubGone(r) THEN @ ELSE "completed"]
  /\ UNCHANGED <<dubModel, dubCache, dubOut>>
-----------------------------------------------------------------------------
DubRunStep(r) == \/ DubCached(r) \/ DubStops(r) \/ DubLoad(r) \/ DubHasModel(r) \/ DubSpeak(r)
                 \/ DubSpoken(r) \/ DubShape(r) \/ DubUnload(r) \/ DubBroken(r) \/ DubMix(r)
                 \/ DubPlace(r) \/ DubVerify(r) \/ DubDone(r)
DubThreadStep(r) == DubPrepare(r) \/ DubGenerate(r)

\* The dub is copied without an await: meanwhile nothing else runs on the loop.
DubLoopFree(r) == \A o \in DubRows \ {r} : ~DubIs(o, "place")
DubOnLoop(r) ==
  /\ DubLoopFree(r)
  /\ DubStart(r) \/ DubRetry(r) \/ DubClaim(r) \/ DubUnwound(r) \/ DubRunStep(r)

DubNext ==
  \/ DubRestart
  \/ \E r \in DubRows : DubOnLoop(r) \/ DubCancel(r) \/ DubThreadStep(r)

\* The loop resumes a coroutine whose await is over, and threads are run.
DubFair == \A r \in DubRows : WF_dubVars(DubLoopFree(r) /\ DubRunStep(r))
                             /\ WF_dubVars(DubThreadStep(r))
DubSpec == DubInit /\ [][DubNext]_dubVars /\ DubFair
-----------------------------------------------------------------------------
\* A cue with a character's voice is spoken, and kept, in that voice, although
\* the threads of two runs share one model and its conditions.
DubOwnVoice ==
  \A b \in Casts, c \in Cues : c \in b => dubCache[b][c] \in {Mute, c}

\* A row is completed with a dub in which every cue is heard, each bound one in
\* its own voice, whatever was cached, interrupted or left by an earlier run.
DubCompletedWhole ==
  [][\A r \in DubRows : dubRow[r].status # "completed" /\ dubRow'[r].status = "completed"
       => \A c \in Cues : /\ dubOut'[c] # Mute
                          /\ c \in dubRow[r].bound => dubOut'[c] = c]_dubVars

\* When a run and its thread are over, no cue file is left in /tmp.
DubNothingLeft ==
  \A r \in DubRows : DubIs(r, "idle") /\ dubThread[r].at = "none" => dubWav[r] = Mute

\* A run that gives up because a cue was slow has kept that cue, so that every
\* such retry under the same voices gets further.
DubSlowCueKept ==
  [][\A r \in DubRows : DubIs(r, "slow") /\ DubIs(r, "idle")' /\ dubRow'[r].status = "failed"
       => dubCache[dubRow[r].bound][dubRun[r].cue - 1] # Mute]_dubVars

\* The cache and /tmp hold what they should, whatever threads outlive their run.
DubSafe == DubOwnVoice /\ DubNothingLeft

\* A dub is delivered whole, and a run that could not go on got one cue further.
DubDelivers == DubCompletedWhole /\ DubSlowCueKept

\* Every run ends, although its threads wait for each other and its row may be
\* cancelled at any time.
DubEnds == \A r \in DubRows : ~DubIs(r, "idle") ~> DubIs(r, "idle")

=============================================================================
