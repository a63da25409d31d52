----------------------------- MODULE Separation -----------------------------
(***************************************************************************)
(* AudioSeparationService.separate and its Demucs provider: one run that   *)
(* splits a title's sound into dialogue and background and either returns  *)
(* two verified stems or raises.  A user may cancel at any time, which the *)
(* code asks for at its own points, and the worker cancels the coroutine   *)
(* at any await.  What the processes do is in Extraction.                  *)
(***************************************************************************)
EXTENDS FiniteSets

CONSTANT SepMedia   \* inputs: a subset of SepMedias

SepMedias == [wav : BOOLEAN, window : BOOLEAN, stream : {"none", "missing", "found"}]
ASSUME SepAssumption == SepMedia \subseteq SepMedias /\ SepMedia # {}

VARIABLES
  sepIn,      \* the call's input
  sepAt,      \* the stage the run is in
  sepDirs,    \* temporary directories: of the working audio, of Demucs
  sepStem,    \* dialogue.wav and background.wav in the output directory
  sepStop,    \* is_cancelled() answers true
  sepEnd      \* how the run ended, and at which stage

sepVars == <<sepIn, sepAt, sepDirs, sepStem, sepStop, sepEnd>>

Stems == {"dialogue", "background"}
StemStates == {"none", "good", "empty", "silent", "short"}
SepStages == {"idle", "select", "probe", "prepare", "prepared", "provider", "copy",
              "verify", "background", "durations"}
NoEnd == [how |-> "none", at |-> "idle"]

SepTypeOK ==
  /\ sepIn \in SepMedia /\ sepAt \in SepStages
  /\ sepDirs \subseteq {"work", "demucs"}
  /\ sepStem \in [Stems -> StemStates] /\ sepStop \in BOOLEAN
  /\ sepEnd \in [how : {"none", "verified", "cancelled", "failed", "unwound"}, at : SepStages]

SepInit ==
  /\ sepIn = (CHOOSE i \in SepMedia : TRUE) /\ sepAt = "idle" /\ sepDirs = {}
  /\ sepStem = [s \in Stems |-> "none"] /\ sepStop = FALSE /\ sepEnd = NoEnd
-----------------------------------------------------------------------------
SepGo(at) == sepAt' = at /\ UNCHANGED sepEnd
\* The exception leaves separate(): the working directory goes, whatever the
\* exception is; dirs are the other directories the handler of the stage left.
SepRaise(how, dirs) ==
  /\ sepAt' = "idle" /\ sepEnd' = [how |-> how, at |-> sepAt]
  /\ sepDirs' = dirs \ {"work"}
SepAsk == IF sepStop THEN {"cancelled"} ELSE {"goes"}      \* _raise_if_cancelled
SepProcess == IF sepStop THEN {"cancelled", "ok", "bad"} ELSE {"ok", "bad"}

SepBegin ==   \* the output directory may hold the stems of an earlier run
  /\ sepAt = "idle" /\ sepEnd = NoEnd
  /\ \E i \in SepMedia, old \in {"none", "short"} :
       sepIn' = i /\ sepStem' = [s \in Stems |-> old]
  /\ IF sepStop THEN SepRaise("cancelled", sepDirs)
     ELSE \/ SepGo("select") /\ UNCHANGED sepDirs
          \/ SepRaise("failed", sepDirs)             \* the input is not readable
  /\ UNCHANGED sepStop

SepSelect ==   \* a cancelled ffprobe of the selector is reported as failed
  /\ sepAt = "select"
  /\ \/ "cancelled" \in SepAsk /\ SepRaise("cancelled", sepDirs)
     \/ /\ "goes" \in SepAsk
        /\ IF sepIn.wav \/ sepIn.stream = "found" THEN SepGo("probe") /\ UNCHANGED sepDirs
           ELSE SepRaise("failed", sepDirs)
     \/ /\ ~sepIn.wav
        /\ SepRaise("failed", sepDirs)               \* its process failed
  /\ UNCHANGED <<sepIn, sepStem, sepStop>>

SepProbe ==    \* what cannot be probed is tried all the same
  /\ sepAt = "probe"
  /\ \/ ~sepIn.wav /\ "cancelled" \in SepProcess /\ SepRaise("cancelled", sepDirs)
     \/ SepGo("prepare") /\ sepDirs' = sepDirs \cup {"work"}
  /\ UNCHANGED <<sepIn, sepStem, sepStop>>

SepPrepare ==
  /\ sepAt = "prepare"
  /\ \/ "cancelled" \in SepAsk /\ SepRaise("cancelled", sepDirs)
     \/ "goes" \in SepAsk /\ SepGo("prepared") /\ UNCHANGED sepDirs
     \/ /\ ~sepIn.wav \/ sepIn.window                \* ffmpeg
        /\ \E r \in SepProcess \ {"ok"} :
             SepRaise(IF r = "bad" THEN "failed" ELSE r, sepDirs)
  /\ UNCHANGED <<sepIn, sepStem, sepStop>>

SepPrepared ==   \* the working audio is looked at, then the provider starts
  /\ sepAt = "prepared"
  /\ \/ SepRaise("failed", sepDirs)                  \* no sound in it
     \/ "cancelled" \in SepAsk /\ SepRaise("cancelled", sepDirs)
     \/ "goes" \in SepAsk /\ SepGo("provider") /\ sepDirs' = sepDirs \cup {"demucs"}
  /\ UNCHANGED <<sepIn, sepStem, sepStop>>

\* Demucs: unless it succeeds run_process removes both outputs; one of its
\* stems may be missing although it did.
SepProvider ==
  /\ sepAt = "provider"
  /\ \/ /\ \E r \in SepProcess \ {"ok"} :
             SepRaise(IF r = "bad" THEN "failed" ELSE r, sepDirs \ {"demucs"})
        /\ sepStem' = [s \in Stems |-> "none"]
     \/ SepRaise("failed", sepDirs \ {"demucs"}) /\ UNCHANGED sepStem
     \/ SepGo("copy") /\ UNCHANGED <<sepDirs, sepStem>>
  /\ UNCHANGED <<sepIn, sepStop>>

SepCopy ==   \* dialogue, then background: the disk may be full
  /\ sepAt = "copy"
  /\ \/ /\ sepStem' \in [Stems -> StemStates \ {"none"}]
        /\ SepGo("verify") /\ sepDirs' = sepDirs \ {"demucs"}
     \/ /\ sepStem' \in {[sepStem EXCEPT !.dialogue = "good"], sepStem}
        /\ SepRaise("failed", sepDirs)
  /\ UNCHANGED <<sepIn, sepStop>>

NoStems == [s \in Stems |-> "none"]
\* Mutant: only the stem that was refused is removed.
RefuseOne(s) ==
  /\ SepRaise("failed", sepDirs)
  /\ sepStem' = [sepStem EXCEPT ![s] = "none"]
SepRefuse(s) == SepRaise("failed", sepDirs) /\ sepStem' = NoStems   \* _verify_result

SepVerify ==   \* asks before its `try`: what it raises there removes nothing
  /\ sepAt = "verify"
  /\ \/ "cancelled" \in SepAsk /\ SepRaise("cancelled", sepDirs) /\ UNCHANGED sepStem
     \/ /\ "goes" \in SepAsk
        /\ IF sepStem.dialogue \in {"empty", "silent"} THEN SepRefuse("dialogue")
           ELSE SepGo("background") /\ UNCHANGED <<sepDirs, sepStem>>
  /\ UNCHANGED <<sepIn, sepStop>>

SepBackground ==
  /\ sepAt = "background"
  /\ IF sepStem.background \in {"empty", "silent"} THEN SepRefuse("background")
     ELSE SepGo("durations") /\ UNCHANGED <<sepDirs, sepStem>>
  /\ UNCHANGED <<sepIn, sepStop>>

SepDurations ==   \* _compare_durations, and the result
  /\ sepAt = "durations"
  /\ IF \E s \in Stems : sepStem[s] = "short" THEN SepRefuse("dialogue")
     ELSE /\ sepAt' = "idle" /\ sepEnd' = [how |-> "verified", at |-> sepAt]
          /\ sepDirs' = sepDirs \ {"work"} /\ UNCHANGED sepStem
  /\ UNCHANGED <<sepIn, sepStop>>

SepUserCancels ==
  /\ ~sepStop /\ sepStop' = TRUE
  /\ UNCHANGED <<sepIn, sepAt, sepDirs, sepStem, sepEnd>>

SepUnwound ==   \* CancelledError at an await
  /\ sepAt \in SepStages \ {"idle", "copy"}
  /\ SepRaise("unwound", sepDirs)
  /\ sepStem' \in IF sepAt = "provider" THEN {NoStems, sepStem} ELSE {sepStem}
  /\ UNCHANGED <<sepIn, sepStop>>

SepNext == \/ SepBegin \/ SepSelect \/ SepProbe \/ SepPrepare \/ SepPrepared \/ SepProvider
           \/ SepCopy \/ SepVerify \/ SepBackground \/ SepDurations
           \/ SepUserCancels \/ SepUnwound
SepSpec == SepInit /\ [][SepNext]_sepVars
-----------------------------------------------------------------------------
\* What a caller gets as a result is two stems, both audible and as long as
\* the input, whatever Demucs or an earlier run left in the directory.
SepResultWhole == sepEnd.how = "verified" => \A s \in Stems : sepStem[s] = "good"

\* A refused result leaves neither stem for a later run to find.
SepRefusedRemoved ==
  sepEnd.how = "failed" /\ sepEnd.at \in {"verify", "background", "durations"}
    => sepStem = NoStems

\* The working audio (as large as the title's sound) goes with every end.
SepWorkRemoved == sepAt = "idle" => "work" \notin sepDirs

\* A verified result is good, a refused one is gone, and no run leaves its
\* working files.
SepSafe == SepResultWhole /\ SepRefusedRemoved /\ SepWorkRemoved
=============================================================================
