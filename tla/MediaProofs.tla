----------------------------- MODULE MediaProofs -----------------------------
(* Proofs about the jobs on media files, each for every input, any number   *)
(* of rows, chunks, segments, cues and attempts, and wherever a run is      *)
(* cancelled, refused or unwound: separations, transcriptions, extractions  *)
(* and dubs.  Each part has its invariant, one lemma per part of it (one    *)
(* case per action), and its theorems.                                      *)
EXTENDS MCMedia, FiniteSetTheorems, TLAPS

(* Separations.                                                             *)
USE SepAssumption

\* SepSafe speaks of a run's end.  While it lasts: no end is recorded, the stems
\* are there once they are copied, and a stage later they have been heard.
SepHeard == {"good", "short"}
SepStems == sepStem \in [Stems -> StemStates]
SepInv ==
  /\ SepStems
  /\ sepAt # "idle" => sepEnd = NoEnd
  /\ sepAt = "verify" => \A s \in Stems : sepStem[s] # "none"
  /\ sepAt = "background" => sepStem.dialogue \in SepHeard /\ sepStem.background # "none"
  /\ sepAt = "durations" => sepStem.dialogue \in SepHeard /\ sepStem.background \in SepHeard
  /\ SepSafe

LEMMA SepInitial == SepInit => SepInv
<1> SUFFICES ASSUME SepInit PROVE SepInv
  OBVIOUS
<1>1. sepAt = "idle" /\ sepDirs = {} /\ sepEnd = NoEnd /\ sepStem = [s \in Stems |-> "none"]
  BY Zenon DEF SepInit
<1>2. SepStems
  BY <1>1 DEF SepStems, StemStates
<1> QED
  BY <1>1, <1>2 DEF SepInv, SepSafe, SepResultWhole, SepRefusedRemoved, SepWorkRemoved, NoEnd

LEMMA SepStemStep == SepStems /\ [SepNext]_sepVars => SepStems'
<1> SUFFICES ASSUME SepStems, [SepNext]_sepVars PROVE SepStems'
  OBVIOUS
<1> USE DEF SepStems, StemStates, Stems, NoStems
<1>1. CASE SepBegin
  BY <1>1 DEF SepBegin
<1>2. CASE SepSelect
  BY <1>2 DEF SepSelect
<1>3. CASE SepProbe
  BY <1>3 DEF SepProbe
<1>4. CASE SepPrepare
  BY <1>4 DEF SepPrepare
<1>5. CASE SepPrepared
  BY <1>5 DEF SepPrepared
<1>6. CASE SepProvider
  BY <1>6 DEF SepProvider
<1>7. CASE SepCopy
  BY <1>7 DEF SepCopy
<1>8. CASE SepVerify
  BY <1>8 DEF SepVerify, SepRefuse
<1>9. CASE SepBackground
  BY <1>9 DEF SepBackground, SepRefuse
<1>10. CASE SepDurations
  BY <1>10 DEF SepDurations, SepRefuse
<1>11. CASE SepUserCancels
  BY <1>11 DEF SepUserCancels
<1>12. CASE SepUnwound
  BY <1>12 DEF SepUnwound
<1>13. CASE UNCHANGED sepVars
  BY <1>13 DEF sepVars
<1> QED
  BY <1>1, <1>2, <1>3, <1>4, <1>5, <1>6, <1>7, <1>8, <1>9, <1>10, <1>11, <1>12, <1>13 DEF SepNext

LEMMA SepStep == SepInv /\ [SepNext]_sepVars => SepInv'
<1> SUFFICES ASSUME SepInv, [SepNext]_sepVars PROVE SepInv'
  OBVIOUS
<1>0. SepStems'
  BY SepStemStep DEF SepInv
<1> USE <1>0 DEF SepInv, SepStems, SepSafe, SepResultWhole, SepRefusedRemoved, SepWorkRemoved,
            Stems, StemStates, SepHeard, NoStems, SepRaise, SepGo, SepAsk, SepProcess, NoEnd
<1>1. CASE SepBegin
  BY <1>1 DEF SepBegin
<1>2. CASE SepSelect
  BY <1>2 DEF SepSelect
<1>3. CASE SepProbe
  BY <1>3 DEF SepProbe
<1>4. CASE SepPrepare
  BY <1>4 DEF SepPrepare
<1>5. CASE SepPrepared
  BY <1>5 DEF SepPrepared
<1>6. CASE SepProvider
  BY <1>6 DEF SepProvider
<1>7. CASE SepCopy
  BY <1>7 DEF SepCopy
<1>8. CASE SepVerify
  BY <1>8 DEF SepVerify, SepRefuse
<1>9. CASE SepBackground
  BY <1>9 DEF SepBackground, SepRefuse
<1>10. CASE SepDurations
  BY <1>10 DEF SepDurations, SepRefuse
<1>11. CASE SepUserCancels
  BY <1>11 DEF SepUserCancels
<1>12. CASE SepUnwound
  BY <1>12 DEF SepUnwound
<1>13. CASE UNCHANGED sepVars
  BY <1>13 DEF sepVars
<1> QED
  BY <1>1, <1>2, <1>3, <1>4, <1>5, <1>6, <1>7, <1>8, <1>9, <1>10, <1>11, <1>12, <1>13 DEF SepNext

\* A verified result is two good stems, a refused one leaves neither, and no run
\* leaves its working audio, whatever was in the directory before.
THEOREM SeparationSafe == SepSpec => []SepSafe
<1>1. SepInv => SepSafe
  BY DEF SepInv
<1> QED
  BY SepInitial, SepStep, <1>1, PTL DEF SepSpec
-----------------------------------------------------------------------------
(* Transcriptions.                                                          *)
HIDE SepAssumption
USE TrAssumption

TrStatus == {"none", "pending", "processing", "completed", "failed", "cancelled"}
TrRuns == [at : TrAwaits \cup {"idle", "chunk", "write", "commit"},
           chunk : 0..TrChunks, heard : SUBSET (1..TrChunks)]
TrThreads == [at : {"none", "load", "read", "ok", "bad", "stopped"}, seg : 0..TrSegments]

TrHearing == {"chunk", "part", "whisper"}
TrBefore == {"idle", "probe", "extract"}
TrRunsGood ==
  /\ trRun \in [TrRows -> TrRuns]
  /\ \A r \in TrRows :
       /\ trRun[r].at \in TrHearing => trRun[r].chunk # 0 /\ trRun[r].heard = 1..(trRun[r].chunk - 1)
       /\ trRun[r].at \in TrBefore => trRun[r].heard = {}
       /\ trRun[r].at = "write" => trRun[r].heard = 1..TrChunks
TrThreadsGood ==
  /\ trThread \in [TrRows -> TrThreads]
  /\ \A r \in TrRows : trThread[r].at = "ok" => trThread[r].seg = TrSegments
TrRowsGood == trRow \in [TrRows -> TrStatus]
TrFlagsGood == trFlag \in [TrRows -> BOOLEAN]
TrInv == TrRunsGood /\ TrThreadsGood /\ TrRowsGood /\ TrFlagsGood

LEMMA TrInitial == TrInit => TrInv
  BY DEF TrInit, TrInv, TrRunsGood, TrThreadsGood, TrRowsGood, TrFlagsGood, TrRuns, TrThreads,
         TrRest, TrNoThread, TrStatus, TrHearing, TrBefore, TrAwaits, TrRows

LEMMA TrEndGood ==
  ASSUME TrInv, NEW r \in TrRows, TrEnd(r)
  PROVE  TrRunsGood' /\ TrFlagsGood'
  BY DEF TrEnd, TrInv, TrRunsGood, TrFlagsGood, TrRuns, TrRest, TrHearing, TrBefore

LEMMA TrFailGood ==
  ASSUME TrInv, NEW r \in TrRows, NEW s \in {"failed", "cancelled"}, TrFail(r, s)
  PROVE  TrRunsGood' /\ TrFlagsGood' /\ TrRowsGood'
  BY TrEndGood DEF TrFail, TrInv, TrRowsGood, TrStatus

LEMMA TrGoGood ==
  ASSUME TrInv, NEW r \in TrRows, NEW at \in TrAwaits \cup {"commit", "idle"}, TrGo(r, at),
         at \in {"part", "whisper"} => trRun[r].at \in TrHearing,
         at \in TrBefore => trRun[r].at \in TrBefore
  PROVE  TrRunsGood'
  <1>1. trRun' \in [TrRows -> TrRuns]
    BY DEF TrGo, TrInv, TrRunsGood, TrRuns, TrAwaits
  <1>2. /\ trRun'[r].at = at /\ trRun'[r].chunk = trRun[r].chunk /\ trRun'[r].heard = trRun[r].heard
        /\ \A o \in TrRows \ {r} : trRun'[o] = trRun[o]
    BY DEF TrGo, TrInv, TrRunsGood, TrRuns
  <1> QED
    BY <1>1, <1>2 DEF TrInv, TrRunsGood, TrHearing, TrBefore, TrAwaits

LEMMA TrThreadsThere ==
  TrNoThread \in TrThreads /\ [at |-> "load", seg |-> 0] \in TrThreads
  BY DEF TrNoThread, TrThreads

LEMMA TrThreadGood ==
  ASSUME TrInv, NEW r \in TrRows, NEW t \in TrThreads, t.at = "ok" => t.seg = TrSegments,
         trThread' = [trThread EXCEPT ![r] = t]
  PROVE  TrThreadsGood'
  BY DEF TrInv, TrThreadsGood

LEMMA TrStep == TrInv /\ [TrNext]_trVars => TrInv'
<1> SUFFICES ASSUME TrInv, [TrNext]_trVars PROVE TrInv'
  OBVIOUS
<1>1. CASE TrRestart
  BY <1>1 DEF TrRestart, TrInv, TrRunsGood, TrThreadsGood, TrRowsGood, TrFlagsGood, TrRest,
              TrNoThread, TrRuns, TrThreads, TrStatus, TrHearing, TrBefore
<1>2. CASE TrForeign
  BY <1>2 DEF TrForeign, TrInv, TrRunsGood, TrThreadsGood, TrRowsGood, TrFlagsGood
<1>3. ASSUME NEW r \in TrRows, TrCreate(r) \/ TrCancel(r) \/ TrWatch(r) PROVE TrInv'
  BY <1>3 DEF TrCreate, TrCancel, TrWatch, TrInv, TrRunsGood, TrThreadsGood, TrRowsGood,
              TrFlagsGood, TrStatus
<1>4. ASSUME NEW r \in TrRows, TrClaim(r) PROVE TrInv'
  <2>1. TrRunsGood'
    BY <1>4, TrGoGood DEF TrClaim, TrAt, TrBefore, TrAwaits
  <2> QED
    BY <1>4, <2>1 DEF TrClaim, TrInv, TrThreadsGood, TrRowsGood, TrFlagsGood, TrStatus
<1>5. ASSUME NEW r \in TrRows, TrUnwound(r) \/ TrTimeout(r) \/ TrRescan(r) PROVE TrInv'
  BY <1>5, TrEndGood, TrFailGood DEF TrUnwound, TrTimeout, TrRescan, TrInv, TrThreadsGood,
       TrRowsGood
<1>6. ASSUME NEW r \in TrRows, TrProbe(r) PROVE TrInv'
  <2>1. TrRunsGood'
    BY <1>6, TrGoGood, TrFailGood DEF TrProbe, TrAt, TrBefore, TrAwaits
  <2> QED
    BY <1>6, <2>1, TrFailGood DEF TrProbe, TrInv, TrThreadsGood, TrRowsGood, TrFlagsGood
<1>7. ASSUME NEW r \in TrRows, TrExtract(r) PROVE TrInv'
  <2>0. CASE (TrFail(r, "failed") \/ TrFail(r, "cancelled")) /\ UNCHANGED trThread
    BY <2>0, TrFailGood DEF TrInv, TrThreadsGood
  <2>1. CASE trRun[r].at = "part" /\ ~(TrFail(r, "failed") /\ UNCHANGED trThread)
                                  /\ ~(TrFail(r, "cancelled") /\ UNCHANGED trThread)
    <3>1. trRun' = [trRun EXCEPT ![r] = [trRun[r] EXCEPT !.at = "whisper"]]
      BY <1>7, <2>1 DEF TrExtract, TrAt
    <3>2. trRun' \in [TrRows -> TrRuns]
      <4>1. [trRun[r] EXCEPT !.at = "whisper"] \in TrRuns
        BY DEF TrInv, TrRunsGood, TrRuns, TrAwaits
      <4> QED
        BY <3>1, <4>1 DEF TrInv, TrRunsGood
    <3>3. /\ trRun'[r].at = "whisper" /\ trRun'[r].chunk = trRun[r].chunk /\ trRun'[r].heard = trRun[r].heard
          /\ \A o \in TrRows \ {r} : trRun'[o] = trRun[o]
      BY <3>1 DEF TrInv, TrRunsGood, TrRuns
    <3>4. TrRunsGood'
      BY <2>1, <3>2, <3>3 DEF TrInv, TrRunsGood, TrHearing, TrBefore
    <3>5. TrThreadsGood'
      <4>1. trThread' = [trThread EXCEPT ![r] = [at |-> "load", seg |-> 0]]
        BY <1>7, <2>1 DEF TrExtract, TrAt
      <4> QED
        BY <4>1, TrThreadGood, TrThreadsThere
    <3> QED
      BY <1>7, <2>1, <3>4, <3>5 DEF TrExtract, TrInv, TrRowsGood, TrFlagsGood
  <2>2. CASE trRun[r].at = "extract" /\ ~(TrFail(r, "failed") /\ UNCHANGED trThread)
                                     /\ ~(TrFail(r, "cancelled") /\ UNCHANGED trThread)
    <3>1. trRun' = [trRun EXCEPT ![r] = [trRun[r] EXCEPT !.at = "chunk", !.chunk = 1]]
      BY <1>7, <2>2 DEF TrExtract, TrAt
    <3>2. trRun' \in [TrRows -> TrRuns]
      <4>1. [trRun[r] EXCEPT !.at = "chunk", !.chunk = 1] \in TrRuns
        <5>1. trRun[r] \in TrRuns /\ 1 \in 0..TrChunks
          BY DEF TrInv, TrRunsGood
        <5> QED
          BY <5>1 DEF TrRuns
      <4> QED
        BY <3>1, <4>1 DEF TrInv, TrRunsGood
    <3>3. /\ trRun'[r].at = "chunk" /\ trRun'[r].chunk = 1 /\ trRun'[r].heard = {}
          /\ \A o \in TrRows \ {r} : trRun'[o] = trRun[o]
      BY <2>2, <3>1 DEF TrInv, TrRunsGood, TrRuns, TrBefore
    <3>4. TrRunsGood'
      <4>1. 1..(1 - 1) = {}
        OBVIOUS
      <4> QED
        BY <3>2, <3>3, <4>1, 1 # 0 DEF TrInv, TrRunsGood, TrHearing, TrBefore
    <3> QED
      BY <1>7, <2>2, <3>4 DEF TrExtract, TrInv, TrThreadsGood, TrRowsGood, TrFlagsGood, TrAt
  <2> QED
    BY <1>7, <2>0, <2>1, <2>2 DEF TrExtract
<1>8. ASSUME NEW r \in TrRows, TrChunk(r) PROVE TrInv'
  <2>1. CASE TrChunks = 1
    <3>1. TrRunsGood'
      BY <1>8, <2>1, TrGoGood DEF TrChunk, TrAt, TrHearing, TrBefore, TrAwaits
    <3>2. TrThreadsGood'
      <4>1. trThread' = [trThread EXCEPT ![r] = [at |-> "load", seg |-> 0]]
        BY <1>8, <2>1 DEF TrChunk
      <4> QED
        BY <4>1, TrThreadGood, TrThreadsThere
    <3> QED
      BY <1>8, <2>1, <3>1, <3>2 DEF TrChunk, TrInv, TrRowsGood, TrFlagsGood
  <2>2. CASE TrChunks # 1 /\ ~trFlag[r]
    <3>1. TrRunsGood'
      BY <1>8, <2>2, TrGoGood DEF TrChunk, TrAt, TrHearing, TrBefore, TrAwaits
    <3> QED
      BY <1>8, <2>2, <3>1 DEF TrChunk, TrInv, TrThreadsGood, TrRowsGood, TrFlagsGood
  <2>3. CASE TrChunks # 1 /\ trFlag[r]
    BY <1>8, <2>3, TrFailGood DEF TrChunk, TrInv, TrThreadsGood
  <2> QED
    BY <2>1, <2>2, <2>3
<1>9. ASSUME NEW r \in TrRows, TrHeard(r) PROVE TrInv'
  <2>1. TrThreadsGood'
    BY <1>9, TrThreadGood, TrThreadsThere DEF TrHeard, TrNoThread
  <2>2. CASE trThread[r].at # "ok"
    BY <1>9, <2>1, <2>2, TrFailGood DEF TrHeard, TrInv
  <2>3. CASE trThread[r].at = "ok"
    <3> DEFINE c == trRun[r].chunk
    <3>1. /\ trRun' = [trRun EXCEPT ![r].heard = trRun[r].heard \cup {c},
                 ![r].chunk = IF c = TrChunks THEN c ELSE c + 1,
                 ![r].at = IF c = TrChunks THEN "write" ELSE "chunk"]
          /\ trRun[r].at = "whisper"
      BY <1>9, <2>3 DEF TrHeard, TrAt
    <3>2. c \in 1..TrChunks /\ trRun[r].heard = 1..(c - 1)
      BY <3>1 DEF TrInv, TrRunsGood, TrRuns, TrHearing
    <3>3. /\ trRun'[r].heard = 1..c
          /\ trRun'[r].chunk = IF c = TrChunks THEN c ELSE c + 1
          /\ trRun'[r].at = IF c = TrChunks THEN "write" ELSE "chunk"
          /\ \A o \in TrRows \ {r} : trRun'[o] = trRun[o]
      <4>1. 1..(c - 1) \cup {c} = 1..c
        BY <3>2
      <4>2. trRun'[r].heard = trRun[r].heard \cup {c}
        BY <3>1 DEF TrInv, TrRunsGood, TrRuns
      <4> HIDE DEF c
      <4> QED
        BY <3>1, <3>2, <4>1, <4>2 DEF TrInv, TrRunsGood, TrRuns
    <3>4. trRun' \in [TrRows -> TrRuns]
      <4> HIDE DEF c
      <4> QED
        BY <3>1, <3>2 DEF TrInv, TrRunsGood, TrRuns
    <3>5. TrRunsGood'
      <4>1. 1..((c + 1) - 1) = 1..c
        BY <3>2
      <4> HIDE DEF c
      <4> QED
        BY <3>2, <3>3, <3>4, <4>1 DEF TrInv, TrRunsGood, TrHearing, TrBefore
    <3> QED
      BY <1>9, <2>1, <2>3, <3>5 DEF TrHeard, TrInv, TrRowsGood, TrFlagsGood
  <2> QED
    BY <2>2, <2>3
<1>10. ASSUME NEW r \in TrRows, TrWrite(r) PROVE TrInv'
  <2>1. CASE TrFail(r, "failed")
    BY <1>10, <2>1, TrFailGood DEF TrWrite, TrInv, TrThreadsGood
  <2>2. CASE ~TrFail(r, "failed")
    <3>1. TrRunsGood'
      BY <1>10, <2>2, TrGoGood DEF TrWrite, TrGo, TrAt, TrHearing, TrBefore, TrAwaits
    <3> QED
      BY <1>10, <2>2, <3>1 DEF TrWrite, TrInv, TrThreadsGood, TrRowsGood, TrFlagsGood
  <2> QED
    BY <2>1, <2>2
<1>11. ASSUME NEW r \in TrRows, TrCommit(r) PROVE TrInv'
  <2>1. CASE trRow[r] = "cancelled"
    BY <1>11, <2>1, TrEndGood DEF TrCommit, TrInv, TrThreadsGood, TrRowsGood
  <2>2. CASE trRow[r] # "cancelled"
    <3>1. TrRunsGood'
      BY <1>11, <2>2, TrGoGood DEF TrCommit, TrHearing, TrBefore, TrAwaits
    <3> QED
      BY <1>11, <2>2, <3>1 DEF TrCommit, TrInv, TrThreadsGood, TrRowsGood, TrFlagsGood, TrStatus
  <2> QED
    BY <2>1, <2>2
<1>12. ASSUME NEW r \in TrRows, TrThreadStep(r) PROVE TrInv'
  <2>1. TrThreadsGood'
    <3>1. CASE TrLoad(r)
      BY <3>1 DEF TrLoad, TrInv, TrThreadsGood, TrThreads
    <3>2. CASE TrRead(r)
      BY <3>2 DEF TrRead, TrInv, TrThreadsGood, TrThreads
    <3>3. CASE TrConsumed(r)
      BY <3>3, TrThreadGood, TrThreadsThere DEF TrConsumed, TrNoThread
    <3> QED
      BY <1>12, <3>1, <3>2, <3>3 DEF TrThreadStep
  <2> QED
    BY <1>12, <2>1 DEF TrThreadStep, TrLoad, TrRead, TrConsumed, TrInv, TrRunsGood, TrRowsGood,
         TrFlagsGood
<1>13. CASE UNCHANGED trVars
  BY <1>13 DEF trVars, TrInv, TrRunsGood, TrThreadsGood, TrRowsGood, TrFlagsGood
<1> QED
  BY <1>1, <1>2, <1>3, <1>4, <1>5, <1>6, <1>7, <1>8, <1>9, <1>10, <1>11, <1>12, <1>13
     DEF TrNext, TrRunStep

LEMMA TrWholeStep ==
  ASSUME TrInv, [TrNext]_trVars, NEW r \in TrRows
  PROVE  /\ TrAt(r, "write") /\ trOut' = "transcript" => trRun[r].heard = 1..TrChunks
         /\ TrAt(r, "whisper") /\ trRun'[r].heard # trRun[r].heard /\ trRun'[r].heard # {}
              => trThread[r].seg = TrSegments
<1>1. TrAt(r, "write") /\ trOut' = "transcript" => trRun[r].heard = 1..TrChunks
  BY DEF TrInv, TrRunsGood, TrAt
<1>2. SUFFICES ASSUME TrAt(r, "whisper"), trRun'[r].heard # trRun[r].heard, trRun'[r].heard # {}
               PROVE  trThread[r].seg = TrSegments
  BY <1>1
<1>3. trRun \in [TrRows -> TrRuns]
  BY DEF TrInv, TrRunsGood
<1>4. TrRest.heard = {}
  BY DEF TrRest
<1>5. ~TrRestart
  BY <1>2, <1>4 DEF TrRestart
<1>6. ASSUME NEW o \in TrRows PROVE ~TrEnd(o)
  BY <1>2, <1>3, <1>4 DEF TrEnd
<1>7. ASSUME NEW o \in TrRows, NEW s PROVE ~TrFail(o, s)
  BY <1>6 DEF TrFail
<1>8. ASSUME NEW o \in TrRows, NEW at PROVE ~TrGo(o, at)
  <2> SUFFICES ASSUME TrGo(o, at) PROVE FALSE
    OBVIOUS
  <2>1. CASE o = r
    <3>1. trRun'[r] = [trRun[r] EXCEPT !.at = at]
      BY <1>3, <2>1 DEF TrGo
    <3> QED
      BY <1>2, <1>3, <3>1 DEF TrRuns
  <2>2. CASE o # r
    BY <1>2, <1>3, <2>2 DEF TrGo
  <2> QED
    BY <2>1, <2>2
<1>9. trRun' # trRun
  BY <1>2
<1>10. ASSUME NEW o \in TrRows, TrHeard(o) PROVE trThread[r].seg = TrSegments
  <2>1. trThread[o].at = "ok"
    BY <1>7, <1>10 DEF TrHeard
  <2>2. o = r
    BY <1>2, <1>3, <1>10, <2>1 DEF TrHeard
  <2> QED
    BY <2>1, <2>2 DEF TrInv, TrThreadsGood
<1>11. ASSUME NEW o \in TrRows, TrExtract(o) PROVE FALSE
  <2>1. o # r
    BY <1>2, <1>11 DEF TrExtract, TrAt
  <2> QED
    BY <1>2, <1>3, <1>7, <1>11, <2>1 DEF TrExtract
<1>12. ASSUME NEW o \in TrRows, TrWrite(o) PROVE FALSE
  BY <1>7, <1>8, <1>12 DEF TrWrite, TrGo
<1> QED
  BY <1>5, <1>6, <1>7, <1>8, <1>9, <1>10, <1>11, <1>12
     DEF TrNext, TrRunStep, TrThreadStep, TrForeign, TrCreate, TrCancel, TrClaim, TrWatch,
          TrUnwound,
         TrTimeout, TrProbe, TrChunk, TrCommit, TrRescan, TrLoad, TrRead, TrConsumed, trVars

LEMMA TrCancelStep ==
  ASSUME TrInv, [TrNext]_trVars, NEW r \in TrRows, trRow[r] = "cancelled"
  PROVE  trRow'[r] = "cancelled"
<1>1. trRow \in [TrRows -> TrStatus]
  BY DEF TrInv, TrRowsGood
<1>2. ASSUME NEW o \in TrRows, NEW s, TrFail(o, s) PROVE trRow'[r] = "cancelled"
  BY <1>1, <1>2 DEF TrFail
<1>3. CASE TrRestart
  BY <1>1, <1>3 DEF TrRestart
<1>4. ASSUME NEW o \in TrRows, TrCreate(o) \/ TrCancel(o) \/ TrClaim(o) \/ TrCommit(o)
      PROVE  trRow'[r] = "cancelled"
  BY <1>1, <1>4 DEF TrCreate, TrCancel, TrClaim, TrCommit
<1>5. CASE trRow' = trRow
  BY <1>5
<1> QED
  BY <1>2, <1>3, <1>4, <1>5
     DEF TrNext, TrRunStep, TrThreadStep, TrForeign, TrWatch, TrUnwound, TrTimeout, TrProbe,
          TrExtract,
         TrChunk, TrHeard, TrWrite, TrRescan, TrLoad, TrRead, TrConsumed, trVars

LEMMA TrToldStep ==
  ASSUME TrInv, [TrNext]_trVars, NEW r \in TrRows, trFlag[r]
  PROVE  trThread'[r].seg <= trThread[r].seg
<1>1. trThread \in [TrRows -> TrThreads]
  BY DEF TrInv, TrThreadsGood
<1>2. trThread[r].seg \in Nat
  BY <1>1 DEF TrThreads
<1>3. CASE trThread'[r].seg = trThread[r].seg
  BY <1>2, <1>3
<1>4. CASE trThread'[r].seg = 0
  BY <1>2, <1>4
<1>5. CASE trThread' = trThread
  BY <1>3, <1>5
<1>6. ASSUME NEW o \in TrRows, NEW t \in {TrNoThread, [at |-> "load", seg |-> 0]},
             trThread' = [trThread EXCEPT ![o] = t]
      PROVE  trThread'[r].seg = 0 \/ trThread'[r].seg = trThread[r].seg
  BY <1>1, <1>6 DEF TrNoThread
<1>7. ASSUME NEW o \in TrRows, NEW at, trThread' = [trThread EXCEPT ![o].at = at]
      PROVE  trThread'[r].seg = trThread[r].seg
  BY <1>1, <1>7 DEF TrThreads
<1>8. CASE TrRestart
  BY <1>1, <1>4, <1>8 DEF TrRestart, TrNoThread
<1>9. ASSUME NEW o \in TrRows, TrExtract(o) \/ TrChunk(o) \/ TrHeard(o) \/ TrConsumed(o)
      PROVE  trThread'[r].seg <= trThread[r].seg
  <2>1. trThread' = trThread \/ \E t \in {TrNoThread, [at |-> "load", seg |-> 0]} :
                                   trThread' = [trThread EXCEPT ![o] = t]
    BY <1>9 DEF TrExtract, TrChunk, TrHeard, TrConsumed
  <2> QED
    BY <1>3, <1>4, <1>5, <1>6, <2>1
<1>10. ASSUME NEW o \in TrRows, TrLoad(o) PROVE trThread'[r].seg <= trThread[r].seg
  <2>1. \E at : trThread' = [trThread EXCEPT ![o].at = at]
    BY <1>10 DEF TrLoad
  <2> QED
    BY <1>3, <1>7, <2>1
<1>11. ASSUME NEW o \in TrRows, TrRead(o) PROVE trThread'[r].seg <= trThread[r].seg
  <2>1. CASE \E at : trThread' = [trThread EXCEPT ![o].at = at]
    BY <1>3, <1>7, <2>1
  <2>2. CASE trThread' = [trThread EXCEPT ![o].seg = @ + 1] /\ o # r
    BY <1>1, <1>3, <2>2
  <2> QED
    BY <1>11, <2>1, <2>2 DEF TrRead
<1> QED
  BY <1>5, <1>8, <1>9, <1>10, <1>11
     DEF TrNext, TrRunStep, TrThreadStep, TrForeign, TrCreate, TrCancel, TrClaim, TrWatch,
          TrUnwound,
         TrTimeout, TrProbe, TrWrite, TrCommit, TrRescan, trVars

\* Whatever threads, watchers and restarts do, a transcript is written only when
\* every segment of every chunk was heard, a cancelled row stays cancelled, and a
\* thread that is told to stop hears no further segment.
THEOREM TranscriptSafe == TrSpec => TrSafe
<1>1. TrInv /\ [TrNext]_trVars =>
        [\A r \in TrRows :
           /\ TrAt(r, "write") /\ trOut' = "transcript" => trRun[r].heard = 1..TrChunks
           /\ TrAt(r, "whisper") /\ trRun'[r].heard # trRun[r].heard /\ trRun'[r].heard # {}
                => trThread[r].seg = TrSegments]_trVars
  BY TrWholeStep
<1>2. TrInv /\ [TrNext]_trVars =>
        [\A r \in TrRows : trRow[r] = "cancelled" => trRow'[r] = "cancelled"]_trVars
  BY TrCancelStep
<1>3. TrInv /\ [TrNext]_trVars =>
        [\A r \in TrRows : trFlag[r] /\ trFlag'[r] => trThread'[r].seg <= trThread[r].seg]_trVars
  BY TrToldStep
<1> QED
  BY TrInitial, TrStep, <1>1, <1>2, <1>3, PTL
     DEF TrSpec, TrSafe, TrWhole, TrCancelSticks, TrToldThreadStops
-----------------------------------------------------------------------------
(* Extractions, and the processes they run.                                 *)
HIDE TrAssumption
USE ExAssumption

\* A process that is gone, or that the kernel holds.
ExStopped == Gone \cup {"killed"}
ExRunnerInv ==
  /\ Going("poll") /\ exProc = "ok" => exTemp = "whole"
  /\ Going("reap") \/ Going("clean") => exProc \in ExStopped
  /\ Going("poll") => exAt.path = "normal"
  /\ Going("result") /\ exAt.path # "cancelled" => exTemp # "partial" /\ exProc \in ExStopped
ExThreadInv ==
  /\ \A a \in ExNumbers : a > Me \/ (a = Me /\ ~Going("idle")) => ~exThread[a].flag
  /\ Going("ocr") /\ exThread[Me].at = "done" /\ exThread[Me].cue = ExCues => exOut # "none"
  /\ ~Going("idle") => Me \in ExNumbers
  /\ \A a \in ExNumbers : exThread[a].at \in {"check", "ocr"} /\ ~exThread[a].flag
                           => Going("ocr") /\ Me = a
ExInv == ExTypeOK /\ ExRunnerInv /\ ExThreadInv /\ ExSafe

LEMMA ExInitial == ExInit => ExInv
<1> SUFFICES ASSUME ExInit PROVE ExInv
  OBVIOUS
<1>1. ExTypeOK
  <2>1. exAt \in [at : ExAwaits \cup {"idle", "clean", "result"},
                  path : {"normal", "timeout", "cancelled", "failed"}, attempt : 0..ExAttempts]
    BY DEF ExInit, ExRest
  <2>2. exThread \in [ExNumbers -> [at : {"none", "check", "ocr", "write", "replace", "done"},
                                    cue : 0..ExCues, flag : BOOLEAN]]
    BY DEF ExInit, NoThread
  <2> QED
    BY <2>1, <2>2 DEF ExInit, ExTypeOK, Gone
<1>2. ExRunnerInv /\ ExSafe
  BY DEF ExInit, ExRunnerInv, ExSafe, ExOutWhole, ExCompletedHasFile, ExNothingLeft, Going, ExRest
<1>3. ExThreadInv
  BY DEF ExInit, ExThreadInv, Going, ExRest, NoThread
<1> QED
  BY <1>1, <1>2, <1>3 DEF ExInv

LEMMA ExTypeStep == ExInv /\ [ExNext]_exVars => ExTypeOK'
<1> SUFFICES ASSUME ExInv, [ExNext]_exVars PROVE ExTypeOK'
  OBVIOUS
<1> USE DEF ExInv, ExTypeOK, NoThread, ExGo, ExEnds, ExRaise, ExRest, Going, Me, Gone, InRunner,
     ExAwaits
<1>1. CASE ExStart
  <2>1. PICK track \in {"text", "bitmap"} :
          exRow' = [track |-> track, status |-> IF exOut = "none" THEN "processing" ELSE "failed"]
    BY <1>1 DEF ExStart
  <2>2. exAt' = [at |-> IF exOut = "none" THEN "poll" ELSE "idle",
                 path |-> "normal", attempt |-> exAt.attempt + 1]
    BY <1>1 DEF ExStart
  <2>3. exAt.attempt + 1 \in 0..ExAttempts
    BY <1>1 DEF ExStart
  <2>4. exAt' \in [at : ExAwaits \cup {"idle", "clean", "result"},
                   path : {"normal", "timeout", "cancelled", "failed"}, attempt : 0..ExAttempts]
    BY <2>2, <2>3
  <2> QED
    BY <1>1, <2>1, <2>4 DEF ExStart
<1>2. CASE PollDone
  BY <1>2 DEF PollDone
<1>3. CASE PollTimeout
  BY <1>3 DEF PollTimeout, Terminate
<1>4. CASE GraceOver
  BY <1>4 DEF GraceOver
<1>5. CASE ReapOver
  BY <1>5 DEF ReapOver
<1>6. CASE CleanUp
  BY <1>6 DEF CleanUp
<1>7. CASE RunnerCancelled
  BY <1>7 DEF RunnerCancelled, Terminate
<1>8. CASE RunnerCutOff
  BY <1>8 DEF RunnerCutOff
<1>9. CASE DeliverText
  <2>1. CASE exAt.path = "normal" /\ exTemp # "none"
    <3>1. exRow' = [exRow EXCEPT !.status = IF exRow.status = "processing" THEN "completed" ELSE exRow.status]
      BY <1>9, <2>1 DEF DeliverText
    <3>2. /\ exOut' = exTemp /\ exTemp' = "none"
          /\ exAt' = [exAt EXCEPT !.at = "idle", !.path = "normal"]
          /\ UNCHANGED <<exCancel, exProc, exThread, exLeft>>
      BY <1>9, <2>1 DEF DeliverText
    <3> QED
      BY <2>1, <3>1, <3>2
  <2>2. CASE ~(exAt.path = "normal" /\ exTemp # "none")
    BY <1>9, <2>2 DEF DeliverText
  <2> QED
    BY <2>1, <2>2
<1>10. CASE StartOcr
  <2>1. CASE exAt.path = "normal"
    <3>1. exThread' = [exThread EXCEPT ![Me].at = "check"] /\ exAt' = [exAt EXCEPT !.at = "ocr"]
      BY <1>10, <2>1 DEF StartOcr
    <3>2. exThread' \in [ExNumbers -> [at : {"none", "check", "ocr", "write", "replace", "done"},
                                       cue : 0..ExCues, flag : BOOLEAN]]
      BY <3>1
    <3> QED
      BY <1>10, <2>1, <3>1, <3>2 DEF StartOcr
  <2>2. CASE exAt.path # "normal"
    BY <1>10, <2>2 DEF StartOcr
  <2> QED
    BY <2>1, <2>2
<1>11. CASE Unwound
  BY <1>11 DEF Unwound
<1>12. CASE OcrCancelled
  BY <1>12 DEF OcrCancelled
<1>13. CASE OcrTimeout
  BY <1>13 DEF OcrTimeout
<1>14. CASE OcrDone
  BY <1>14 DEF OcrDone
<1>15. CASE ProcWrites
  BY <1>15 DEF ProcWrites
<1>16. CASE ProcEnds
  BY <1>16 DEF ProcEnds
<1>17. CASE ExUserCancel
  BY <1>17 DEF ExUserCancel
<1>18. CASE WorkerTick
  BY <1>18 DEF WorkerTick
<1>19. CASE OtherWrites
  BY <1>19 DEF OtherWrites
<1>20. CASE Restart
  BY <1>20 DEF Restart
<1>21. ASSUME NEW a \in ExNumbers, Thread(a) PROVE ExTypeOK'
  BY <1>21 DEF Thread, ThreadCheck, ThreadOcr, ThreadLooks, ThreadReplaces, Move
<1>22. CASE UNCHANGED exVars
  BY <1>22 DEF exVars
<1> QED
  BY <1>1, <1>2, <1>3, <1>4, <1>5, <1>6, <1>7, <1>8, <1>9, <1>10, <1>11, <1>12, <1>13, <1>14, <1>15,
       <1>16, <1>17, <1>18, <1>19, <1>20, <1>21, <1>22 DEF ExNext, Runner, Caller

LEMMA ExRunnerStep == ExInv /\ [ExNext]_exVars => (ExRunnerInv /\ ExSafe)'
<1> SUFFICES ASSUME ExInv, [ExNext]_exVars PROVE (ExRunnerInv /\ ExSafe)'
  OBVIOUS
<1> USE DEF ExInv, ExTypeOK, ExRunnerInv, ExThreadInv, ExStopped, ExSafe, ExOutWhole,
     ExCompletedHasFile, ExNothingLeft, ExGo, ExEnds, ExRaise, ExRest, Going, Me, Gone, InRunner,
     ExAwaits
<1>1. CASE ExStart
  BY <1>1 DEF ExStart, Gone
<1>2. CASE PollDone
  <2>1. /\ exAt'.at = "result" /\ exAt'.path = IF exProc = "ok" THEN exAt.path ELSE "failed"
        /\ exTemp' = IF exProc = "ok" THEN exTemp ELSE "none"
        /\ UNCHANGED <<exRow, exProc, exOut, exLeft>>
    BY <1>2 DEF PollDone
  <2> HIDE DEF ExTypeOK, ExThreadInv
  <2> QED
    BY <1>2, <2>1 DEF PollDone
<1>3. CASE PollTimeout
  BY <1>3 DEF PollTimeout, Terminate
<1>4. CASE GraceOver
  BY <1>4 DEF GraceOver
<1>5. CASE ReapOver
  BY <1>5 DEF ReapOver
<1>6. CASE CleanUp
  BY <1>6 DEF CleanUp
<1>7. CASE RunnerCancelled
  BY <1>7 DEF RunnerCancelled, Terminate
<1>8. CASE RunnerCutOff
  BY <1>8 DEF RunnerCutOff
<1>9. CASE DeliverText
  <2>1. /\ exAt'.at = "idle" /\ exAt'.path = "normal" /\ exTemp' = "none"
        /\ exOut' \in {exOut, exTemp} /\ (exOut' # exOut => exTemp # "none" /\ exAt.path = "normal")
        /\ UNCHANGED <<exProc, exLeft>>
    BY <1>9 DEF DeliverText
  <2>2. exRow'.status = "completed"
          => exRow.status = "completed" \/ (exOut' = exTemp /\ exTemp # "none")
    <3>1. CASE exAt.path = "normal" /\ exTemp # "none"
      BY <1>9, <3>1 DEF DeliverText
    <3>2. CASE ~(exAt.path = "normal" /\ exTemp # "none")
      <4>1. exRow' = [exRow EXCEPT !.status = IF exRow.status = "processing" THEN "failed"
                                             ELSE exRow.status]
        BY <1>9, <3>2 DEF DeliverText
      <4> QED
        BY <4>1
    <3> QED
      BY <3>1, <3>2
  <2>3. Going("result") /\ exAt.path # "cancelled"
    BY <1>9 DEF DeliverText
  <2> HIDE DEF ExTypeOK, ExThreadInv
  <2> QED
    BY <2>1, <2>2, <2>3
<1>10. CASE StartOcr
  <2>1. /\ exAt'.at = IF exAt.path = "normal" THEN "ocr" ELSE "idle"
        /\ exTemp' = IF exAt.path = "normal" THEN exTemp ELSE "none"
        /\ UNCHANGED <<exProc, exOut, exLeft>>
    BY <1>10 DEF StartOcr
  <2>2. exRow'.status = "completed" => exRow.status = "completed"
    BY <1>10 DEF StartOcr
  <2> HIDE DEF ExTypeOK, ExThreadInv
  <2> QED
    BY <2>1, <2>2
<1>11. CASE Unwound
  BY <1>11 DEF Unwound
<1>12. CASE OcrCancelled
  BY <1>12 DEF OcrCancelled
<1>13. CASE OcrTimeout
  BY <1>13 DEF OcrTimeout
<1>14. CASE OcrDone
  BY <1>14, ZenonT(40) DEF OcrDone
<1>15. CASE ProcWrites
  BY <1>15 DEF ProcWrites
<1>16. CASE ProcEnds
  BY <1>16 DEF ProcEnds
<1>17. CASE ExUserCancel
  BY <1>17 DEF ExUserCancel
<1>18. CASE WorkerTick
  BY <1>18 DEF WorkerTick
<1>19. CASE OtherWrites
  BY <1>19 DEF OtherWrites
<1>20. CASE Restart
  BY <1>20 DEF Restart
<1>21. ASSUME NEW a \in ExNumbers, Thread(a) PROVE (ExRunnerInv /\ ExSafe)'
  BY <1>21 DEF Thread, ThreadCheck, ThreadOcr, ThreadLooks, ThreadReplaces, Move
<1>22. CASE UNCHANGED exVars
  BY <1>22 DEF exVars
<1> QED
  BY <1>1, <1>2, <1>3, <1>4, <1>5, <1>6, <1>7, <1>8, <1>9, <1>10, <1>11, <1>12, <1>13, <1>14, <1>15,
       <1>16, <1>17, <1>18, <1>19, <1>20, <1>21, <1>22 DEF ExNext, Runner, Caller

LEMMA ExThreadsStep == ExInv /\ [ExNext]_exVars => ExThreadInv'
<1> SUFFICES ASSUME ExInv, [ExNext]_exVars PROVE ExThreadInv'
  OBVIOUS
<1> USE DEF ExInv, ExTypeOK, ExThreadInv, ExGo, ExEnds, ExRaise, ExRest, Going, Me, Gone, InRunner,
     ExAwaits
<1>1. CASE ExStart
  <2>1. exAt'.attempt = exAt.attempt + 1 /\ exAt'.at \in {"poll", "idle"} /\ exThread' = exThread
    BY <1>1 DEF ExStart
  <2>2. exAt.attempt \in 0..ExAttempts /\ exAt.attempt < ExAttempts
    BY <1>1 DEF ExStart
  <2>3. ASSUME NEW a \in ExNumbers, a > exAt.attempt + 1 \/ a = exAt.attempt + 1
        PROVE  ~exThread[a].flag
    <3>1. a > exAt.attempt
      BY <2>2, <2>3 DEF ExNumbers
    <3> QED
      BY <3>1
  <2>4. exAt.attempt + 1 \in ExNumbers
    BY <2>2 DEF ExNumbers
  <2>5. exAt.at = "idle"
    BY <1>1 DEF ExStart
  <2> QED
    BY <2>1, <2>3, <2>4, <2>5
<1>2. CASE PollDone
  BY <1>2 DEF PollDone
<1>3. CASE PollTimeout
  BY <1>3 DEF PollTimeout, Terminate
<1>4. CASE GraceOver
  BY <1>4 DEF GraceOver
<1>5. CASE ReapOver
  BY <1>5 DEF ReapOver
<1>6. CASE CleanUp
  BY <1>6 DEF CleanUp
<1>7. CASE RunnerCancelled
  BY <1>7 DEF RunnerCancelled, Terminate
<1>8. CASE RunnerCutOff
  BY <1>8 DEF RunnerCutOff
<1>9. CASE DeliverText
  BY <1>9 DEF DeliverText
<1>10. CASE StartOcr
  <2>1. CASE exAt.path = "normal"
    <3>1. /\ exThread' = [exThread EXCEPT ![exAt.attempt].at = "check"]
          /\ exAt' = [exAt EXCEPT !.at = "ocr"]
          /\ exAt.at = "result"
      BY <1>10, <2>1 DEF StartOcr
    <3>2. /\ exAt'.attempt = exAt.attempt /\ exAt.attempt \in ExNumbers
          /\ \A a \in ExNumbers : exThread'[a].flag = exThread[a].flag
          /\ exThread'[exAt.attempt].at = "check"
      BY <3>1
    <3> QED
      BY <3>1, <3>2
  <2>2. CASE exAt.path # "normal"
    BY <1>10, <2>2 DEF StartOcr
  <2> QED
    BY <2>1, <2>2
<1>11. CASE Unwound
  BY <1>11 DEF Unwound
<1>12. CASE OcrCancelled
  BY <1>12 DEF OcrCancelled
<1>13. CASE OcrTimeout
  BY <1>13 DEF OcrTimeout
<1>14. CASE OcrDone
  BY <1>14 DEF OcrDone
<1>15. CASE ProcWrites
  BY <1>15 DEF ProcWrites
<1>16. CASE ProcEnds
  BY <1>16 DEF ProcEnds
<1>17. CASE ExUserCancel
  BY <1>17 DEF ExUserCancel
<1>18. CASE WorkerTick
  BY <1>18 DEF WorkerTick
<1>19. CASE OtherWrites
  BY <1>19 DEF OtherWrites
<1>20. CASE Restart
  BY <1>20 DEF Restart
<1>21. ASSUME NEW a \in ExNumbers, Thread(a) PROVE ExThreadInv'
  BY <1>21 DEF Thread, ThreadCheck, ThreadOcr, ThreadLooks, ThreadReplaces, Move
<1>22. CASE UNCHANGED exVars
  BY <1>22 DEF exVars
<1> QED
  BY <1>1, <1>2, <1>3, <1>4, <1>5, <1>6, <1>7, <1>8, <1>9, <1>10, <1>11, <1>12, <1>13, <1>14, <1>15,
       <1>16, <1>17, <1>18, <1>19, <1>20, <1>21, <1>22 DEF ExNext, Runner, Caller

\* Whatever is cancelled, killed, timed out or restarted, the subtitle beside the
\* media is whole and there for a completed job, and a runner that was not cut off
\* leaves neither a half written file nor a process.
THEOREM ExtractionSafe == ExSpec => []ExSafe
<1>1. ExInv => ExSafe
  BY DEF ExInv
<1>2. ExInv /\ [ExNext]_exVars => ExInv'
  BY ExTypeStep, ExRunnerStep, ExThreadsStep DEF ExInv
<1> QED
  BY ExInitial, <1>1, <1>2, PTL DEF ExSpec

\* The OCR of an attempt that was given up writes nothing that it was not writing.
THEOREM GivenUpIsQuiet == ExSpec => ExGivenUpIsQuiet
<1>1. ExInv /\ [ExNext]_exVars => ExInv'
  BY ExTypeStep, ExRunnerStep, ExThreadsStep DEF ExInv
<1>2. ASSUME ExInv, [ExNext]_exVars, NEW a \in ExNumbers, Abandoned(a), ~Writing(a)
      PROVE  ~Writing(a)'
  <2> USE DEF ExInv, ExTypeOK, ExThreadInv, Abandoned, Writing, Going, Me
  <2>1. ASSUME NEW b \in ExNumbers, Thread(b) PROVE ~Writing(a)'
    BY <1>2, <2>1 DEF Thread, ThreadCheck, ThreadOcr, ThreadLooks, ThreadReplaces, Move
  <2>2. CASE exThread' = exThread
    BY <1>2, <2>2
  <2>3. CASE StartOcr \/ OcrCancelled \/ OcrTimeout \/ Restart
    BY <1>2, <2>3 DEF StartOcr, OcrCancelled, OcrTimeout, Restart
  <2> QED
    BY <1>2, <2>1, <2>2, <2>3
       DEF ExNext, Runner, Caller, exVars, ExStart, PollDone, PollTimeout, GraceOver, ReapOver,
           CleanUp, RunnerCancelled, RunnerCutOff, DeliverText, Unwound, OcrDone, ProcWrites,
           ProcEnds, ExUserCancel, WorkerTick, OtherWrites
<1>3. ExInv /\ [ExNext]_exVars =>
        [\A a \in ExNumbers : Abandoned(a) /\ ~Writing(a) => ~Writing(a)']_exVars
  BY <1>2
<1> QED
  BY ExInitial, <1>1, <1>3, PTL DEF ExSpec, ExGivenUpIsQuiet
-----------------------------------------------------------------------------
(* Dubs: the rows, the runs, and the threads that share a model.            *)
HIDE ExAssumption
USE DubAssumption

DubStatus == {"none", "pending", "processing", "completed", "failed", "cancelled"}
DubAts == DubWaits \cup {"idle", "cue", "place", "done"}
DubRunSet == [at : DubAts, cue : 0..(DubCues + 1), fresh : 0..DubCues, model : {0} \cup Models,
              clips : [Cues -> Voices \cup {Mute}]]
DubThreadSet == [at : {"none", "queued", "prepared"}, voice : Voices,
                 model : {0} \cup Models, discard : BOOLEAN]
DubRowSet == [status : DubStatus, bound : Casts]

DubRunsTyped == dubRun \in [DubRows -> DubRunSet] /\ dubWav \in [DubRows -> Voices \cup {Mute}]
DubRowsTyped == dubRow \in [DubRows -> DubRowSet]
DubThreadsTyped ==
  /\ dubThread \in [DubRows -> DubThreadSet]
  /\ dubConds \in [Models -> Voices]
  /\ dubLoaded \in {0} \cup Models
DubCacheTyped == dubCache \in [Casts -> [Cues -> Voices \cup {Mute}]]

DubOpen(r) == dubRow[r].status \in {"pending", "processing"}
DubProcessing(r) == dubRow[r].status = "processing"
DubCueAts == {"cue", "load", "synth", "shape", "unload"}
DubEndAts == {"mix", "separate", "mux", "place", "verify", "done"}

DubRowInv(r) ==
  /\ ~DubIs(r, "idle") => DubProcessing(r) \/ DubGone(r)
  /\ DubProcessing(r) => ~DubIs(r, "idle")
DubPairInv(r, o) ==
  /\ ~(DubOpen(r) /\ DubOpen(o))
  /\ DubIs(r, "place") => ~DubProcessing(o)
DubCueInv(r) ==
  /\ dubRun[r].at \in DubCueAts => dubRun[r].cue \in Cues
  /\ dubRun[r].at \in DubEndAts => dubRun[r].cue = DubCues + 1
  /\ DubIs(r, "slow") => dubRun[r].cue - 1 \in Cues
  /\ ~DubIs(r, "idle") => dubRun[r].fresh < dubRun[r].cue
  /\ DubIs(r, "synth") => dubRun[r].model \in Models
DubClipInv(r) ==
  ~DubIs(r, "idle") => \A c \in Cues : c < dubRun[r].cue =>
    /\ dubRun[r].clips[c] # Mute
    /\ c \in dubRow[r].bound => dubRun[r].clips[c] = c
DubWavInv(r) ==
  /\ dubWav[r] # Mute => /\ DubIs(r, "synth") \/ DubIs(r, "shape")
                         /\ dubRun[r].cue \in dubRow[r].bound => dubWav[r] = dubRun[r].cue
  /\ DubIs(r, "shape") => dubWav[r] # Mute
DubThreadInv(r) ==
  /\ dubThread[r].at = "prepared" <=> dubLock = r
  /\ dubThread[r].at = "prepared" /\ dubThread[r].voice # 0
       => dubConds[dubThread[r].model] = dubThread[r].voice
  /\ dubThread[r].at # "none" => dubThread[r].model \in Models
  /\ dubThread[r].at # "none" /\ ~dubThread[r].discard
       => DubIs(r, "synth") /\ dubThread[r].voice = DubVoice(r)
DubOutInv(r) ==
  DubProcessing(r) => dubOut = IF DubIs(r, "verify") \/ DubIs(r, "done") THEN dubRun[r].clips ELSE NoDub
DubSlowInv(r) ==
  DubIs(r, "slow") /\ DubProcessing(r) => dubCache[dubRow[r].bound][dubRun[r].cue - 1] # Mute

DubTypes == DubRunsTyped /\ DubRowsTyped /\ DubThreadsTyped /\ DubCacheTyped
DubRowsInv == /\ \A r \in DubRows : DubRowInv(r)
              /\ \A r \in DubRows : \A o \in DubRows \ {r} : DubPairInv(r, o)
DubInv ==
  /\ DubTypes
  /\ DubRowsInv
  /\ \A r \in DubRows : DubCueInv(r) /\ DubClipInv(r) /\ DubWavInv(r) /\ DubThreadInv(r)
                        /\ DubOutInv(r) /\ DubSlowInv(r)
  /\ DubOwnVoice

LEMMA DubBasics ==
  /\ 0 \notin Models /\ Mute \notin Voices /\ 0 \in Voices /\ Cues \subseteq Voices /\ 0 # Mute
  /\ 0 \notin Cues /\ Mute \notin Cues /\ {} \in Casts
  /\ NoDub \in [Cues -> Voices \cup {Mute}]
  /\ NoRun \in DubRunSet /\ NoSpeaker \in DubThreadSet
  /\ NoRun.at = "idle" /\ NoRun.cue = 0 /\ NoRun.fresh = 0 /\ NoRun.model = 0
  /\ NoSpeaker.at = "none" /\ NoSpeaker.discard = FALSE
  /\ \A c \in Cues : NoDub[c] = Mute
<1>1. NoDub \in [Cues -> Voices \cup {Mute}] /\ \A c \in Cues : NoDub[c] = Mute
  BY DEF NoDub
<1>2. NoRun \in DubRunSet
  BY <1>1 DEF NoRun, DubRunSet, DubAts
<1>3. NoSpeaker \in DubThreadSet
  BY DEF NoSpeaker, DubThreadSet, Voices
<1> QED
  BY <1>1, <1>2, <1>3 DEF Models, Mute, Voices, Cues, Casts, NoRun, NoSpeaker

\* There is a model object that nobody holds, so that a new one is new.
LEMMA DubFreeThere == ASSUME DubTypes, dubLoaded = 0 PROVE DubFree # {}
<1> SUFFICES ASSUME DubFree = {} PROVE FALSE
  OBVIOUS
<1> DEFINE n == DubRuns
           owner(i) == IF i <= n THEN dubRun[i].model ELSE dubThread[i - n].model
           f == [m \in Models |-> CHOOSE i \in 1..(2 * n) : owner(i) = m]
<1>1. ASSUME NEW m \in Models PROVE \E i \in 1..(2 * n) : owner(i) = m
  <2>1. (\E r \in DubRows : dubRun[r].model = m) \/ (\E r \in DubRows : dubThread[r].model = m)
    BY DubBasics DEF DubFree
  <2>2. ASSUME NEW r \in DubRows, dubRun[r].model = m PROVE owner(r) = m /\ r \in 1..(2 * n)
    BY <2>2 DEF DubRows
  <2>3. ASSUME NEW r \in DubRows, dubThread[r].model = m
        PROVE  owner(r + n) = m /\ r + n \in 1..(2 * n)
    <3>1. ~(r + n <= n) /\ (r + n) - n = r
      BY DEF DubRows
    <3> QED
      BY <2>3, <3>1 DEF DubRows
  <2> QED
    BY <2>1, <2>2, <2>3
<1>2. \A m \in Models : f[m] \in 1..(2 * n) /\ owner(f[m]) = m
  <2> HIDE DEF owner
  <2> QED
    BY <1>1
<1>3. f \in [Models -> 1..(2 * n)]
  <2> HIDE DEF owner
  <2> QED
    BY <1>2
<1>4. /\ IsFiniteSet(Models) /\ Cardinality(Models) = 2 * n + 1
      /\ IsFiniteSet(1..(2 * n)) /\ Cardinality(1..(2 * n)) = 2 * n
  BY FS_Interval DEF Models
<1>5. PICK x, y \in Models : x # y /\ f[x] = f[y]
  <2> HIDE DEF f
  <2> QED
    BY <1>3, <1>4, FS_PigeonHole
<1> QED
  <2> HIDE DEF f, owner
  <2> QED
    BY <1>2, <1>5

LEMMA DubGoesPut ==
  ASSUME DubRunsTyped, NEW r \in DubRows, NEW at \in DubAts, DubGoes(r, at)
  PROVE  /\ dubRun' \in [DubRows -> DubRunSet]
         /\ dubRun'[r].at = at /\ dubRun'[r].cue = dubRun[r].cue /\ dubRun'[r].fresh = dubRun[r].fresh
         /\ dubRun'[r].model = dubRun[r].model /\ dubRun'[r].clips = dubRun[r].clips
         /\ \A o \in DubRows \ {r} : dubRun'[o] = dubRun[o]
  BY DEF DubRunsTyped, DubRunSet, DubGoes

LEMMA DubPut ==
  ASSUME DubRunsTyped, NEW r \in DubRows, NEW run \in DubRunSet, dubRun' = [dubRun EXCEPT ![r] = run]
  PROVE  /\ dubRun' \in [DubRows -> DubRunSet]
         /\ dubRun'[r] = run
         /\ \A o \in DubRows \ {r} : dubRun'[o] = dubRun[o]
  BY DEF DubRunsTyped

LEMMA DubEndPut ==
  ASSUME DubRunsTyped, NEW r \in DubRows, DubEnd(r)
  PROVE  /\ DubRunsTyped'
         /\ dubRun'[r] = NoRun /\ dubWav'[r] = Mute
         /\ \A o \in DubRows \ {r} : dubRun'[o] = dubRun[o] /\ dubWav'[o] = dubWav[o]
  BY DubBasics DEF DubRunsTyped, DubEnd

LEMMA DubFailPut ==
  ASSUME DubRunsTyped, DubRowsTyped, NEW r \in DubRows, DubFail(r)
  PROVE  /\ DubRunsTyped' /\ DubRowsTyped'
         /\ dubRun'[r] = NoRun /\ dubWav'[r] = Mute
         /\ dubRow'[r].status = IF DubGone(r) THEN "cancelled" ELSE "failed"
         /\ dubRow'[r].bound = dubRow[r].bound
         /\ \A o \in DubRows \ {r} : /\ dubRun'[o] = dubRun[o] /\ dubWav'[o] = dubWav[o]
                                     /\ dubRow'[o] = dubRow[o]
<1>1. DubEnd(r) /\ dubRow' = [dubRow EXCEPT ![r].status = IF DubGone(r) THEN @ ELSE "failed"]
  BY DEF DubFail
<1>2. dubRow' \in [DubRows -> DubRowSet]
  BY <1>1 DEF DubRowsTyped, DubRowSet, DubStatus
<1> QED
  BY <1>1, <1>2, DubEndPut DEF DubRowsTyped, DubRowSet, DubGone

DubStepOf(r) == DubOnLoop(r) \/ DubCancel(r) \/ DubThreadStep(r)

LEMMA DubRunsTypeStep ==
  ASSUME DubTypes, \A o \in DubRows : DubCueInv(o) /\ DubThreadInv(o), NEW r \in DubRows, DubStepOf(r)
  PROVE  DubRunsTyped'
<1>0. DubRunsTyped /\ DubRowsTyped /\ DubThreadsTyped /\ DubCacheTyped
  BY DEF DubTypes
<1> USE <1>0
<1>1. CASE DubStart(r)
  BY <1>1 DEF DubStart, DubRunsTyped
<1>2. CASE DubRetry(r)
  BY <1>2 DEF DubRetry, DubRunsTyped
<1>3. CASE DubCancel(r)
  BY <1>3 DEF DubCancel, DubRunsTyped
<1>4. CASE DubClaim(r)
  <2>1. [NoRun EXCEPT !.at = "cue", !.cue = 1] \in DubRunSet
    <3>1. NoRun \in DubRunSet /\ "cue" \in DubAts /\ 1 \in 0..(DubCues + 1)
      BY DubBasics DEF DubAts
    <3> QED
      BY <3>1 DEF DubRunSet
  <2> QED
    BY <1>4, <2>1, DubPut, DubBasics DEF DubClaim, DubRunsTyped
<1>5. CASE DubUnwound(r)
  BY <1>5, DubEndPut, DubFailPut DEF DubUnwound, DubQuit
<1>6. CASE DubCached(r)
  <2> DEFINE run == [dubRun[r] EXCEPT !.clips[dubRun[r].cue] = DubKept(r), !.at = DubTurn(r),
                                     !.cue = dubRun[r].cue + 1]
  <2>1. dubRun' = [dubRun EXCEPT ![r] = run]
    BY <1>6 DEF DubCached, DubAdd
  <2>2. dubRun[r] \in DubRunSet /\ dubRun[r].cue \in Cues
    BY <1>6 DEF DubCached, DubReady, DubRunsTyped, DubCueInv, DubCueAts, DubIs
  <2>3. DubKept(r) \in Voices \cup {Mute}
    BY <2>2 DEF DubKept, DubCacheTyped, DubRowsTyped, DubRowSet
  <2>4. DubTurn(r) \in DubAts
    BY DEF DubTurn, DubAts, DubWaits, DubProcesses
  <2>5. run \in DubRunSet
    <3>1. dubRun[r].cue + 1 \in 0..(DubCues + 1)
      BY <2>2 DEF Cues
    <3>2. [dubRun[r].clips EXCEPT ![dubRun[r].cue] = DubKept(r)] \in [Cues -> Voices \cup {Mute}]
      BY <2>2, <2>3 DEF DubRunSet
    <3> QED
      BY <2>2, <2>3, <2>4, <3>1, <3>2 DEF DubRunSet
  <2> QED
    BY <1>6, <2>1, <2>5, DubPut DEF DubCached, DubRunsTyped
<1>7. CASE DubStops(r)
  BY <1>7, DubEndPut, DubFailPut DEF DubStops, DubQuit
<1>8. CASE DubLoad(r)
  BY <1>8, DubGoesPut DEF DubLoad, DubRunsTyped, DubAts, DubWaits
<1>9. CASE DubHasModel(r)
  <2>1. CASE DubFail(r)
    BY <1>9, <2>1, DubFailPut
  <2>2. ASSUME NEW m \in Models, dubRun' = [dubRun EXCEPT ![r] = [dubRun[r] EXCEPT !.at = "cue", !.model = m]],
               UNCHANGED dubWav
        PROVE  DubRunsTyped'
    <3>1. [dubRun[r] EXCEPT !.at = "cue", !.model = m] \in DubRunSet
      BY DEF DubRunsTyped, DubRunSet, DubAts
    <3> QED
      BY <2>2, <3>1, DubPut DEF DubRunsTyped
  <2>3. dubLoaded # 0 => dubLoaded \in Models
    BY DEF DubThreadsTyped
  <2>4. dubLoaded = 0 => (CHOOSE f \in DubFree : TRUE) \in Models
    BY DubFreeThere DEF DubTypes, DubFree
  <2> QED
    BY <1>9, <2>1, <2>2, <2>3, <2>4 DEF DubHasModel
<1>10. CASE DubSpeak(r)
  BY <1>10, DubGoesPut DEF DubSpeak, DubRunsTyped, DubAts, DubWaits
<1>11. CASE DubSpoken(r)
  BY <1>11, DubGoesPut, DubFailPut DEF DubSpoken, DubRunsTyped, DubAts, DubWaits, DubProcesses
<1>12. CASE DubShape(r)
  <2>0. PICK at \in DubNextStage(r) : DubShaped(r, at)
    BY <1>12 DEF DubShape
  <2> DEFINE run == [dubRun[r] EXCEPT !.clips[dubRun[r].cue] = dubWav[r], !.at = at,
                                     !.cue = dubRun[r].cue + 1, !.fresh = DubFresh(r)]
  <2>1. dubRun' = [dubRun EXCEPT ![r] = run]
    BY <2>0 DEF DubShaped
  <2>2. /\ dubRun[r] \in DubRunSet /\ dubRun[r].cue \in Cues /\ dubWav[r] \in Voices \cup {Mute}
        /\ dubRun[r].fresh < dubRun[r].cue
    BY <1>12 DEF DubShape, DubRunsTyped, DubCueInv, DubCueAts, DubIs
  <2>3. DubFresh(r) \in 0..DubCues
    BY <2>2 DEF DubFresh, Cues, DubRunSet
  <2>4. at \in DubAts
    BY <2>0 DEF DubNextStage, DubTurn, DubAts, DubWaits, DubProcesses
  <2>5. run \in DubRunSet
    <3>1. dubRun[r].cue + 1 \in 0..(DubCues + 1)
      BY <2>2 DEF Cues
    <3>2. [dubRun[r].clips EXCEPT ![dubRun[r].cue] = dubWav[r]] \in [Cues -> Voices \cup {Mute}]
      BY <2>2, <2>3 DEF DubRunSet
    <3> QED
      BY <2>2, <2>3, <2>4, <3>1, <3>2 DEF DubRunSet
  <2>6. dubWav' = [dubWav EXCEPT ![r] = Mute]
    BY <2>0 DEF DubShaped
  <2> QED
    BY <2>1, <2>5, <2>6, DubPut DEF DubRunsTyped
<1>13. CASE DubUnload(r)
  <2>1. CASE DubFail(r)
    BY <1>13, <2>1, DubFailPut
  <2>2. CASE ~DubFail(r)
    <3>1. dubRun' = [dubRun EXCEPT ![r] = [dubRun[r] EXCEPT !.at = "cue", !.model = 0, !.fresh = 0]] /\ UNCHANGED dubWav
      BY <1>13, <2>2 DEF DubUnload
    <3>2. [dubRun[r] EXCEPT !.at = "cue", !.model = 0, !.fresh = 0] \in DubRunSet
      <4>1. dubRun[r] \in DubRunSet /\ "cue" \in DubAts /\ 0 \in {0} \cup Models /\ 0 \in 0..DubCues
        BY DEF DubRunsTyped, DubAts
      <4> QED
        BY <4>1 DEF DubRunSet
    <3> QED
      BY <3>1, <3>2, DubPut DEF DubRunsTyped
  <2> QED
    BY <2>1, <2>2
<1>14. CASE DubBroken(r)
  BY <1>14, DubEndPut, DubFailPut DEF DubBroken, DubQuit
<1>15. CASE DubMix(r)
  <2>1. \E at \in DubAts : DubGoes(r, at)
    BY <1>15 DEF DubMix, DubAts, DubWaits, DubProcesses
  <2> QED
    BY <1>15, <2>1, DubGoesPut DEF DubMix, DubRunsTyped
<1>16. CASE DubPlace(r)
  BY <1>16, DubGoesPut, DubFailPut DEF DubPlace, DubRunsTyped, DubAts, DubWaits, DubProcesses
<1>17. CASE DubVerify(r)
  BY <1>17, DubGoesPut, DubFailPut DEF DubVerify, DubRunsTyped, DubAts, DubWaits, DubProcesses
<1>18. CASE DubDone(r)
  BY <1>18, DubEndPut, DubFailPut DEF DubDone, DubQuit
<1>19. CASE DubPrepare(r)
  BY <1>19 DEF DubPrepare, DubRunsTyped
<1>20. CASE DubGenerate(r)
  <2>1. dubConds[dubThread[r].model] \in Voices
    BY <1>20 DEF DubGenerate, DubThreadInv, DubThreadsTyped
  <2> QED
    BY <1>20, <2>1 DEF DubGenerate, DubRunsTyped
<1> QED
  BY <1>1, <1>2, <1>3, <1>4, <1>5, <1>6, <1>7, <1>8, <1>9, <1>10, <1>11, <1>12, <1>13, <1>14, <1>15,
       <1>16, <1>17, <1>18, <1>19, <1>20
     DEF DubStepOf, DubOnLoop, DubRunStep, DubThreadStep

LEMMA DubRowsTypeStep ==
  ASSUME DubTypes, NEW r \in DubRows, DubStepOf(r)
  PROVE  DubRowsTyped'
<1>0. DubRunsTyped /\ DubRowsTyped /\ DubThreadsTyped /\ DubCacheTyped
  BY DEF DubTypes
<1> USE <1>0
<1>1. CASE DubStart(r)
  BY <1>1, DubBasics DEF DubStart, DubInsert, DubRowsTyped, DubRowSet, DubStatus
<1>2. CASE DubRetry(r)
  BY <1>2, DubBasics DEF DubRetry, DubInsert, DubRowsTyped, DubRowSet, DubStatus
<1>3. CASE DubCancel(r)
  BY <1>3 DEF DubCancel, DubRowsTyped, DubRowSet, DubStatus
<1>4. CASE DubClaim(r)
  BY <1>4 DEF DubClaim, DubRowsTyped, DubRowSet, DubStatus
<1>5. CASE DubUnwound(r)
  BY <1>5, DubFailPut DEF DubUnwound, DubQuit, DubRowsTyped
<1>6. CASE DubCached(r)
  BY <1>6 DEF DubCached, DubRowsTyped
<1>7. CASE DubStops(r)
  BY <1>7, DubFailPut DEF DubStops, DubQuit, DubRowsTyped
<1>8. CASE DubLoad(r)
  BY <1>8 DEF DubLoad, DubRowsTyped
<1>9. CASE DubHasModel(r)
  BY <1>9, DubFailPut DEF DubHasModel, DubQuit, DubRowsTyped
<1>10. CASE DubSpeak(r)
  BY <1>10 DEF DubSpeak, DubRowsTyped
<1>11. CASE DubSpoken(r)
  BY <1>11, DubFailPut DEF DubSpoken, DubQuit, DubRowsTyped
<1>12. CASE DubShape(r)
  BY <1>12 DEF DubShape, DubRowsTyped
<1>13. CASE DubUnload(r)
  BY <1>13, DubFailPut DEF DubUnload, DubQuit, DubRowsTyped
<1>14. CASE DubBroken(r)
  BY <1>14, DubFailPut DEF DubBroken, DubQuit, DubRowsTyped
<1>15. CASE DubMix(r)
  BY <1>15 DEF DubMix, DubRowsTyped
<1>16. CASE DubPlace(r)
  BY <1>16, DubFailPut DEF DubPlace, DubQuit, DubRowsTyped
<1>17. CASE DubVerify(r)
  BY <1>17, DubFailPut DEF DubVerify, DubQuit, DubRowsTyped
<1>18. CASE DubDone(r)
  BY <1>18 DEF DubDone, DubRowsTyped, DubRowSet, DubStatus
<1>19. CASE DubPrepare(r)
  BY <1>19 DEF DubPrepare, DubRowsTyped
<1>20. CASE DubGenerate(r)
  BY <1>20 DEF DubGenerate, DubRowsTyped
<1> QED
  BY <1>1, <1>2, <1>3, <1>4, <1>5, <1>6, <1>7, <1>8, <1>9, <1>10, <1>11, <1>12, <1>13, <1>14, <1>15,
       <1>16, <1>17, <1>18, <1>19, <1>20
     DEF DubStepOf, DubOnLoop, DubRunStep, DubThreadStep

LEMMA DubThreadsTypeStep ==
  ASSUME DubTypes, \A o \in DubRows : DubCueInv(o), NEW r \in DubRows, DubStepOf(r)
  PROVE  DubThreadsTyped'
<1>0. DubRunsTyped /\ DubRowsTyped /\ DubThreadsTyped /\ DubCacheTyped
  BY DEF DubTypes
<1> USE <1>0
<1>1. CASE DubStart(r)
  BY <1>1 DEF DubStart, DubThreadsTyped, dubModel
<1>2. CASE DubRetry(r)
  BY <1>2 DEF DubRetry, DubThreadsTyped, dubModel
<1>3. CASE DubCancel(r)
  BY <1>3 DEF DubCancel, DubThreadsTyped, dubModel
<1>4. CASE DubClaim(r)
  BY <1>4 DEF DubClaim, DubThreadsTyped, dubModel
<1>5. CASE DubUnwound(r)
  BY <1>5 DEF DubUnwound, DubThreadsTyped, DubThreadSet
<1>6. CASE DubCached(r)
  BY <1>6 DEF DubCached, DubThreadsTyped, dubModel
<1>7. CASE DubStops(r)
  BY <1>7 DEF DubStops, DubThreadsTyped, dubModel
<1>8. CASE DubLoad(r)
  BY <1>8 DEF DubLoad, DubThreadsTyped, dubModel
<1>9. CASE DubHasModel(r)
  <2>1. CASE DubFail(r) /\ UNCHANGED <<dubConds, dubLoaded>>
    BY <1>9, <2>1 DEF DubHasModel, DubThreadsTyped
  <2>2. ASSUME NEW m \in Models, dubLoaded' = m,
               dubConds' = IF m = dubLoaded THEN dubConds ELSE [dubConds EXCEPT ![m] = 0]
        PROVE  DubThreadsTyped'
    BY <1>9, <2>2, DubBasics DEF DubHasModel, DubThreadsTyped
  <2>3. dubLoaded # 0 => dubLoaded \in Models
    BY DEF DubThreadsTyped
  <2>4. dubLoaded = 0 => (CHOOSE f \in DubFree : TRUE) \in Models
    BY DubFreeThere DEF DubFree
  <2> QED
    BY <1>9, <2>1, <2>2, <2>3, <2>4 DEF DubHasModel
<1>10. CASE DubSpeak(r)
  <2>1. DubVoice(r) \in Voices /\ dubRun[r].model \in {0} \cup Models
    BY <1>10, DubBasics DEF DubSpeak, DubUncached, DubReady, DubVoice, DubRunsTyped, DubRunSet,
         DubCueInv,
                        DubCueAts, DubIs
  <2>2. [at |-> "queued", voice |-> DubVoice(r), model |-> dubRun[r].model, discard |-> FALSE] \in DubThreadSet
    BY <2>1 DEF DubThreadSet
  <2> QED
    BY <1>10, <2>2 DEF DubSpeak, DubThreadsTyped
<1>11. CASE DubSpoken(r)
  BY <1>11 DEF DubSpoken, DubThreadsTyped, dubModel
<1>12. CASE DubShape(r)
  BY <1>12 DEF DubShape, DubThreadsTyped, dubModel
<1>13. CASE DubUnload(r)
  BY <1>13 DEF DubUnload, DubThreadsTyped
<1>14. CASE DubBroken(r)
  BY <1>14 DEF DubBroken, DubThreadsTyped, dubModel
<1>15. CASE DubMix(r)
  BY <1>15 DEF DubMix, DubThreadsTyped, dubModel
<1>16. CASE DubPlace(r)
  BY <1>16 DEF DubPlace, DubThreadsTyped, dubModel
<1>17. CASE DubVerify(r)
  BY <1>17 DEF DubVerify, DubThreadsTyped, dubModel
<1>18. CASE DubDone(r)
  BY <1>18 DEF DubDone, DubThreadsTyped, dubModel
<1>19. CASE DubPrepare(r)
  <2>1. dubThread[r] \in DubThreadSet
    BY DEF DubThreadsTyped
  <2>2. dubThread' \in [DubRows -> DubThreadSet]
    BY <1>19 DEF DubPrepare, DubThreadsTyped, DubThreadSet
  <2> QED
    BY <1>19, <2>1, <2>2 DEF DubPrepare, DubThreadsTyped, DubThreadSet
<1>20. CASE DubGenerate(r)
  BY <1>20, DubBasics DEF DubGenerate, DubThreadsTyped
<1> QED
  BY <1>1, <1>2, <1>3, <1>4, <1>5, <1>6, <1>7, <1>8, <1>9, <1>10, <1>11, <1>12, <1>13, <1>14, <1>15,
       <1>16, <1>17, <1>18, <1>19, <1>20
     DEF DubStepOf, DubOnLoop, DubRunStep, DubThreadStep

LEMMA DubCacheTypeStep ==
  ASSUME DubTypes, NEW r \in DubRows, DubStepOf(r)
  PROVE  DubCacheTyped'
<1>0. DubRunsTyped /\ DubRowsTyped /\ DubThreadsTyped /\ DubCacheTyped
  BY DEF DubTypes
<1> USE <1>0
<1>1. CASE DubStart(r)
  BY <1>1 DEF DubStart, DubCacheTyped
<1>2. CASE DubRetry(r)
  BY <1>2 DEF DubRetry, DubCacheTyped
<1>3. CASE DubCancel(r)
  BY <1>3 DEF DubCancel, DubCacheTyped
<1>4. CASE DubClaim(r)
  BY <1>4 DEF DubClaim, DubCacheTyped
<1>5. CASE DubUnwound(r)
  BY <1>5 DEF DubUnwound, DubCacheTyped
<1>6. CASE DubCached(r)
  BY <1>6 DEF DubCached, DubCacheTyped
<1>7. CASE DubStops(r)
  BY <1>7 DEF DubStops, DubCacheTyped
<1>8. CASE DubLoad(r)
  BY <1>8 DEF DubLoad, DubCacheTyped
<1>9. CASE DubHasModel(r)
  BY <1>9 DEF DubHasModel, DubCacheTyped
<1>10. CASE DubSpeak(r)
  BY <1>10 DEF DubSpeak, DubCacheTyped
<1>11. CASE DubSpoken(r)
  BY <1>11 DEF DubSpoken, DubCacheTyped
<1>12. CASE DubShape(r)
  <2> DEFINE b == dubRow[r].bound
             kept == [dubCache[b] EXCEPT ![dubRun[r].cue] = dubWav[r]]
  <2>1. dubWav[r] \in Voices \cup {Mute} /\ b \in Casts
    BY DEF DubRunsTyped, DubRowsTyped, DubRowSet
  <2>2. kept \in [Cues -> Voices \cup {Mute}]
    BY <2>1 DEF DubCacheTyped
  <2>3. dubCache' = [dubCache EXCEPT ![b] = kept]
    BY <1>12 DEF DubShape
  <2> HIDE DEF kept, b
  <2> QED
    BY <2>1, <2>2, <2>3 DEF DubCacheTyped
<1>13. CASE DubUnload(r)
  BY <1>13 DEF DubUnload, DubCacheTyped
<1>14. CASE DubBroken(r)
  BY <1>14 DEF DubBroken, DubCacheTyped
<1>15. CASE DubMix(r)
  BY <1>15 DEF DubMix, DubCacheTyped
<1>16. CASE DubPlace(r)
  BY <1>16 DEF DubPlace, DubCacheTyped
<1>17. CASE DubVerify(r)
  BY <1>17, DubBasics DEF DubVerify, DubCacheTyped
<1>18. CASE DubDone(r)
  BY <1>18 DEF DubDone, DubCacheTyped
<1>19. CASE DubPrepare(r)
  BY <1>19 DEF DubPrepare, DubCacheTyped
<1>20. CASE DubGenerate(r)
  BY <1>20 DEF DubGenerate, DubCacheTyped
<1> QED
  BY <1>1, <1>2, <1>3, <1>4, <1>5, <1>6, <1>7, <1>8, <1>9, <1>10, <1>11, <1>12, <1>13, <1>14, <1>15,
       <1>16, <1>17, <1>18, <1>19, <1>20
     DEF DubStepOf, DubOnLoop, DubRunStep, DubThreadStep

DubOthers(r) == \A o \in DubRows \ {r} : /\ dubRun'[o] = dubRun[o] /\ dubWav'[o] = dubWav[o]
                                          /\ dubRow'[o] = dubRow[o] /\ dubThread'[o] = dubThread[o]
LEMMA DubOthersStep ==
  ASSUME DubTypes, NEW r \in DubRows, DubStepOf(r)
  PROVE  DubOthers(r)
<1>0. DubRunsTyped /\ DubRowsTyped /\ DubThreadsTyped /\ DubCacheTyped
  BY DEF DubTypes
<1> USE <1>0
<1> USE DEF DubOthers, DubRunsTyped, DubRowsTyped, DubThreadsTyped
<1>1. CASE DubStart(r)
  BY <1>1 DEF DubStart, DubInsert, dubModel
<1>2. CASE DubRetry(r)
  BY <1>2 DEF DubRetry, DubInsert, dubModel
<1>3. CASE DubCancel(r)
  BY <1>3 DEF DubCancel, dubModel
<1>4. CASE DubClaim(r)
  BY <1>4 DEF DubClaim, dubModel
<1>5. CASE DubUnwound(r)
  BY <1>5 DEF DubUnwound, DubFail, DubEnd, dubModel
<1>6. CASE DubCached(r)
  BY <1>6 DEF DubCached, DubAdd, dubModel
<1>7. CASE DubStops(r)
  BY <1>7 DEF DubStops, DubQuit, DubFail, DubEnd, dubModel
<1>8. CASE DubLoad(r)
  BY <1>8 DEF DubLoad, DubGoes, dubModel
<1>9. CASE DubHasModel(r)
  BY <1>9 DEF DubHasModel, DubFail, DubEnd, dubModel
<1>10. CASE DubSpeak(r)
  BY <1>10 DEF DubSpeak, DubGoes, dubModel
<1>11. CASE DubSpoken(r)
  BY <1>11 DEF DubSpoken, DubFail, DubEnd, DubGoes, dubModel
<1>12. CASE DubShape(r)
  BY <1>12 DEF DubShape, DubShaped, dubModel
<1>13. CASE DubUnload(r)
  BY <1>13 DEF DubUnload, DubFail, DubEnd, dubModel
<1>14. CASE DubBroken(r)
  BY <1>14 DEF DubBroken, DubFail, DubEnd, dubModel
<1>15. CASE DubMix(r)
  BY <1>15 DEF DubMix, DubGoes, dubModel
<1>16. CASE DubPlace(r)
  BY <1>16 DEF DubPlace, DubGoes, DubFail, DubEnd, dubModel
<1>17. CASE DubVerify(r)
  BY <1>17 DEF DubVerify, DubGoes, DubFail, DubEnd, dubModel
<1>18. CASE DubDone(r)
  BY <1>18 DEF DubDone, DubEnd, dubModel
<1>19. CASE DubPrepare(r)
  BY <1>19 DEF DubPrepare, dubModel
<1>20. CASE DubGenerate(r)
  BY <1>20 DEF DubGenerate, dubModel
<1> QED
  BY <1>1, <1>2, <1>3, <1>4, <1>5, <1>6, <1>7, <1>8, <1>9, <1>10, <1>11, <1>12, <1>13, <1>14, <1>15,
       <1>16, <1>17, <1>18, <1>19, <1>20
     DEF DubStepOf, DubOnLoop, DubRunStep, DubThreadStep

\* What the steps that write a whole record make of it.
DubMoved(r, at, cue, fresh, model, clips) ==
  /\ dubRun'[r].at = at /\ dubRun'[r].cue = cue /\ dubRun'[r].fresh = fresh
  /\ dubRun'[r].model = model /\ dubRun'[r].clips = clips

LEMMA DubClaimPut ==
  ASSUME DubTypes, NEW r \in DubRows, DubClaim(r)
  PROVE  IF dubOut = NoDub
           THEN dubRow'[r].status = "processing" /\ DubMoved(r, "cue", 1, 0, 0, NoRun.clips)
         ELSE dubRow'[r].status = "failed" /\ dubRun'[r].at = "idle"
<1>1. dubRun' = [dubRun EXCEPT ![r] = IF dubOut = NoDub THEN [NoRun EXCEPT !.at = "cue", !.cue = 1]
                                     ELSE NoRun]
  BY DEF DubClaim
<1>2. dubRun'[r] = IF dubOut = NoDub THEN [NoRun EXCEPT !.at = "cue", !.cue = 1] ELSE NoRun
  BY <1>1 DEF DubTypes, DubRunsTyped
<1>3. dubRow'[r].status = IF dubOut = NoDub THEN "processing" ELSE "failed"
  BY DEF DubClaim, DubTypes, DubRowsTyped, DubRowSet
<1> QED
  BY <1>2, <1>3, DubBasics DEF DubMoved, NoRun

LEMMA DubCachedPut ==
  ASSUME DubTypes, NEW r \in DubRows, DubCached(r)
  PROVE  /\ DubMoved(r, DubTurn(r), dubRun[r].cue + 1, dubRun[r].fresh, dubRun[r].model,
                     [dubRun[r].clips EXCEPT ![dubRun[r].cue] = DubKept(r)])
         /\ DubReady(r) /\ DubKept(r) # Mute
<1>1. dubRun' = [dubRun EXCEPT ![r] = [dubRun[r] EXCEPT !.clips[dubRun[r].cue] = DubKept(r),
                                         !.at = DubTurn(r), !.cue = dubRun[r].cue + 1]]
  BY DEF DubCached, DubAdd
<1>2. dubRun[r] \in DubRunSet
  BY DEF DubTypes, DubRunsTyped
<1>3. dubRun'[r] = [dubRun[r] EXCEPT !.clips[dubRun[r].cue] = DubKept(r),
                                   !.at = DubTurn(r), !.cue = dubRun[r].cue + 1]
  BY <1>1 DEF DubTypes, DubRunsTyped
<1> QED
  BY <1>2, <1>3 DEF DubMoved, DubRunSet, DubCached

LEMMA DubShapePut ==
  ASSUME DubTypes, NEW r \in DubRows, NEW at, DubShaped(r, at)
  PROVE  /\ DubMoved(r, at, dubRun[r].cue + 1, DubFresh(r), dubRun[r].model,
                     [dubRun[r].clips EXCEPT ![dubRun[r].cue] = dubWav[r]])
         /\ dubWav'[r] = Mute
<1>1. dubRun' = [dubRun EXCEPT ![r] = [dubRun[r] EXCEPT !.clips[dubRun[r].cue] = dubWav[r],
                           !.at = at, !.cue = dubRun[r].cue + 1, !.fresh = DubFresh(r)]]
  BY DEF DubShaped
<1>2. dubRun[r] \in DubRunSet
  BY DEF DubTypes, DubRunsTyped
<1>3. dubRun'[r] = [dubRun[r] EXCEPT !.clips[dubRun[r].cue] = dubWav[r],
                           !.at = at, !.cue = dubRun[r].cue + 1, !.fresh = DubFresh(r)]
  BY <1>1 DEF DubTypes, DubRunsTyped
<1>4. dubWav'[r] = Mute
  BY DEF DubShaped, DubTypes, DubRunsTyped
<1> QED
  BY <1>2, <1>3, <1>4 DEF DubMoved, DubRunSet

LEMMA DubHasModelPut ==
  ASSUME DubTypes, NEW r \in DubRows, DubHasModel(r), ~(DubFail(r) /\ UNCHANGED dubConds)
  PROVE  \E m \in Models :
           /\ DubMoved(r, "cue", dubRun[r].cue, dubRun[r].fresh, m, dubRun[r].clips)
           /\ dubConds' = dubConds \/ (m \in DubFree /\ dubConds' = [dubConds EXCEPT ![m] = 0])
           /\ UNCHANGED <<dubRow, dubWav>>
<1> DEFINE m == IF dubLoaded # 0 THEN dubLoaded ELSE CHOOSE f \in DubFree : TRUE
<1>1. /\ dubRun' = [dubRun EXCEPT ![r] = [dubRun[r] EXCEPT !.at = "cue", !.model = m]]
      /\ dubConds' = IF m = dubLoaded THEN dubConds ELSE [dubConds EXCEPT ![m] = 0]
      /\ UNCHANGED <<dubRow, dubWav>>
  BY DEF DubHasModel
<1>2. m \in Models /\ (m # dubLoaded => m \in DubFree)
  <2>1. CASE dubLoaded # 0
    BY <2>1 DEF DubTypes, DubThreadsTyped
  <2>2. CASE dubLoaded = 0
    BY <2>2, DubFreeThere DEF DubFree
  <2> QED
    BY <2>1, <2>2
<1> HIDE DEF m
<1>3. dubRun'[r] = [dubRun[r] EXCEPT !.at = "cue", !.model = m] /\ dubRun[r] \in DubRunSet
  BY <1>1 DEF DubTypes, DubRunsTyped
<1>4. DubMoved(r, "cue", dubRun[r].cue, dubRun[r].fresh, m, dubRun[r].clips)
  BY <1>3 DEF DubMoved, DubRunSet
<1> QED
  BY <1>1, <1>2, <1>4

LEMMA DubUnloadPut ==
  ASSUME DubTypes, NEW r \in DubRows, DubUnload(r), ~DubFail(r)
  PROVE  /\ DubMoved(r, "cue", dubRun[r].cue, 0, 0, dubRun[r].clips)
         /\ UNCHANGED <<dubRow, dubWav>> /\ DubIs(r, "unload")
<1>1. /\ dubRun' = [dubRun EXCEPT ![r] = [dubRun[r] EXCEPT !.at = "cue", !.model = 0, !.fresh = 0]]
      /\ UNCHANGED <<dubRow, dubWav>> /\ DubIs(r, "unload")
  BY DEF DubUnload, DubIs
<1>2. dubRun'[r] = [dubRun[r] EXCEPT !.at = "cue", !.model = 0, !.fresh = 0] /\ dubRun[r] \in DubRunSet
  BY <1>1 DEF DubTypes, DubRunsTyped
<1> QED
  BY <1>1, <1>2 DEF DubMoved, DubRunSet

\* A run that moves between stages, or ends, keeps the rows as they should be.
LEMMA DubRowsMoved ==
  ASSUME DubInv, NEW r \in DubRows, DubOthers(r), dubRow'[r].status = dubRow[r].status,
         dubRun[r].at # "idle", dubRun'[r].at # "idle", dubRun'[r].at = "place" => DubProcessing(r)
  PROVE  DubRowsInv'
  BY DEF DubInv, DubRowsInv, DubRowInv, DubPairInv, DubOthers, DubIs, DubProcessing, DubGone,
       DubOpen

LEMMA DubRowsEnded ==
  ASSUME DubInv, NEW r \in DubRows, DubOthers(r), dubRun'[r].at = "idle",
         dubRow'[r].status \notin {"pending", "processing"}
  PROVE  DubRowsInv'
  BY DEF DubInv, DubRowsInv, DubRowInv, DubPairInv, DubOthers, DubIs, DubProcessing, DubGone,
       DubOpen

LEMMA DubRowsInvStep ==
  ASSUME DubInv, NEW r \in DubRows, DubStepOf(r)
  PROVE  DubRowsInv'
<1>0. DubTypes /\ DubRunsTyped /\ DubRowsTyped /\ DubOthers(r) /\ DubRowsInv
  BY DubOthersStep DEF DubInv, DubTypes
<1>00. DubFail(r) => DubRowsInv'
  BY <1>0, DubFailPut, DubRowsEnded, DubBasics
<1>000. ASSUME NEW at \in DubAts \ {"idle"}, DubGoes(r, at), UNCHANGED dubRow, ~DubIs(r, "idle"),
             at = "place" => ~DubGone(r)
      PROVE  DubRowsInv'
  <2>1. dubRun'[r].at = at
    BY <1>0, <1>000, DubGoesPut
  <2>2. ~DubGone(r) => DubProcessing(r)
    BY <1>0, <1>000 DEF DubRowsInv, DubRowInv
  <2> QED
    BY <1>0, <1>000, <2>1, <2>2, DubRowsMoved DEF DubIs
<1> USE <1>0, <1>00
<1>1. CASE DubLoopFree(r) /\ DubStart(r)
  BY <1>1 DEF DubStart, DubInsert, DubNextRow, DubRowsTyped, DubRowSet, DubRowsInv, DubRowInv,
       DubPairInv, DubOthers, DubIs, DubProcessing, DubGone, DubOpen
<1>2. CASE DubLoopFree(r) /\ DubRetry(r)
  BY <1>2 DEF DubRetry, DubInsert, DubNextRow, DubRowsTyped, DubRowSet, DubRowsInv, DubRowInv,
       DubPairInv, DubOthers, DubIs, DubProcessing, DubGone, DubOpen
<1>3. CASE DubCancel(r)
  BY <1>3 DEF DubCancel, DubRowsTyped, DubRowSet, DubRowsInv, DubRowInv, DubPairInv, DubOthers,
       DubIs, DubProcessing, DubGone, DubOpen
<1>4. CASE DubLoopFree(r) /\ DubClaim(r)
  <2>1. CASE dubOut = NoDub
    <3>1. DubOpen(r) /\ \A o \in DubRows \ {r} : ~DubOpen(o) /\ ~DubIs(o, "place")
      BY <1>4 DEF DubClaim, DubOpen, DubRowsInv, DubPairInv, DubLoopFree
    <3>2. /\ dubRow'[r].status = "processing" /\ dubRun'[r].at = "cue"
          /\ \A o \in DubRows \ {r} : /\ dubRow'[o].status = dubRow[o].status
                                       /\ dubRun'[o].at = dubRun[o].at
      BY <1>4, <2>1, DubClaimPut DEF DubMoved, DubOthers
    <3>3. \A o \in DubRows : DubRowInv(o)'
      BY <3>2 DEF DubRowsInv, DubRowInv, DubIs, DubProcessing, DubGone
    <3>4. \A o \in DubRows : \A p \in DubRows \ {o} : DubPairInv(o, p)'
      BY <3>1, <3>2 DEF DubRowsInv, DubPairInv, DubIs, DubProcessing, DubOpen
    <3> QED
      BY <3>3, <3>4 DEF DubRowsInv
  <2>2. CASE dubOut # NoDub
    BY <1>4, <2>2, DubClaimPut, DubRowsEnded
  <2> QED
    BY <2>1, <2>2
<1>5. CASE DubUnwound(r)
  BY <1>5 DEF DubUnwound
<1>6. CASE DubCached(r)
  BY <1>6, DubCachedPut, DubRowsMoved DEF DubCached, DubMoved, DubReady, DubIs, DubTurn
<1>7. CASE DubStops(r)
  <2>1. CASE DubGone(r) /\ DubQuit(r)
    BY <2>1, DubEndPut, DubRowsEnded, DubBasics DEF DubQuit, DubGone
  <2> QED
    BY <1>7, <2>1 DEF DubStops
<1>8. CASE DubLoad(r)
  BY <1>8, <1>000 DEF DubLoad, DubUncached, DubReady, DubIs, DubAts, DubWaits, DubProcesses
<1>9. CASE DubHasModel(r)
  BY <1>9, DubHasModelPut, DubRowsMoved DEF DubHasModel, DubMoved, DubIs
<1>10. CASE DubSpeak(r)
  BY <1>10, <1>000 DEF DubSpeak, DubUncached, DubReady, DubIs, DubAts, DubWaits, DubProcesses
<1>11. CASE DubSpoken(r)
  BY <1>11, <1>000 DEF DubSpoken, DubUncached, DubReady, DubIs, DubAts, DubWaits, DubProcesses
<1>12. CASE DubShape(r)
  <2>1. PICK at \in DubNextStage(r) : DubShaped(r, at)
    BY <1>12 DEF DubShape
  <2>2. at \notin {"idle", "place"}
    BY DEF DubNextStage, DubTurn
  <2> QED
    BY <1>12, <2>1, <2>2, DubShapePut, DubRowsMoved DEF DubShape, DubMoved, DubIs
<1>13. CASE DubUnload(r)
  BY <1>13, DubUnloadPut, DubRowsMoved DEF DubUnload, DubMoved, DubIs
<1>14. CASE DubBroken(r)
  BY <1>14 DEF DubBroken
<1>15. CASE DubMix(r)
  BY <1>15, <1>000 DEF DubMix, DubUncached, DubReady, DubIs, DubAts, DubWaits, DubProcesses
<1>16. CASE DubPlace(r)
  BY <1>16, <1>000 DEF DubPlace, DubUncached, DubReady, DubIs, DubAts, DubWaits, DubProcesses
<1>17. CASE DubVerify(r)
  BY <1>17, <1>000 DEF DubVerify, DubUncached, DubReady, DubIs, DubAts, DubWaits, DubProcesses
<1>18. CASE DubDone(r)
  <2>1. dubRun'[r].at = "idle"
    BY <1>18, DubEndPut, DubBasics DEF DubDone
  <2>2. dubRow'[r].status \in {"cancelled", "completed"}
    BY <1>18 DEF DubDone, DubRowsTyped, DubRowSet, DubGone
  <2> QED
    BY <2>1, <2>2, DubRowsEnded
<1>19. CASE DubPrepare(r)
  BY <1>19 DEF DubPrepare, DubRowsInv, DubRowInv, DubPairInv, DubOthers, DubIs, DubProcessing,
       DubGone, DubOpen
<1>20. CASE DubGenerate(r)
  BY <1>20 DEF DubGenerate, DubRowsInv, DubRowInv, DubPairInv, DubOthers, DubIs, DubProcessing,
       DubGone, DubOpen
<1> QED
  BY <1>1, <1>2, <1>3, <1>4, <1>5, <1>6, <1>7, <1>8, <1>9, <1>10, <1>11, <1>12, <1>13, <1>14, <1>15,
       <1>16, <1>17, <1>18, <1>19, <1>20
     DEF DubStepOf, DubOnLoop, DubRunStep, DubThreadStep

\* The run's own part of the invariant: its cues, its clips and its cue file.
DubRunInv(r) == DubCueInv(r) /\ DubClipInv(r) /\ DubWavInv(r)

LEMMA DubRunEnded ==
  ASSUME NEW r \in DubRows, dubRun'[r].at = "idle", dubWav'[r] = Mute
  PROVE  DubRunInv(r)'
  BY DEF DubRunInv, DubCueInv, DubClipInv, DubWavInv, DubIs, DubCueAts, DubEndAts

LEMMA DubRunKept ==
  ASSUME NEW r \in DubRows, DubRunInv(r), dubRun'[r] = dubRun[r], dubWav'[r] = dubWav[r],
         dubRow'[r].bound = dubRow[r].bound
  PROVE  DubRunInv(r)'
  BY DEF DubRunInv, DubCueInv, DubClipInv, DubWavInv, DubIs

\* A move that leaves the cue and the clips alone.
LEMMA DubRunMoves ==
  ASSUME DubInv, NEW r \in DubRows,
         dubRun'[r].cue = dubRun[r].cue, dubRun'[r].clips = dubRun[r].clips,
         dubRun'[r].fresh = 0 \/ dubRun'[r].fresh = dubRun[r].fresh,
         UNCHANGED <<dubRow, dubWav>>, dubRun[r].at # "idle",
         \/ dubRun[r].at \in DubCueAts /\ dubRun'[r].at \in DubCueAts
         \/ dubRun[r].at \in DubEndAts /\ dubRun'[r].at \in DubEndAts,
         dubRun'[r].at = "synth" => dubRun'[r].model \in Models,
         dubWav[r] # Mute => dubRun'[r].at = "shape", dubRun'[r].at = "shape" => dubWav[r] # Mute
  PROVE  DubRunInv(r)'
<1> USE DEF DubMoved, DubIs
<1>0. DubCueInv(r) /\ DubClipInv(r) /\ DubWavInv(r) /\ dubRun[r].cue \in 0..(DubCues + 1)
      /\ dubRun[r].fresh \in Nat
  BY DEF DubInv, DubTypes, DubRunsTyped, DubRunSet
<1>1. DubCueInv(r)'
  <2>1. dubRun'[r].at \in DubCueAts => dubRun'[r].cue \in Cues
    BY <1>0 DEF DubCueInv, DubCueAts, DubEndAts
  <2>2. dubRun'[r].at \in DubEndAts => dubRun'[r].cue = DubCues + 1
    BY <1>0 DEF DubCueInv, DubCueAts, DubEndAts
  <2>3. dubRun'[r].at # "slow"
    BY DEF DubCueAts, DubEndAts
  <2>4. dubRun'[r].fresh < dubRun'[r].cue
    <3>1. dubRun[r].fresh < dubRun[r].cue
      BY <1>0 DEF DubCueInv
    <3> QED
      BY <1>0, <3>1
  <2> QED
    BY <2>1, <2>2, <2>3, <2>4 DEF DubCueInv
<1>2. DubClipInv(r)'
  BY <1>0 DEF DubClipInv
<1>3. DubWavInv(r)'
  BY <1>0 DEF DubWavInv
<1> QED
  BY <1>1, <1>2, <1>3 DEF DubRunInv

\* A clip is put on the timeline, in the cue's own voice when it has one.
LEMMA DubRunAdds ==
  ASSUME DubInv, NEW r \in DubRows, NEW at, NEW fresh, NEW voice,
         dubRun[r].at \in DubCueAts, dubRun[r].at # "idle",
         DubMoved(r, at, dubRun[r].cue + 1, fresh, dubRun[r].model,
                  [dubRun[r].clips EXCEPT ![dubRun[r].cue] = voice]),
         fresh \in {dubRun[r].fresh, dubRun[r].fresh + 1},
         at \in {"slow", "unload", "cue", "mix"},
         at \in {"unload", "cue"} => dubRun[r].cue < DubCues,
         at = "mix" => dubRun[r].cue = DubCues,
         voice # Mute, dubRun[r].cue \in dubRow[r].bound => voice = dubRun[r].cue,
         dubRow'[r].bound = dubRow[r].bound, dubWav'[r] = Mute
  PROVE  DubRunInv(r)'
<1> USE DEF DubMoved, DubIs
<1>0. /\ DubCueInv(r) /\ DubClipInv(r) /\ dubRun[r].cue \in Cues /\ dubRun[r].fresh < dubRun[r].cue
      /\ dubRun[r].clips \in [Cues -> Voices \cup {Mute}] /\ dubRun[r].fresh \in Nat
  BY DEF DubInv, DubTypes, DubRunsTyped, DubRunSet, DubCueInv
<1>1. DubCueInv(r)'
  <2>1. dubRun'[r].at \in DubCueAts => dubRun'[r].cue \in Cues
    BY <1>0 DEF DubCueAts, Cues
  <2>2. dubRun'[r].at \in DubEndAts => dubRun'[r].cue = DubCues + 1
    BY <1>0 DEF DubEndAts
  <2>3. dubRun'[r].cue - 1 \in Cues
    BY <1>0 DEF Cues
  <2>4. dubRun'[r].fresh < dubRun'[r].cue
    BY <1>0 DEF Cues
  <2> QED
    BY <2>1, <2>2, <2>3, <2>4 DEF DubCueInv
<1>2. DubClipInv(r)'
  <2> SUFFICES ASSUME NEW c \in Cues, c < dubRun[r].cue + 1
               PROVE  /\ dubRun'[r].clips[c] # Mute
                      /\ c \in dubRow[r].bound => dubRun'[r].clips[c] = c
    BY DEF DubClipInv
  <2>1. CASE c = dubRun[r].cue
    BY <1>0, <2>1
  <2>2. CASE c # dubRun[r].cue
    <3>1. c < dubRun[r].cue
      BY <1>0, <2>2 DEF Cues
    <3>2. dubRun'[r].clips[c] = dubRun[r].clips[c]
      BY <1>0, <2>2
    <3> QED
      BY <1>0, <3>1, <3>2 DEF DubClipInv
  <2> QED
    BY <2>1, <2>2
<1>3. DubWavInv(r)'
  BY DEF DubWavInv
<1> QED
  BY <1>1, <1>2, <1>3 DEF DubRunInv

LEMMA DubRunInvStep ==
  ASSUME DubInv, NEW r \in DubRows, DubStepOf(r)
  PROVE  DubRunInv(r)'
<1>0. /\ DubTypes /\ DubRunsTyped /\ DubRowsTyped /\ DubRowsInv
      /\ DubRunInv(r) /\ DubCueInv(r) /\ DubClipInv(r) /\ DubWavInv(r) /\ DubThreadInv(r)
  BY DEF DubInv, DubTypes, DubRunInv
<1>00. DubFail(r) => DubRunInv(r)'
  BY <1>0, DubFailPut, DubRunEnded, DubBasics
<1>000. ASSUME NEW at \in DubAts, DubGoes(r, at), UNCHANGED <<dubRow, dubWav>>, dubRun[r].at # "idle",
               \/ dubRun[r].at \in DubCueAts /\ at \in DubCueAts
               \/ dubRun[r].at \in DubEndAts /\ at \in DubEndAts,
               at = "synth" => dubRun[r].model \in Models,
               dubWav[r] # Mute => at = "shape", at = "shape" => dubWav[r] # Mute
        PROVE  DubRunInv(r)'
  <2>1. DubMoved(r, at, dubRun[r].cue, dubRun[r].fresh, dubRun[r].model, dubRun[r].clips)
    BY <1>0, <1>000, DubGoesPut DEF DubMoved
  <2> QED
    BY <1>000, <2>1, DubRunMoves DEF DubMoved
<1>0000. dubRun[r].at \notin {"synth", "shape"} => dubWav[r] = Mute
  BY <1>0 DEF DubWavInv, DubIs
<1> USE <1>0, <1>00, <1>0000
<1>1. CASE DubLoopFree(r) /\ DubStart(r)
  <2>1. dubRun[r].at = "idle"
    BY <1>1 DEF DubStart, DubNextRow, DubRowsInv, DubRowInv, DubIs, DubProcessing, DubGone
  <2> QED
    BY <1>1, <2>1, DubRunEnded DEF DubStart
<1>2. CASE DubLoopFree(r) /\ DubRetry(r)
  <2>1. dubRun[r].at = "idle"
    BY <1>2 DEF DubRetry, DubNextRow, DubRowsInv, DubRowInv, DubIs, DubProcessing, DubGone
  <2> QED
    BY <1>2, <2>1, DubRunEnded DEF DubRetry
<1>3. CASE DubCancel(r)
  <2>1. dubRow'[r].bound = dubRow[r].bound
    BY <1>3 DEF DubCancel, DubRowsTyped, DubRowSet
  <2> QED
    BY <1>3, <2>1, DubRunKept DEF DubCancel
<1>4. CASE DubLoopFree(r) /\ DubClaim(r)
  <2>1. dubWav'[r] = Mute
    BY <1>4 DEF DubClaim, DubIs
  <2>2. CASE dubOut = NoDub
    <3>1. DubMoved(r, "cue", 1, 0, 0, NoRun.clips)
      BY <1>4, <2>2, DubClaimPut
    <3>2. DubCueInv(r)'
      BY <3>1 DEF DubMoved, DubCueInv, DubIs, DubCueAts, DubEndAts, Cues
    <3>3. DubClipInv(r)'
      BY <3>1 DEF DubMoved, DubClipInv, Cues
    <3>4. DubWavInv(r)'
      BY <2>1, <3>1 DEF DubMoved, DubWavInv, DubIs
    <3> QED
      BY <3>2, <3>3, <3>4 DEF DubRunInv
  <2>3. CASE dubOut # NoDub
    BY <1>4, <2>1, <2>3, DubClaimPut, DubRunEnded
  <2> QED
    BY <2>2, <2>3
<1>5. CASE DubUnwound(r)
  BY <1>5 DEF DubUnwound
<1>6. CASE DubCached(r)
  <2>1. DubIs(r, "cue") /\ dubRun[r].cue \in Cues
    BY <1>6 DEF DubCached, DubReady, DubCueInv, DubIs, DubCueAts
  <2>2. dubRun[r].cue \in dubRow[r].bound => DubKept(r) = dubRun[r].cue
    <3>1. dubRow[r].bound \in Casts
      BY DEF DubRowsTyped, DubRowSet
    <3> QED
      BY <1>6, <2>1, <3>1 DEF DubCached, DubKept, DubOwnVoice, DubInv
  <2>3. /\ DubTurn(r) \in {"slow", "unload", "cue", "mix"}
        /\ DubTurn(r) \in {"unload", "cue"} => dubRun[r].cue < DubCues
        /\ DubTurn(r) = "mix" => dubRun[r].cue = DubCues
    BY <2>1 DEF DubTurn, Cues
  <2>4. dubWav'[r] = Mute /\ dubRow'[r].bound = dubRow[r].bound /\ DubKept(r) # Mute
    BY <1>6, <2>1 DEF DubCached, DubIs
  <2>5. DubMoved(r, DubTurn(r), dubRun[r].cue + 1, dubRun[r].fresh, dubRun[r].model,
                 [dubRun[r].clips EXCEPT ![dubRun[r].cue] = DubKept(r)])
    BY <1>6, DubCachedPut
  <2> HIDE <1>0, <1>00, <1>0000
  <2>6. dubRun[r].at \in DubCueAts /\ dubRun[r].at # "idle"
    BY <2>1 DEF DubIs, DubCueAts
  <2> QED
    BY <2>1, <2>2, <2>3, <2>4, <2>5, <2>6, DubRunAdds
<1>7. CASE DubStops(r)
  BY <1>7, DubEndPut, DubRunEnded, DubBasics DEF DubStops, DubQuit
<1>8. CASE DubLoad(r)
  BY <1>8, <1>000 DEF DubLoad, DubUncached, DubReady, DubIs, DubAts, DubWaits, DubProcesses,
       DubCueAts, DubEndAts
<1>9. CASE DubHasModel(r)
  <2>1. CASE ~DubFail(r)
    <3>1. PICK m \in Models : /\ DubMoved(r, "cue", dubRun[r].cue, dubRun[r].fresh, m, dubRun[r].clips)
                              /\ UNCHANGED <<dubRow, dubWav>>
      BY <1>9, <2>1, DubHasModelPut
    <3>2. dubRun[r].at = "load"
      BY <1>9 DEF DubHasModel, DubIs
    <3>3. dubWav[r] = Mute
      BY <3>2
    <3> HIDE <1>0, <1>00, <1>0000
    <3> QED
      BY <3>1, <3>2, <3>3, DubRunMoves DEF DubCueAts, DubMoved
  <2> QED
    BY <2>1
<1>10. CASE DubSpeak(r)
  <2>1. dubRun[r].model \in Models /\ DubIs(r, "cue")
    BY <1>10 DEF DubSpeak, DubUncached, DubReady, DubRunsTyped, DubRunSet
  <2> QED
    BY <1>10, <2>1, <1>000 DEF DubSpeak, DubIs, DubAts, DubWaits, DubProcesses, DubCueAts, DubEndAts
<1>11. CASE DubSpoken(r)
  BY <1>11, <1>000 DEF DubSpoken, DubUncached, DubReady, DubIs, DubAts, DubWaits, DubProcesses,
       DubCueAts, DubEndAts
<1>12. CASE DubShape(r)
  <2>1. DubIs(r, "shape") /\ dubRun[r].cue \in Cues
    BY <1>12 DEF DubShape, DubCueInv, DubIs, DubCueAts
  <2>2. PICK at \in DubNextStage(r) : DubShaped(r, at)
    BY <1>12 DEF DubShape
  <2>3. /\ at \in {"slow", "unload", "cue", "mix"}
        /\ at \in {"unload", "cue"} => dubRun[r].cue < DubCues
        /\ at = "mix" => dubRun[r].cue = DubCues
    BY <2>1, <2>2 DEF DubNextStage, DubTurn, Cues
  <2>4. dubRow'[r].bound = dubRow[r].bound
    BY <1>12 DEF DubShape
  <2>5. dubWav[r] # Mute /\ (dubRun[r].cue \in dubRow[r].bound => dubWav[r] = dubRun[r].cue)
    BY <2>1 DEF DubWavInv, DubIs
  <2>6. /\ DubMoved(r, at, dubRun[r].cue + 1, dubRun[r].fresh + 1, dubRun[r].model,
                    [dubRun[r].clips EXCEPT ![dubRun[r].cue] = dubWav[r]])
        /\ dubWav'[r] = Mute
    BY <2>2, DubShapePut DEF DubFresh
  <2> HIDE <1>0, <1>00, <1>0000
  <2>7. dubRun[r].at \in DubCueAts /\ dubRun[r].at # "idle"
    BY <2>1 DEF DubIs, DubCueAts
  <2>8. PICK fresh : fresh = dubRun[r].fresh + 1
    OBVIOUS
  <2>9. /\ DubMoved(r, at, dubRun[r].cue + 1, fresh, dubRun[r].model,
                    [dubRun[r].clips EXCEPT ![dubRun[r].cue] = dubWav[r]])
        /\ dubWav'[r] = Mute
    BY <2>6, <2>8
  <2> QED
    BY <2>1, <2>3, <2>4, <2>5, <2>7, <2>8, <2>9, DubRunAdds
<1>13. CASE DubUnload(r)
  <2>1. CASE ~DubFail(r)
    <3>1. /\ DubMoved(r, "cue", dubRun[r].cue, 0, 0, dubRun[r].clips)
          /\ UNCHANGED <<dubRow, dubWav>> /\ dubRun[r].at = "unload"
      BY <1>13, <2>1, DubUnloadPut DEF DubIs
    <3>2. dubWav[r] = Mute
      BY <3>1
    <3> HIDE <1>0, <1>00, <1>0000
    <3> QED
      BY <3>1, <3>2, DubRunMoves DEF DubCueAts, DubMoved
  <2> QED
    BY <2>1
<1>14. CASE DubBroken(r)
  BY <1>14 DEF DubBroken
<1>15. CASE DubMix(r)
  BY <1>15, <1>000 DEF DubMix, DubUncached, DubReady, DubIs, DubAts, DubWaits, DubProcesses,
       DubCueAts, DubEndAts
<1>16. CASE DubPlace(r)
  BY <1>16, <1>000 DEF DubPlace, DubUncached, DubReady, DubIs, DubAts, DubWaits, DubProcesses,
       DubCueAts, DubEndAts
<1>17. CASE DubVerify(r)
  BY <1>17, <1>000 DEF DubVerify, DubUncached, DubReady, DubIs, DubAts, DubWaits, DubProcesses,
       DubCueAts, DubEndAts
<1>18. CASE DubDone(r)
  BY <1>18, DubEndPut, DubRunEnded, DubBasics DEF DubDone
<1>19. CASE DubPrepare(r)
  BY <1>19, DubRunKept DEF DubPrepare
<1>20. CASE DubGenerate(r)
  <2>1. CASE dubWav' = dubWav
    BY <1>20, <2>1, DubRunKept DEF DubGenerate
  <2>2. CASE dubWav' # dubWav
    <3>1. dubWav'[r] = dubConds[dubThread[r].model] /\ ~dubThread[r].discard
      BY <1>20, <2>2 DEF DubGenerate, DubRunsTyped
    <3>2. DubIs(r, "synth") /\ dubThread[r].voice = DubVoice(r)
      BY <1>20, <3>1 DEF DubGenerate, DubThreadInv
    <3>3. dubRun[r].cue \in dubRow[r].bound => dubWav'[r] = dubRun[r].cue
      <4>1. dubRun[r].cue \in Cues
        BY <3>2 DEF DubCueInv, DubIs, DubCueAts
      <4> QED
        BY <1>20, <3>1, <3>2, <4>1, DubBasics DEF DubVoice, DubThreadInv, DubGenerate
    <3>4. DubWavInv(r)'
      BY <1>20, <3>2, <3>3 DEF DubWavInv, DubIs, DubGenerate
    <3>5. DubCueInv(r)' /\ DubClipInv(r)'
      BY <1>20 DEF DubCueInv, DubClipInv, DubIs, DubGenerate
    <3> QED
      BY <3>4, <3>5 DEF DubRunInv
  <2> QED
    BY <2>1, <2>2
<1> QED
  BY <1>1, <1>2, <1>3, <1>4, <1>5, <1>6, <1>7, <1>8, <1>9, <1>10, <1>11, <1>12, <1>13, <1>14, <1>15,
       <1>16, <1>17, <1>18, <1>19, <1>20
     DEF DubStepOf, DubOnLoop, DubRunStep, DubThreadStep

\* Steps of a run that is not waiting for a live thread leave the threads alone.
LEMMA DubThreadsQuiet ==
  ASSUME DubInv, NEW r \in DubRows, DubOthers(r), UNCHANGED <<dubThread, dubConds, dubLock>>,
         \/ dubRun[r].at # "synth" \/ dubThread[r].at = "none"
         \/ dubRun'[r] = dubRun[r] /\ dubRow'[r].bound = dubRow[r].bound
  PROVE  \A o \in DubRows : DubThreadInv(o)'
<1> SUFFICES ASSUME NEW o \in DubRows PROVE DubThreadInv(o)'
  OBVIOUS
<1>1. DubThreadInv(o)
  BY DEF DubInv
<1>2. CASE o # r
  BY <1>1, <1>2 DEF DubThreadInv, DubOthers, DubIs, DubVoice
<1>3. CASE o = r
  BY <1>1, <1>3 DEF DubThreadInv, DubIs, DubVoice
<1> QED
  BY <1>2, <1>3

LEMMA DubThreadInvStep ==
  ASSUME DubInv, NEW r \in DubRows, DubStepOf(r)
  PROVE  \A o \in DubRows : DubThreadInv(o)'
<1>0. /\ DubTypes /\ DubRunsTyped /\ DubRowsTyped /\ DubThreadsTyped /\ DubRowsInv /\ DubOthers(r)
      /\ DubThreadInv(r) /\ DubCueInv(r)
  BY DubOthersStep DEF DubInv, DubTypes
<1>00. DubNextRow(r) => dubRun[r].at = "idle"
  BY <1>0 DEF DubNextRow, DubRowsInv, DubRowInv, DubIs, DubProcessing, DubGone
<1> USE <1>0, <1>00
<1>1. CASE DubLoopFree(r) /\ DubStart(r)
  BY <1>1, DubThreadsQuiet DEF DubStart, dubModel
<1>2. CASE DubLoopFree(r) /\ DubRetry(r)
  BY <1>2, DubThreadsQuiet DEF DubRetry, dubModel
<1>3. CASE DubCancel(r)
  <2>1. dubRow'[r].bound = dubRow[r].bound
    BY <1>3 DEF DubCancel, DubRowsTyped, DubRowSet
  <2> QED
    BY <1>3, <2>1, DubThreadsQuiet DEF DubCancel, dubModel
<1>4. CASE DubLoopFree(r) /\ DubClaim(r)
  BY <1>4, DubThreadsQuiet DEF DubClaim, DubIs, DubReady, DubUncached, dubModel
<1>5. CASE DubUnwound(r)
  <2>1. dubThread' = [dubThread EXCEPT ![r].discard = dubThread[r].at # "none"]
    BY <1>5 DEF DubUnwound
  <2>2. dubThread'[r] = [dubThread[r] EXCEPT !.discard = dubThread[r].at # "none"]
    BY <2>1 DEF DubThreadsTyped
  <2>3. dubThread[r] \in DubThreadSet
    BY DEF DubThreadsTyped
  <2>4. /\ dubThread'[r].at = dubThread[r].at /\ dubThread'[r].voice = dubThread[r].voice
        /\ dubThread'[r].model = dubThread[r].model /\ dubThread'[r].discard = (dubThread[r].at # "none")
    BY <2>2, <2>3 DEF DubThreadSet
  <2>5. ASSUME NEW o \in DubRows PROVE DubThreadInv(o)'
    <3>1. DubThreadInv(o) /\ UNCHANGED <<dubConds, dubLock>>
      BY <1>5 DEF DubInv, DubUnwound
    <3>2. CASE o # r
      BY <3>1, <3>2 DEF DubThreadInv, DubOthers, DubIs, DubVoice
    <3>3. CASE o = r
      BY <2>4, <3>1, <3>3 DEF DubThreadInv
    <3> QED
      BY <3>2, <3>3
  <2> QED
    BY <2>5
<1>6. CASE DubCached(r)
  BY <1>6, DubThreadsQuiet DEF DubCached, DubIs, DubReady, DubUncached, dubModel
<1>7. CASE DubStops(r)
  BY <1>7, DubThreadsQuiet DEF DubStops, DubIs, DubReady, DubUncached, dubModel
<1>8. CASE DubLoad(r)
  BY <1>8, DubThreadsQuiet DEF DubLoad, DubIs, DubReady, DubUncached, dubModel
<1>9. CASE DubHasModel(r)
  <2>1. CASE UNCHANGED dubConds
    BY <1>9, <2>1, DubThreadsQuiet DEF DubHasModel, DubIs
  <2>2. ASSUME ~UNCHANGED dubConds, NEW o \in DubRows PROVE DubThreadInv(o)'
    <3>1. PICK m \in Models : m \in DubFree /\ dubConds' = [dubConds EXCEPT ![m] = 0]
      BY <1>9, <2>2, DubHasModelPut DEF DubHasModel
    <3>2. DubThreadInv(o) /\ UNCHANGED <<dubThread, dubLock>> /\ DubIs(r, "load")
      BY <1>9 DEF DubInv, DubHasModel
    <3>3. dubThread[o].at # "none" => dubConds'[dubThread[o].model] = dubConds[dubThread[o].model]
      BY <3>1, <3>2 DEF DubFree, DubThreadInv, DubThreadsTyped
    <3>4. o # r => dubRun'[o] = dubRun[o] /\ dubRow'[o] = dubRow[o]
      BY DEF DubOthers
    <3>5. dubThread[o].at # "none" /\ ~dubThread[o].discard => o # r
      BY <3>2 DEF DubThreadInv, DubIs
    <3> QED
      BY <3>2, <3>3, <3>4, <3>5 DEF DubThreadInv, DubIs, DubVoice
  <2> QED
    BY <2>1, <2>2
<1>10. CASE DubSpeak(r)
  <2>1. /\ dubThread'[r] = [at |-> "queued", voice |-> DubVoice(r), model |-> dubRun[r].model, discard |-> FALSE]
        /\ UNCHANGED <<dubRow, dubConds, dubLock>> /\ dubThread[r].at = "none"
    BY <1>10 DEF DubSpeak, DubThreadsTyped
  <2>2. dubRun'[r].at = "synth" /\ dubRun'[r].cue = dubRun[r].cue
    BY <1>10, DubGoesPut DEF DubSpeak, DubAts, DubWaits
  <2>3. dubRun[r].model \in Models
    BY <1>10 DEF DubSpeak, DubRunsTyped, DubRunSet
  <2>4. ASSUME NEW o \in DubRows PROVE DubThreadInv(o)'
    <3>1. DubThreadInv(o)
      BY DEF DubInv
    <3>2. CASE o # r
      BY <2>1, <3>1, <3>2 DEF DubThreadInv, DubOthers, DubIs, DubVoice
    <3>3. CASE o = r
      BY <2>1, <2>2, <2>3, <3>1, <3>3 DEF DubThreadInv, DubIs, DubVoice
    <3> QED
      BY <3>2, <3>3
  <2> QED
    BY <2>4
<1>11. CASE DubSpoken(r)
  BY <1>11, DubThreadsQuiet DEF DubSpoken, DubIs, DubReady, DubUncached, dubModel
<1>12. CASE DubShape(r)
  BY <1>12, DubThreadsQuiet DEF DubShape, DubIs, DubReady, DubUncached, dubModel
<1>13. CASE DubUnload(r)
  BY <1>13, DubThreadsQuiet DEF DubUnload, DubIs
<1>14. CASE DubBroken(r)
  BY <1>14, DubThreadsQuiet DEF DubBroken, DubProcesses, dubModel
<1>15. CASE DubMix(r)
  BY <1>15, DubThreadsQuiet DEF DubMix, DubIs, dubModel
<1>16. CASE DubPlace(r)
  BY <1>16, DubThreadsQuiet DEF DubPlace, DubIs, DubReady, DubUncached, dubModel
<1>17. CASE DubVerify(r)
  BY <1>17, DubThreadsQuiet DEF DubVerify, DubIs, DubReady, DubUncached, dubModel
<1>18. CASE DubDone(r)
  BY <1>18, DubThreadsQuiet DEF DubDone, DubIs, DubReady, DubUncached, dubModel
<1>19. CASE DubPrepare(r)
  <2>1. dubThread[r] \in DubThreadSet /\ dubThread'[r] = [dubThread[r] EXCEPT !.at = "prepared"]
    BY <1>19 DEF DubPrepare, DubThreadsTyped
  <2>2. /\ dubThread'[r].at = "prepared" /\ dubThread'[r].voice = dubThread[r].voice
        /\ dubThread'[r].model = dubThread[r].model /\ dubThread'[r].discard = dubThread[r].discard
    BY <2>1 DEF DubThreadSet
  <2>3. dubThread[r].model \in Models /\ dubLock = 0 /\ dubLock' = r
    BY <1>19 DEF DubPrepare, DubThreadInv
  <2>4. dubThread[r].voice # 0 => dubConds'[dubThread[r].model] = dubThread[r].voice
    BY <1>19, <2>3 DEF DubPrepare, DubThreadsTyped
  <2>5. ASSUME NEW o \in DubRows PROVE DubThreadInv(o)'
    <3>1. DubThreadInv(o) /\ UNCHANGED <<dubRow, dubRun>> /\ o # 0 /\ r # 0
      BY <1>19 DEF DubInv, DubPrepare, DubRows
    <3>2. CASE o # r
      <4>1. dubThread[o].at # "prepared" /\ dubThread'[o] = dubThread[o]
        BY <2>3, <3>1, <3>2 DEF DubThreadInv, DubOthers
      <4> QED
        BY <2>3, <3>1, <3>2, <4>1 DEF DubThreadInv, DubIs, DubVoice
    <3>3. CASE o = r
      BY <1>19, <2>2, <2>3, <2>4, <3>1, <3>3 DEF DubThreadInv, DubIs, DubVoice, DubPrepare
    <3> QED
      BY <3>2, <3>3
  <2> QED
    BY <2>5
<1>20. CASE DubGenerate(r)
  <2>1. dubThread'[r] = NoSpeaker /\ dubThread'[r].at = "none"
    BY <1>20, DubBasics DEF DubGenerate, DubThreadsTyped
  <2>2. dubLock = r /\ dubLock' = 0
    BY <1>20 DEF DubGenerate, DubThreadInv
  <2>3. ASSUME NEW o \in DubRows PROVE DubThreadInv(o)'
    <3>1. DubThreadInv(o) /\ UNCHANGED <<dubRow, dubRun, dubConds>> /\ o # 0
      BY <1>20 DEF DubInv, DubGenerate, DubRows
    <3>2. CASE o # r
      BY <2>2, <3>1, <3>2 DEF DubThreadInv, DubOthers, DubIs, DubVoice
    <3>3. CASE o = r
      BY <2>1, <2>2, <3>1, <3>3 DEF DubThreadInv
    <3> QED
      BY <3>2, <3>3
  <2> QED
    BY <2>3
<1> QED
  BY <1>1, <1>2, <1>3, <1>4, <1>5, <1>6, <1>7, <1>8, <1>9, <1>10, <1>11, <1>12, <1>13, <1>14, <1>15,
       <1>16, <1>17, <1>18, <1>19, <1>20
     DEF DubStepOf, DubOnLoop, DubRunStep, DubThreadStep

LEMMA DubOutInvStep ==
  ASSUME DubInv, NEW r \in DubRows, DubStepOf(r)
  PROVE  \A o \in DubRows : DubOutInv(o)'
<1>0. /\ DubTypes /\ DubRunsTyped /\ DubRowsTyped /\ DubRowsInv /\ DubOthers(r) /\ DubOutInv(r)
  BY DubOthersStep DEF DubInv, DubTypes
<1>00. UNCHANGED dubOut /\ DubOutInv(r)' => \A o \in DubRows : DubOutInv(o)'
  <2> SUFFICES ASSUME UNCHANGED dubOut, DubOutInv(r)', NEW o \in DubRows PROVE DubOutInv(o)'
    OBVIOUS
  <2>1. CASE o # r
    BY <1>0, <2>1 DEF DubInv, DubOutInv, DubOthers, DubProcessing, DubIs
  <2> QED
    BY <2>1
<1>000. DubFail(r) => DubOutInv(r)'
  BY <1>0, DubFailPut DEF DubOutInv, DubProcessing
<1>0000. ASSUME NEW at \in DubAts \ {"verify", "done"}, dubRun'[r].at = at, UNCHANGED <<dubRow, dubOut>>,
                dubRun[r].at \notin {"verify", "done"}
         PROVE  DubOutInv(r)'
  BY <1>0, <1>0000 DEF DubOutInv, DubProcessing, DubIs
<1>00000. \A at \in DubAts : DubGoes(r, at) => dubRun'[r].at = at
  BY <1>0, DubGoesPut
<1> USE <1>0, <1>00
<1>1. CASE DubLoopFree(r) /\ DubStart(r)
  <2>1. \A o \in DubRows : ~DubProcessing(o)'
    BY <1>1 DEF DubStart, DubNextRow, DubInsert, DubRowsTyped, DubOthers, DubProcessing
  <2> QED
    BY <2>1 DEF DubOutInv
<1>2. CASE DubLoopFree(r) /\ DubRetry(r)
  <2>1. \A o \in DubRows : ~DubProcessing(o)'
    BY <1>2 DEF DubRetry, DubNextRow, DubInsert, DubRowsTyped, DubOthers, DubProcessing
  <2> QED
    BY <2>1 DEF DubOutInv
<1>3. CASE DubCancel(r)
  <2>1. ~DubProcessing(r)'
    BY <1>3 DEF DubCancel, DubRowsTyped, DubRowSet, DubProcessing
  <2> QED
    BY <1>3, <2>1 DEF DubCancel, DubOutInv
<1>4. CASE DubLoopFree(r) /\ DubClaim(r)
  <2>1. DubOutInv(r)'
    BY <1>4, DubClaimPut DEF DubOutInv, DubProcessing, DubIs, DubMoved, DubClaim
  <2> QED
    BY <1>4, <2>1 DEF DubClaim
<1>5. CASE DubUnwound(r)
  BY <1>5, <1>000 DEF DubUnwound
<1>6. CASE DubCached(r)
  <2>1. dubRun'[r].at \in {"cue", "mix"} /\ dubRun[r].at = "cue"
    BY <1>6, DubCachedPut DEF DubMoved, DubTurn, DubReady, DubIs
  <2> QED
    BY <1>6, <2>1, <1>0000 DEF DubCached, DubAts, DubWaits, DubProcesses
<1>7. CASE DubStops(r)
  <2>1. CASE DubGone(r) /\ DubQuit(r)
    BY <1>7, <2>1 DEF DubStops, DubQuit, DubGone, DubOutInv, DubProcessing
  <2> QED
    BY <1>7, <2>1, <1>000 DEF DubStops
<1>8. CASE DubLoad(r)
  <2>1. CASE ~DubFail(r)
    BY <1>8, <2>1, <1>0000, <1>00000 DEF DubLoad, DubIs, DubReady, DubUncached, DubAts, DubWaits,
         DubProcesses
  <2> QED
    BY <1>8, <2>1, <1>000 DEF DubLoad
<1>9. CASE DubHasModel(r)
  <2>1. CASE ~DubFail(r)
    <3>1. dubRun'[r].at = "cue" /\ dubRun[r].at \notin {"verify", "done"} /\ UNCHANGED dubRow
      BY <1>9, <2>1, DubHasModelPut DEF DubMoved, DubHasModel, DubIs
    <3> QED
      BY <1>9, <3>1, <1>0000 DEF DubHasModel, DubAts
  <2> QED
    BY <1>9, <2>1, <1>000 DEF DubHasModel
<1>10. CASE DubSpeak(r)
  <2>1. CASE ~DubFail(r)
    BY <1>10, <2>1, <1>0000, <1>00000 DEF DubSpeak, DubIs, DubReady, DubUncached, DubAts, DubWaits,
         DubProcesses
  <2> QED
    BY <1>10, <2>1, <1>000 DEF DubSpeak
<1>11. CASE DubSpoken(r)
  <2>1. CASE ~DubFail(r)
    BY <1>11, <2>1, <1>0000, <1>00000 DEF DubSpoken, DubIs, DubReady, DubUncached, DubAts, DubWaits,
         DubProcesses
  <2> QED
    BY <1>11, <2>1, <1>000 DEF DubSpoken
<1>12. CASE DubShape(r)
  <2>1. PICK at \in DubNextStage(r) : DubShaped(r, at)
    BY <1>12 DEF DubShape
  <2>2. at \in DubAts \ {"verify", "done"} /\ dubRun[r].at = "shape"
    BY <1>12 DEF DubNextStage, DubTurn, DubAts, DubWaits, DubProcesses, DubShape, DubIs
  <2>3. dubRun'[r].at = at
    BY <2>1, DubShapePut DEF DubMoved
  <2> QED
    BY <1>12, <2>2, <2>3, <1>0000 DEF DubShape
<1>13. CASE DubUnload(r)
  <2>1. CASE ~DubFail(r)
    <3>1. dubRun'[r].at = "cue" /\ dubRun[r].at \notin {"verify", "done"} /\ UNCHANGED dubRow
      BY <1>13, <2>1, DubUnloadPut DEF DubMoved, DubUnload, DubIs
    <3> QED
      BY <1>13, <3>1, <1>0000 DEF DubUnload, DubAts
  <2> QED
    BY <1>13, <2>1, <1>000 DEF DubUnload
<1>14. CASE DubBroken(r)
  BY <1>14, <1>000 DEF DubBroken
<1>15. CASE DubMix(r)
  <2>1. CASE ~DubFail(r)
    BY <1>15, <2>1, <1>0000, <1>00000 DEF DubMix, DubIs, DubReady, DubUncached, DubAts, DubWaits,
         DubProcesses
  <2> QED
    BY <1>15, <2>1, <1>000 DEF DubMix
<1>16. CASE DubPlace(r)
  <2>1. CASE DubGoes(r, "verify") /\ dubOut' = dubRun[r].clips
    <3>1. dubRun'[r].at = "verify" /\ dubRun'[r].clips = dubRun[r].clips
      BY <2>1, DubGoesPut DEF DubAts, DubWaits
    <3>2. DubOutInv(r)'
      BY <2>1, <3>1 DEF DubOutInv, DubIs
    <3>3. ASSUME NEW o \in DubRows \ {r} PROVE DubOutInv(o)'
      BY <1>16 DEF DubPlace, DubRowsInv, DubPairInv, DubOutInv, DubOthers, DubProcessing
    <3> QED
      BY <3>2, <3>3
  <2> QED
    BY <1>16, <2>1, <1>000 DEF DubPlace
<1>17. CASE DubVerify(r)
  <2>1. CASE DubGoes(r, "done") /\ UNCHANGED dubRow
    <3>1. dubRun'[r].at = "done" /\ dubRun'[r].clips = dubRun[r].clips
      BY <2>1, DubGoesPut DEF DubAts
    <3>2. DubOutInv(r)'
      BY <1>17, <2>1, <3>1 DEF DubVerify, DubOutInv, DubIs, DubProcessing
    <3> QED
      BY <1>17, <3>2 DEF DubVerify
  <2> QED
    BY <1>17, <2>1, <1>000 DEF DubVerify
<1>18. CASE DubDone(r)
  <2>1. ~DubProcessing(r)'
    BY <1>18 DEF DubDone, DubRowsTyped, DubRowSet, DubProcessing, DubGone
  <2> QED
    BY <1>18, <2>1 DEF DubDone, DubOutInv
<1>19. CASE DubPrepare(r)
  BY <1>19 DEF DubPrepare, DubOutInv, DubProcessing, DubIs
<1>20. CASE DubGenerate(r)
  BY <1>20 DEF DubGenerate, DubOutInv, DubProcessing, DubIs
<1> QED
  BY <1>1, <1>2, <1>3, <1>4, <1>5, <1>6, <1>7, <1>8, <1>9, <1>10, <1>11, <1>12, <1>13, <1>14, <1>15,
       <1>16, <1>17, <1>18, <1>19, <1>20
     DEF DubStepOf, DubOnLoop, DubRunStep, DubThreadStep

DubCacheInv == DubOwnVoice /\ \A o \in DubRows : DubSlowInv(o)
LEMMA DubCacheInvStep ==
  ASSUME DubInv, NEW r \in DubRows, DubStepOf(r)
  PROVE  DubCacheInv'
<1>0. /\ DubTypes /\ DubRunsTyped /\ DubRowsTyped /\ DubCacheTyped /\ DubRowsInv /\ DubOthers(r) /\ DubOwnVoice
      /\ DubSlowInv(r) /\ DubCueInv(r) /\ DubWavInv(r)
  BY DubOthersStep DEF DubInv, DubTypes
<1>00. UNCHANGED dubCache /\ DubSlowInv(r)' => DubCacheInv'
  <2> SUFFICES ASSUME UNCHANGED dubCache, DubSlowInv(r)', NEW o \in DubRows PROVE DubSlowInv(o)'
    BY <1>0 DEF DubCacheInv, DubOwnVoice
  <2>1. CASE o # r
    BY <1>0, <2>1 DEF DubInv, DubSlowInv, DubOthers, DubProcessing, DubIs
  <2> QED
    BY <2>1
<1>000. DubFail(r) => DubSlowInv(r)'
  BY <1>0, DubFailPut DEF DubSlowInv, DubProcessing
<1>0000. dubRun'[r].at # "slow" => DubSlowInv(r)'
  BY DEF DubSlowInv, DubIs
<1>00000. \A at \in DubAts : DubGoes(r, at) => dubRun'[r].at = at
  BY <1>0, DubGoesPut
<1> USE <1>0, <1>00, <1>000, <1>0000
<1>1. CASE DubLoopFree(r) /\ DubStart(r)
  <2>1. dubRun'[r].at # "slow"
    BY <1>1 DEF DubStart, DubNextRow, DubRowsInv, DubRowInv, DubIs, DubProcessing, DubGone
  <2> QED
    BY <1>1, <2>1 DEF DubStart
<1>2. CASE DubLoopFree(r) /\ DubRetry(r)
  <2>1. dubRun'[r].at # "slow"
    BY <1>2 DEF DubRetry, DubNextRow, DubRowsInv, DubRowInv, DubIs, DubProcessing, DubGone
  <2> QED
    BY <1>2, <2>1 DEF DubRetry
<1>3. CASE DubCancel(r)
  <2>1. ~DubProcessing(r)'
    BY <1>3 DEF DubCancel, DubRowsTyped, DubRowSet, DubProcessing
  <2> QED
    BY <1>3, <2>1 DEF DubCancel, DubSlowInv
<1>4. CASE DubLoopFree(r) /\ DubClaim(r)
  <2>1. dubRun'[r].at # "slow"
    BY <1>4, DubClaimPut DEF DubMoved, DubClaim
  <2> QED
    BY <1>4, <2>1 DEF DubClaim
<1>5. CASE DubUnwound(r)
  BY <1>5 DEF DubUnwound
<1>6. CASE DubCached(r)
  <2>1. dubRun'[r].at \in {"cue", "mix"}
    BY <1>6, DubCachedPut DEF DubMoved, DubTurn
  <2> QED
    BY <1>6, <2>1 DEF DubCached
<1>7. CASE DubStops(r)
  <2>1. CASE DubGone(r) /\ DubQuit(r)
    BY <1>7, <2>1, DubEndPut, DubBasics DEF DubStops, DubQuit
  <2> QED
    BY <1>7, <2>1 DEF DubStops
<1>8. CASE DubLoad(r)
  BY <1>8, <1>00000 DEF DubLoad, DubAts, DubWaits, DubProcesses
<1>9. CASE DubHasModel(r)
  <2>1. CASE ~DubFail(r)
    BY <1>9, <2>1, DubHasModelPut DEF DubMoved, DubHasModel
  <2> QED
    BY <1>9, <2>1 DEF DubHasModel
<1>10. CASE DubSpeak(r)
  BY <1>10, <1>00000 DEF DubSpeak, DubAts, DubWaits, DubProcesses
<1>11. CASE DubSpoken(r)
  BY <1>11, <1>00000 DEF DubSpoken, DubAts, DubWaits, DubProcesses
<1>12. CASE DubShape(r)
  <2> DEFINE b == dubRow[r].bound
             c == dubRun[r].cue
  <2>1. b \in Casts /\ c \in Cues /\ dubWav[r] # Mute /\ (c \in b => dubWav[r] = c)
    BY <1>12 DEF DubShape, DubRowsTyped, DubRowSet, DubCueInv, DubCueAts, DubIs, DubWavInv
  <2>2. PICK at \in DubNextStage(r) : DubShaped(r, at)
    BY <1>12 DEF DubShape
  <2>3. dubRun'[r].cue = c + 1 /\ dubRow' = dubRow
    BY <1>12, <2>2, DubShapePut DEF DubMoved, DubShape
  <2>4. dubCache' = [dubCache EXCEPT ![b] = [dubCache[b] EXCEPT ![c] = dubWav[r]]]
    BY <1>12 DEF DubShape
  <2> HIDE DEF b, c
  <2>5. \A d \in Casts, e \in Cues : dubCache'[d][e] = IF d = b /\ e = c THEN dubWav[r] ELSE dubCache[d][e]
    BY <2>1, <2>4 DEF DubCacheTyped
  <2>6. DubOwnVoice'
    BY <2>1, <2>5 DEF DubOwnVoice
  <2>7. ASSUME NEW o \in DubRows PROVE DubSlowInv(o)'
    <3>1. CASE o # r
      <4>1. dubRun'[o] = dubRun[o] /\ dubRow'[o] = dubRow[o] /\ DubSlowInv(o) /\ DubCueInv(o)
        BY <3>1 DEF DubOthers, DubInv
      <4>2. dubRow[o].bound \in Casts
        BY DEF DubRowsTyped, DubRowSet
      <4> QED
        BY <2>1, <2>5, <4>1, <4>2 DEF DubSlowInv, DubCueInv, DubIs, DubProcessing
    <3>2. CASE o = r
      <4>1. dubRun'[r].cue - 1 = c /\ dubRow'[r].bound = b
        BY <2>1, <2>3 DEF b, Cues
      <4> QED
        BY <2>1, <2>5, <3>2, <4>1 DEF DubSlowInv
    <3> QED
      BY <3>1, <3>2
  <2> QED
    BY <2>6, <2>7 DEF DubCacheInv
<1>13. CASE DubUnload(r)
  <2>1. CASE ~DubFail(r)
    BY <1>13, <2>1, DubUnloadPut DEF DubMoved, DubUnload
  <2> QED
    BY <1>13, <2>1 DEF DubUnload
<1>14. CASE DubBroken(r)
  BY <1>14 DEF DubBroken
<1>15. CASE DubMix(r)
  BY <1>15, <1>00000 DEF DubMix, DubAts, DubWaits, DubProcesses
<1>16. CASE DubPlace(r)
  BY <1>16, <1>00000 DEF DubPlace, DubAts, DubWaits, DubProcesses
<1>17. CASE DubVerify(r)
  <2>1. CASE UNCHANGED dubCache
    BY <1>17, <2>1, <1>00000 DEF DubVerify, DubAts
  <2>2. CASE ~UNCHANGED dubCache
    <3>1. dubOut # NoDub /\ dubCache' = [dubCache EXCEPT ![dubRow[r].bound] = NoDub] /\ dubRun'[r].at = "done"
      BY <1>17, <2>2, <1>00000 DEF DubVerify, DubAts
    <3>2. DubOwnVoice'
      BY <3>1, DubBasics DEF DubOwnVoice, DubCacheTyped
    <3>3. ASSUME NEW o \in DubRows \ {r} PROVE DubSlowInv(o)'
      <4>1. DubOutInv(o) /\ dubRun'[o] = dubRun[o] /\ dubRow'[o] = dubRow[o]
        BY DEF DubInv, DubOthers
      <4> QED
        BY <3>1, <4>1 DEF DubOutInv, DubSlowInv, DubIs, DubProcessing
    <3> QED
      BY <3>1, <3>2, <3>3 DEF DubCacheInv
  <2> QED
    BY <2>1, <2>2
<1>18. CASE DubDone(r)
  BY <1>18, DubEndPut, DubBasics DEF DubDone
<1>19. CASE DubPrepare(r)
  <2>1. DubSlowInv(r)'
    BY <1>19 DEF DubPrepare, DubSlowInv, DubProcessing, DubIs
  <2> QED
    BY <1>19, <2>1 DEF DubPrepare
<1>20. CASE DubGenerate(r)
  <2>1. DubSlowInv(r)'
    BY <1>20 DEF DubGenerate, DubSlowInv, DubProcessing, DubIs
  <2> QED
    BY <1>20, <2>1 DEF DubGenerate
<1> QED
  BY <1>1, <1>2, <1>3, <1>4, <1>5, <1>6, <1>7, <1>8, <1>9, <1>10, <1>11, <1>12, <1>13, <1>14, <1>15,
       <1>16, <1>17, <1>18, <1>19, <1>20
     DEF DubStepOf, DubOnLoop, DubRunStep, DubThreadStep

LEMMA DubInvInit == DubInit => DubInv
<1> SUFFICES ASSUME DubInit PROVE DubInv
  OBVIOUS
<1> USE DubBasics DEF DubInit
<1>1. DubTypes
  <2>1. DubRunsTyped
    BY DEF DubRunsTyped
  <2>2. DubRowsTyped
    BY DEF DubRowsTyped, DubRowSet, DubStatus
  <2>3. DubThreadsTyped /\ DubCacheTyped
    BY DEF DubThreadsTyped, DubCacheTyped
  <2> QED
    BY <2>1, <2>2, <2>3 DEF DubTypes
<1>2. DubRowsInv
  BY DEF DubRowsInv, DubRowInv, DubPairInv, DubIs, DubProcessing, DubOpen
<1>3. ASSUME NEW r \in DubRows PROVE DubCueInv(r) /\ DubClipInv(r) /\ DubWavInv(r)
  BY <1>3 DEF DubCueInv, DubClipInv, DubWavInv, DubIs, DubCueAts, DubEndAts
<1>4. ASSUME NEW r \in DubRows PROVE DubThreadInv(r) /\ DubOutInv(r) /\ DubSlowInv(r)
  BY <1>4 DEF DubThreadInv, DubOutInv, DubSlowInv, DubIs, DubProcessing, DubRows
<1>5. DubOwnVoice
  BY DEF DubOwnVoice
<1> QED
  BY <1>1, <1>2, <1>3, <1>4, <1>5 DEF DubInv

LEMMA DubInvRestart == DubInv /\ DubRestart => DubInv'
<1> SUFFICES ASSUME DubInv, DubRestart PROVE DubInv'
  OBVIOUS
<1>0. DubTypes /\ DubRowsTyped /\ DubCacheTyped /\ DubRowsInv /\ DubOwnVoice
  BY DEF DubInv, DubTypes
<1>1. \A r \in DubRows : /\ dubRow[r] \in DubRowSet
                         /\ dubRow'[r].bound = dubRow[r].bound
                         /\ dubRow'[r].status = IF dubRow[r].status = "processing" THEN "pending"
                                                ELSE dubRow[r].status
  BY <1>0 DEF DubRestart, DubRowsTyped, DubRowSet
<1>2. \A r \in DubRows : dubRun'[r] = NoRun /\ dubThread'[r] = NoSpeaker /\ dubWav'[r] = Mute
  BY DEF DubRestart
<1>3. DubTypes'
  <2>1. DubRunsTyped'
    BY DubBasics DEF DubRestart, DubRunsTyped
  <2>2. DubRowsTyped'
    BY <1>0 DEF DubRestart, DubRowsTyped, DubRowSet, DubStatus
  <2>3. DubThreadsTyped' /\ DubCacheTyped'
    BY <1>0, DubBasics DEF DubRestart, DubThreadsTyped, DubCacheTyped
  <2> QED
    BY <2>1, <2>2, <2>3 DEF DubTypes
<1> USE DubBasics
<1>4. DubRowsInv'
  BY <1>0, <1>1, <1>2 DEF DubRowsInv, DubRowInv, DubPairInv, DubIs, DubProcessing, DubOpen
<1>5. ASSUME NEW r \in DubRows PROVE DubCueInv(r)' /\ DubClipInv(r)' /\ DubWavInv(r)'
  BY <1>2, <1>5 DEF DubCueInv, DubClipInv, DubWavInv, DubIs, DubCueAts, DubEndAts
<1>6. ASSUME NEW r \in DubRows PROVE DubThreadInv(r)' /\ DubOutInv(r)' /\ DubSlowInv(r)'
  BY <1>1, <1>2, <1>6 DEF DubThreadInv, DubOutInv, DubSlowInv, DubIs, DubProcessing, DubRestart,
       DubRows
<1>7. DubOwnVoice'
  BY <1>0 DEF DubOwnVoice, DubRestart
<1> QED
  BY <1>3, <1>4, <1>5, <1>6, <1>7 DEF DubInv

LEMMA DubInvStutter == DubInv /\ UNCHANGED dubVars => DubInv'
  BY DEF DubInv, dubVars, DubTypes, DubRunsTyped, DubRowsTyped, DubThreadsTyped, DubCacheTyped,
       DubRowsInv,
         DubRowInv, DubPairInv, DubCueInv, DubClipInv, DubWavInv, DubThreadInv, DubOutInv, DubSlowInv,
         DubOwnVoice, DubIs, DubProcessing, DubGone, DubOpen, DubVoice

LEMMA DubInvOf == ASSUME DubInv, NEW r \in DubRows, DubStepOf(r) PROVE DubInv'
<1>1. DubTypes'
  BY DubRunsTypeStep, DubRowsTypeStep, DubThreadsTypeStep, DubCacheTypeStep DEF DubInv, DubTypes
<1>2. DubRowsInv' /\ DubCacheInv' /\ \A o \in DubRows : DubThreadInv(o)' /\ DubOutInv(o)'
  BY DubRowsInvStep, DubCacheInvStep, DubThreadInvStep, DubOutInvStep
<1>3. ASSUME NEW o \in DubRows PROVE DubRunInv(o)'
  <2>1. CASE o = r
    BY <2>1, DubRunInvStep
  <2>2. CASE o # r
    <3>1. DubOthers(r) /\ DubRunInv(o)
      BY DubOthersStep DEF DubInv, DubRunInv
    <3> QED
      BY <2>2, <3>1, DubRunKept DEF DubOthers
  <2> QED
    BY <2>1, <2>2
<1> QED
  BY <1>1, <1>2, <1>3 DEF DubInv, DubCacheInv, DubRunInv

LEMMA DubInvNext == DubInv /\ [DubNext]_dubVars => DubInv'
  BY DubInvRestart, DubInvStutter, DubInvOf DEF DubNext, DubStepOf

LEMMA DubInvAlways == DubSpec => []DubInv
<1>1. DubInit => DubInv
  BY DubInvInit
<1>2. DubInv /\ [DubNext]_dubVars => DubInv'
  BY DubInvNext
<1> QED
  BY <1>1, <1>2, PTL DEF DubSpec

\* The cache and the temporary directories: DubJob's DubSafe, for any number of
\* rows and cues.  The lock and the model objects nobody else holds keep a
\* reference prepared by one thread from being spoken by another.
THEOREM DubbingSafe == DubSpec => []DubSafe
<1>1. DubInv => DubSafe
  <2> SUFFICES ASSUME DubInv, NEW r \in DubRows, DubIs(r, "idle") PROVE dubWav[r] = Mute
    BY DEF DubSafe, DubNothingLeft, DubInv
  <2> QED
    BY DEF DubInv, DubWavInv, DubIs
<1> QED
  BY <1>1, DubInvAlways, PTL

LEMMA DubCompletedOnlyDone ==
  ASSUME DubInv, NEW r \in DubRows, DubStepOf(r)
  PROVE  DubDone(r) \/ dubRow'[r].status = dubRow[r].status \/ dubRow'[r].status # "completed"
<1>0. DubTypes /\ DubRunsTyped /\ DubRowsTyped /\ DubRowsInv
  BY DEF DubInv, DubTypes
<1>00. DubFail(r) => dubRow'[r].status # "completed"
  BY <1>0, DubFailPut
<1> USE <1>0, <1>00
<1>1. CASE DubLoopFree(r) /\ DubStart(r)
  BY <1>1 DEF DubStart, DubInsert, DubRowsTyped
<1>2. CASE DubLoopFree(r) /\ DubRetry(r)
  BY <1>2 DEF DubRetry, DubInsert, DubRowsTyped
<1>3. CASE DubCancel(r)
  BY <1>3 DEF DubCancel, DubRowsTyped, DubRowSet
<1>4. CASE DubLoopFree(r) /\ DubClaim(r)
  BY <1>4, DubClaimPut
<1>5. CASE DubUnwound(r)
  BY <1>5 DEF DubUnwound
<1>6. CASE DubCached(r)
  BY <1>6 DEF DubCached
<1>7. CASE DubStops(r)
  BY <1>7 DEF DubStops, DubQuit
<1>8. CASE DubLoad(r)
  BY <1>8 DEF DubLoad
<1>9. CASE DubHasModel(r)
  BY <1>9 DEF DubHasModel
<1>10. CASE DubSpeak(r)
  BY <1>10 DEF DubSpeak
<1>11. CASE DubSpoken(r)
  BY <1>11 DEF DubSpoken
<1>12. CASE DubShape(r)
  BY <1>12 DEF DubShape
<1>13. CASE DubUnload(r)
  BY <1>13 DEF DubUnload
<1>14. CASE DubBroken(r)
  BY <1>14 DEF DubBroken
<1>15. CASE DubMix(r)
  BY <1>15 DEF DubMix
<1>16. CASE DubPlace(r)
  BY <1>16 DEF DubPlace
<1>17. CASE DubVerify(r)
  BY <1>17 DEF DubVerify
<1>18. CASE DubDone(r)
  BY <1>18 DEF DubDone, DubQuit
<1>19. CASE DubPrepare(r)
  BY <1>19 DEF DubPrepare
<1>20. CASE DubGenerate(r)
  BY <1>20 DEF DubGenerate
<1> QED
  BY <1>1, <1>2, <1>3, <1>4, <1>5, <1>6, <1>7, <1>8, <1>9, <1>10, <1>11, <1>12, <1>13, <1>14, <1>15,
       <1>16, <1>17, <1>18, <1>19, <1>20
     DEF DubStepOf, DubOnLoop, DubRunStep, DubThreadStep

LEMMA DubSlowEnds ==
  ASSUME DubInv, NEW r \in DubRows, DubStepOf(r), DubIs(r, "slow"), DubIs(r, "idle")',
         dubRow'[r].status = "failed"
  PROVE  DubProcessing(r)
<1>0. DubTypes /\ DubRunsTyped /\ DubRowsTyped /\ DubRowsInv
  BY DEF DubInv, DubTypes
<1>1. DubFail(r) => ~DubGone(r)
  BY <1>0, DubFailPut
<1>2. DubProcessing(r) \/ DubGone(r)
  BY <1>0 DEF DubRowsInv, DubRowInv, DubIs
<1>3. DubFail(r)
  <2>1. \/ DubUnwound(r) \/ DubUnload(r)
        \/ dubRun' = dubRun
    BY <1>2 DEF DubStepOf, DubOnLoop, DubRunStep, DubThreadStep, DubStart, DubRetry, DubCancel,
         DubClaim, DubCached,
          DubStops, DubLoad, DubHasModel, DubSpeak, DubSpoken, DubShape, DubBroken, DubMix, DubPlace,
          DubVerify, DubDone, DubPrepare, DubGenerate, DubReady, DubUncached, DubIs, DubProcesses, DubProcessing, DubGone
  <2> QED
    BY <2>1 DEF DubUnwound, DubUnload, DubIs
<1> QED
  BY <1>1, <1>2, <1>3

LEMMA DubDeliversStep == DubInv /\ [DubNext]_dubVars =>
  /\ \A r \in DubRows : dubRow[r].status # "completed" /\ dubRow'[r].status = "completed"
       => \A c \in Cues : /\ dubOut'[c] # Mute
                          /\ c \in dubRow[r].bound => dubOut'[c] = c
  /\ \A r \in DubRows : DubIs(r, "slow") /\ DubIs(r, "idle")' /\ dubRow'[r].status = "failed"
       => dubCache[dubRow[r].bound][dubRun[r].cue - 1] # Mute
<1> SUFFICES ASSUME DubInv, [DubNext]_dubVars, NEW r \in DubRows
             PROVE  /\ dubRow[r].status # "completed" /\ dubRow'[r].status = "completed"
                         => \A c \in Cues : /\ dubOut'[c] # Mute
                                            /\ c \in dubRow[r].bound => dubOut'[c] = c
                    /\ DubIs(r, "slow") /\ DubIs(r, "idle")' /\ dubRow'[r].status = "failed"
                         => dubCache[dubRow[r].bound][dubRun[r].cue - 1] # Mute
  OBVIOUS
<1>0. DubTypes /\ DubRowsTyped /\ DubRowsInv /\ DubSlowInv(r)
  BY DEF DubInv, DubTypes
<1>1. CASE DubRestart
  <2>1. dubRow'[r].status = IF dubRow[r].status = "processing" THEN "pending" ELSE dubRow[r].status
    BY <1>0, <1>1 DEF DubRestart, DubRowsTyped, DubRowSet
  <2>2. ~DubIs(r, "idle") => dubRow[r].status \in {"processing", "cancelled"}
    BY <1>0 DEF DubRowsInv, DubRowInv, DubProcessing, DubGone
  <2> QED
    BY <2>1, <2>2 DEF DubIs
<1>2. CASE UNCHANGED dubVars
  BY <1>2 DEF dubVars, DubIs
<1>3. ASSUME NEW o \in DubRows, DubStepOf(o), o # r PROVE UNCHANGED <<dubRow[r], dubRun[r]>>
  BY <1>0, <1>3, DubOthersStep DEF DubOthers
<1>4. CASE DubStepOf(r)
  <2>1. ASSUME dubRow[r].status # "completed", dubRow'[r].status = "completed", NEW c \in Cues
        PROVE  dubOut'[c] # Mute /\ (c \in dubRow[r].bound => dubOut'[c] = c)
    <3>1. DubDone(r)
      BY <1>4, <2>1, DubCompletedOnlyDone
    <3>2. DubProcessing(r) /\ DubIs(r, "done") /\ UNCHANGED dubOut
      <4>1. dubRow'[r].status = IF DubGone(r) THEN dubRow[r].status ELSE "completed"
        BY <1>0, <3>1 DEF DubDone, DubRowsTyped, DubRowSet
      <4> QED
        BY <1>0, <2>1, <3>1, <4>1 DEF DubDone, DubRowsInv, DubRowInv, DubIs, DubGone
    <3>3. dubOut = dubRun[r].clips
      BY <3>2 DEF DubInv, DubOutInv
    <3>4. dubRun[r].cue = DubCues + 1
      BY <3>2 DEF DubInv, DubCueInv, DubEndAts, DubIs
    <3>5. c < dubRun[r].cue
      BY <3>4 DEF Cues
    <3> QED
      BY <3>2, <3>3, <3>5 DEF DubInv, DubClipInv, DubIs
  <2>2. DubIs(r, "slow") /\ DubIs(r, "idle")' /\ dubRow'[r].status = "failed"
          => dubCache[dubRow[r].bound][dubRun[r].cue - 1] # Mute
    BY <1>0, <1>4, DubSlowEnds DEF DubSlowInv
  <2> QED
    BY <2>1, <2>2
<1> QED
  BY <1>1, <1>2, <1>3, <1>4 DEF DubNext, DubStepOf, DubIs

\* A completed row has a whole dub, each bound cue in its own voice, and a run
\* ended for a slow cue has kept that cue: DubJob's DubDelivers.
THEOREM DubbingDelivers == DubSpec => DubDelivers
<1>1. DubInv /\ [DubNext]_dubVars
        => [\A r \in DubRows : dubRow[r].status # "completed" /\ dubRow'[r].status = "completed"
              => \A c \in Cues : /\ dubOut'[c] # Mute
                                 /\ c \in dubRow[r].bound => dubOut'[c] = c]_dubVars
  BY DubDeliversStep
<1>2. DubInv /\ [DubNext]_dubVars
        => [\A r \in DubRows : DubIs(r, "slow") /\ DubIs(r, "idle")' /\ dubRow'[r].status = "failed"
              => dubCache[dubRow[r].bound][dubRun[r].cue - 1] # Mute]_dubVars
  BY DubDeliversStep
<1> QED
  BY <1>1, <1>2, DubInvAlways, PTL DEF DubDelivers, DubCompletedWhole, DubSlowCueKept, DubSpec
------------------------------------------------------------------------------
(* Voices.                                                                 *)
HIDE DubAssumption
USE VlAssumption

VlComplete(cast) == \A q \in 1..VlCues : cast[q] # "none"

\* What an analysis has gone through has a row, added or committed; one that
\* runs beside another leaves the cast suspect; a cast that is not suspect is
\* whole or not there.
VlInv ==
  /\ vlCast \in [1..VlCues -> VlRows] /\ vlRun \in [VlRuns -> VlRequests]
  /\ vlTorn \in BOOLEAN
  /\ \A r \in VlRuns : vlRun[r].at # "idle" =>
       /\ vlRun[r].at = "clip" => vlRun[r].cue <= VlCues
       /\ ~vlRun[r].alone => vlTorn
       /\ vlRun[r].alone => \A s \in VlRuns \ {r} : vlRun[s].at = "idle"
       /\ vlLock = r => \A q \in 1..VlCues : q < vlRun[r].cue => vlRun[r].rows[q] # "none"
       /\ vlRun[r].alone => \A q \in 1..VlCues : q < vlRun[r].cue =>
            vlRun[r].rows[q] # "none" \/ (vlLock # r /\ vlCast[q] # "none")
  /\ ~vlTorn => VlComplete(vlCast) \/ VlCastRows(vlCast) = {}

LEMMA VlIdleTyped ==
  /\ VlIdle \in VlRequests /\ VlIdle.at = "idle" /\ VlIdle.cue = 1
  /\ \A q \in 1..VlCues : VlIdle.rows[q] = "none"
<1>1. 1 \in 1..(VlCues + 1) /\ [q \in 1..VlCues |-> "none"] \in [1..VlCues -> VlRows]
  BY DEF VlRows
<1> QED
  BY <1>1 DEF VlIdle, VlRequests

LEMMA VlInitially == VlInit => VlInv
<1> SUFFICES ASSUME VlInit PROVE VlInv
  OBVIOUS
<1>1. vlRun \in [VlRuns -> VlRequests] /\ \A r \in VlRuns : vlRun[r].at = "idle"
  BY VlIdleTyped DEF VlInit
<1>2. vlCast \in [1..VlCues -> VlRows] /\ VlCastRows(vlCast) = {}
  BY DEF VlInit, VlRows, VlCastRows
<1> QED
  BY <1>1, <1>2 DEF VlInit, VlInv

\* What a commit of an analysis leaves: rows for all it has gone through.
LEMMA VlWrittenTyped ==
  ASSUME VlInv, NEW r \in VlRuns
  PROVE  /\ VlWritten(r) \in [1..VlCues -> VlRows]
         /\ vlRun[r].at # "idle" /\ vlRun[r].alone =>
              \A q \in 1..VlCues : q < vlRun[r].cue => VlWritten(r)[q] # "none"
<1>1. vlRun[r] \in VlRequests
  BY DEF VlInv
<1>2. VlKept(r) \in [1..VlCues -> VlRows]
  BY DEF VlKept, VlInv, VlRows
<1>3. VlWritten(r) \in [1..VlCues -> VlRows]
  BY <1>1, <1>2 DEF VlWritten, VlRequests
<1>4. ASSUME vlRun[r].at # "idle", vlRun[r].alone, NEW q \in 1..VlCues, q < vlRun[r].cue
      PROVE  VlWritten(r)[q] # "none"
  <2>1. vlRun[r].rows[q] # "none" \/ (vlLock # r /\ vlCast[q] # "none")
    BY <1>4 DEF VlInv
  <2> QED
    BY <2>1 DEF VlWritten, VlKept
<1> QED
  BY <1>3, <1>4

\* The request with one more row.
LEMMA VlAddTyped ==
  ASSUME VlInv, NEW r \in VlRuns, NEW row \in VlRows, NEW pending \in [1..VlCues -> VlRows],
         NEW v, v = VlAdd(r, row, pending), vlRun[r].cue <= VlCues
  PROVE  /\ v \in VlRequests /\ v.at = "run" /\ v.cue = vlRun[r].cue + 1
         /\ v.alone = vlRun[r].alone /\ v.rows[vlRun[r].cue] = row
         /\ \A q \in 1..VlCues : q # vlRun[r].cue => v.rows[q] = pending[q]
<1>1. vlRun[r] \in VlRequests /\ vlRun[r].cue \in 1..VlCues
  BY DEF VlInv, VlRequests
<1> DEFINE old == vlRun[r]
           new == [pending EXCEPT ![old.cue] = row]
<1>2. new \in [1..VlCues -> VlRows] /\ new[old.cue] = row
      /\ \A q \in 1..VlCues : q # old.cue => new[q] = pending[q]
  BY <1>1
<1>3. VlAdd(r, row, pending) = [old EXCEPT !.at = "run", !.cue = @ + 1, !.rows = new]
  BY DEF VlAdd
<1> HIDE DEF old, new
<1>4. old \in VlRequests /\ old.cue + 1 \in 1..(VlCues + 1)
  BY <1>1 DEF old
<1>5. /\ [old EXCEPT !.at = "run", !.cue = @ + 1, !.rows = new] \in VlRequests
      /\ [old EXCEPT !.at = "run", !.cue = @ + 1, !.rows = new].at = "run"
      /\ [old EXCEPT !.at = "run", !.cue = @ + 1, !.rows = new].cue = old.cue + 1
      /\ [old EXCEPT !.at = "run", !.cue = @ + 1, !.rows = new].alone = old.alone
      /\ [old EXCEPT !.at = "run", !.cue = @ + 1, !.rows = new].rows = new
  BY <1>2, <1>4 DEF VlRequests
<1> QED
  BY <1>2, <1>3, <1>5 DEF old

LEMMA VlDeletes ==
  ASSUME VlInv, NEW r \in VlRuns, NEW dub \in BOOLEAN, VlDelete(r, dub)
  PROVE  VlInv'
<1> DEFINE others == \E s \in VlRuns \ {r} : vlRun[s].at # "idle"
           new == [VlIdle EXCEPT !.at = "run", !.alone = ~others, !.dub = dub]
<1>1. CASE VlLockedOut(r)
  BY <1>1 DEF VlDelete, VlInv, VlCastRows
<1>2. CASE ~VlLockedOut(r)
  <2>1. /\ vlRun' = [s \in VlRuns |-> IF s = r THEN new ELSE [vlRun[s] EXCEPT !.alone = FALSE]]
        /\ vlLock' = r /\ vlTorn' = (vlTorn \/ others) /\ vlCast' = vlCast
    BY <1>2 DEF VlDelete
  <2>2. /\ new \in VlRequests /\ new.at = "run" /\ new.cue = 1 /\ new.alone = ~others
        /\ \A q \in 1..VlCues : new.rows[q] = "none"
    <3>1. \A a, d \in BOOLEAN :
            LET v == [VlIdle EXCEPT !.at = "run", !.alone = a, !.dub = d]
            IN /\ v \in VlRequests /\ v.at = "run" /\ v.cue = VlIdle.cue /\ v.alone = a
               /\ v.rows = VlIdle.rows
      BY VlIdleTyped DEF VlRequests
    <3>2. CASE others
      <4>1. new = [VlIdle EXCEPT !.at = "run", !.alone = FALSE, !.dub = dub]
        BY <3>2
      <4> HIDE DEF new
      <4> QED
        BY <3>1, <3>2, <4>1, VlIdleTyped
    <3>3. CASE ~others
      <4>1. new = [VlIdle EXCEPT !.at = "run", !.alone = TRUE, !.dub = dub]
        BY <3>3
      <4> HIDE DEF new
      <4> QED
        BY <3>1, <3>3, <4>1, VlIdleTyped
    <3> QED
      BY <3>2, <3>3
  <2>3. \A s \in VlRuns \ {r} : /\ vlRun[s] \in VlRequests
                                /\ [vlRun[s] EXCEPT !.alone = FALSE] \in VlRequests
                                /\ [vlRun[s] EXCEPT !.alone = FALSE].at = vlRun[s].at
                                /\ [vlRun[s] EXCEPT !.alone = FALSE].alone = FALSE
    BY ZenonT(40) DEF VlInv, VlRequests
  <2>4. vlRun' \in [VlRuns -> VlRequests]
    BY <2>1, <2>2, <2>3
  <2>5. /\ vlRun'[r] = new
        /\ \A s \in VlRuns \ {r} : vlRun'[s].at = vlRun[s].at /\ vlRun'[s].alone = FALSE
    BY <2>1, <2>3
  <2> HIDE DEF new
  <2>6. \A s \in VlRuns \ {r} : vlLock' # s
    BY <2>1
  <2>7. others => vlTorn'
    BY <2>1
  <2>8. vlTorn' \in BOOLEAN /\ (~vlTorn' => ~vlTorn)
    BY <2>1 DEF VlInv
  <2>9. ASSUME NEW s \in VlRuns, vlRun'[s].at # "idle"
        PROVE  /\ vlRun'[s].at = "clip" => vlRun'[s].cue <= VlCues
               /\ ~vlRun'[s].alone => vlTorn'
               /\ vlRun'[s].alone => \A u \in VlRuns \ {s} : vlRun'[u].at = "idle"
               /\ vlLock' = s => \A q \in 1..VlCues : q < vlRun'[s].cue => vlRun'[s].rows[q] # "none"
               /\ vlRun'[s].alone => \A q \in 1..VlCues : q < vlRun'[s].cue =>
                    vlRun'[s].rows[q] # "none" \/ (vlLock' # s /\ vlCast'[q] # "none")
    <3>1. CASE s = r
      <4>1. vlRun'[s].at = "run" /\ vlRun'[s].alone = ~others
            /\ \A q \in 1..VlCues : ~(q < vlRun'[s].cue)
        BY <2>2, <2>5, <3>1
      <4>2. ~others => \A u \in VlRuns \ {s} : vlRun'[u].at = "idle"
        BY <2>5, <3>1
      <4> HIDE DEF others
      <4> QED
        BY <2>7, <4>1, <4>2
    <3>2. CASE s # r
      <4>1. others /\ vlRun'[s].alone = FALSE /\ vlRun'[s].at = vlRun[s].at /\ vlRun'[s].cue = vlRun[s].cue
        BY <2>1, <2>5, <2>9, <3>2 DEF VlInv, VlRequests
      <4> QED
        BY <2>6, <2>7, <2>9, <3>2, <4>1 DEF VlInv
    <3> QED
      BY <3>1, <3>2
  <2>10. ~vlTorn' => VlComplete(vlCast') \/ VlCastRows(vlCast') = {}
    BY <2>1, <2>8 DEF VlInv
  <2> QED
    BY <2>1, <2>4, <2>8, <2>9, <2>10 DEF VlInv, VlCastRows, VlComplete
<1> QED
  BY <1>1, <1>2

\* A request that gives up, and one that only moves, disturb nobody.
LEMMA VlGivesUp ==
  ASSUME VlInv, NEW r \in VlRuns, VlAborts(r), UNCHANGED <<vlCast, vlTorn>>
  PROVE  VlInv'
<1>1. vlRun'[r] = VlIdle /\ vlRun' \in [VlRuns -> VlRequests]
      /\ \A s \in VlRuns \ {r} : vlRun'[s] = vlRun[s] /\ (vlLock' = s => vlLock = s)
  BY VlIdleTyped DEF VlAborts, VlInv
<1>2. VlIdle.at = "idle"
  BY DEF VlIdle
<1>3. \A s \in VlRuns \ {r} : vlLock = s => vlLock' = s
  BY DEF VlAborts
<1> QED
  BY <1>1, <1>2, <1>3 DEF VlInv, VlCastRows

LEMMA VlMoves ==
  ASSUME VlInv, NEW r \in VlRuns, UNCHANGED <<vlCast, vlLock, vlTorn>>,
         vlRun' \in [VlRuns -> VlRequests], \A s \in VlRuns \ {r} : vlRun'[s] = vlRun[s],
         vlRun[r].at # "idle", vlRun'[r].at # "idle", vlRun'[r].alone = vlRun[r].alone,
         vlRun'[r].at = "clip" => vlRun'[r].cue <= VlCues,
         \A q \in 1..VlCues : q < vlRun'[r].cue =>
           \/ q < vlRun[r].cue /\ vlRun'[r].rows[q] = vlRun[r].rows[q]
           \/ vlRun'[r].rows[q] # "none"
  PROVE  VlInv'
<1>1. ASSUME NEW s \in VlRuns, vlRun'[s].at # "idle"
      PROVE  /\ vlRun'[s].at = "clip" => vlRun'[s].cue <= VlCues
             /\ ~vlRun'[s].alone => vlTorn'
             /\ vlRun'[s].alone => \A u \in VlRuns \ {s} : vlRun'[u].at = "idle"
             /\ vlLock' = s => \A q \in 1..VlCues : q < vlRun'[s].cue => vlRun'[s].rows[q] # "none"
             /\ vlRun'[s].alone => \A q \in 1..VlCues : q < vlRun'[s].cue =>
                  vlRun'[s].rows[q] # "none" \/ (vlLock' # s /\ vlCast'[q] # "none")
  <2>1. CASE s = r
    <3>1. vlRun'[s].alone => \A u \in VlRuns \ {s} : vlRun'[u].at = "idle"
      BY <2>1 DEF VlInv
    <3>2. vlLock' = s => \A q \in 1..VlCues : q < vlRun'[s].cue => vlRun'[s].rows[q] # "none"
      BY <2>1 DEF VlInv
    <3>3. vlRun'[s].alone => \A q \in 1..VlCues : q < vlRun'[s].cue =>
            vlRun'[s].rows[q] # "none" \/ (vlLock' # s /\ vlCast'[q] # "none")
      BY <2>1 DEF VlInv
    <3> QED
      BY <2>1, <3>1, <3>2, <3>3 DEF VlInv
  <2>2. CASE s # r
    <3>1. ~vlRun'[s].alone
      BY <1>1, <2>2 DEF VlInv
    <3> QED
      BY <1>1, <2>2, <3>1 DEF VlInv
  <2> QED
    BY <2>1, <2>2
<1> QED
  BY <1>1 DEF VlInv, VlCastRows, VlComplete

LEMMA VlStep == VlInv /\ [VlNext]_vlVars => VlInv'
<1> SUFFICES ASSUME VlInv, [VlNext]_vlVars PROVE VlInv'
  OBVIOUS
<1>1. ASSUME NEW r \in VlRuns, VlLabelled(r) PROVE VlInv'
  <2>1. CASE VlLockedOut(r) \/ VlClash(r)
    BY <1>1, <2>1, VlGivesUp DEF VlLabelled
  <2>2. CASE ~(VlLockedOut(r) \/ VlClash(r))
    <3> DEFINE label == VlLabel[vlRun[r].cue]
               v == VlAdd(r, label, VlIdle.rows)
    <3>1. /\ vlCast' = VlWritten(r) /\ vlRun' = [vlRun EXCEPT ![r] = v]
          /\ vlLock' = VlFree /\ vlTorn' = TRUE /\ vlRun[r].at = "run" /\ vlRun[r].cue <= VlCues
      BY <1>1, <2>2 DEF VlLabelled
    <3>2. vlRun[r].cue \in 1..VlCues /\ label \in VlRows /\ label # "none"
      BY <1>1, <3>1 DEF VlLabelled, VlInv, VlRequests, VlRows
    <3>3. /\ v \in VlRequests /\ v.at = "run" /\ v.cue = vlRun[r].cue + 1
          /\ v.alone = vlRun[r].alone /\ v.rows[vlRun[r].cue] = label
      <4>1. VlIdle.rows \in [1..VlCues -> VlRows]
        BY VlIdleTyped DEF VlRequests
      <4>2. v = VlAdd(r, label, VlIdle.rows)
        OBVIOUS
      <4> HIDE DEF v, label
      <4> QED
        BY <3>1, <3>2, <4>1, <4>2, VlAddTyped
    <3> HIDE DEF v, label
    <3>4. vlRun' \in [VlRuns -> VlRequests] /\ vlRun'[r] = v
          /\ \A s \in VlRuns \ {r} : vlRun'[s] = vlRun[s]
      BY <3>1, <3>3 DEF VlInv
    <3>5. ASSUME vlRun[r].alone, NEW q \in 1..VlCues, q < v.cue
          PROVE  v.rows[q] # "none" \/ vlCast'[q] # "none"
      <4>1. CASE q = vlRun[r].cue
        BY <3>2, <3>3, <4>1
      <4>2. CASE q < vlRun[r].cue
        BY <3>1, <3>5, <4>2, VlWrittenTyped
      <4> QED
        BY <3>2, <3>3, <3>5, <4>1, <4>2
    <3>6. \A s \in VlRuns \ {r} : vlRun'[s].at # "idle" => ~vlRun'[s].alone
      BY <3>1, <3>4 DEF VlInv
    <3> QED
      BY <3>1, <3>3, <3>4, <3>5, <3>6, VlWrittenTyped DEF VlInv
  <2> QED
    BY <2>1, <2>2
<1>2. ASSUME NEW r \in VlRuns, VlClip(r) PROVE VlInv'
  <2>1. /\ vlRun[r] \in VlRequests /\ vlRun[r].at = "run" /\ UNCHANGED <<vlCast, vlLock, vlTorn>>
        /\ vlRun' = [vlRun EXCEPT ![r] = [vlRun[r] EXCEPT !.at = "clip"]]
    BY <1>2 DEF VlClip, VlInv
  <2>2. LET v == [vlRun[r] EXCEPT !.at = "clip"]
        IN /\ v \in VlRequests /\ v.at = "clip" /\ v.cue = vlRun[r].cue /\ v.alone = vlRun[r].alone
           /\ v.rows = vlRun[r].rows
    BY <2>1 DEF VlRequests
  <2>3. vlRun' \in [VlRuns -> VlRequests] /\ \A s \in VlRuns \ {r} : vlRun'[s] = vlRun[s]
    BY <2>1, <2>2 DEF VlInv
  <2>5. vlRun[r].cue <= VlCues
    BY <1>2 DEF VlClip
  <2>4. vlRun'[r].at = "clip" /\ vlRun'[r].cue = vlRun[r].cue /\ vlRun'[r].alone = vlRun[r].alone
        /\ vlRun'[r].rows = vlRun[r].rows
    BY <2>1, <2>2 DEF VlInv
  <2> QED
    BY <2>1, <2>3, <2>4, <2>5, VlMoves
<1>3. ASSUME NEW r \in VlRuns, VlMatch(r) PROVE VlInv'
  <2> PICK row \in VlRows : row # "none" /\ vlRun' = [vlRun EXCEPT ![r] = VlAdd(r, row, vlRun[r].rows)]
    BY <1>3 DEF VlMatch, VlRows
  <2> DEFINE v == VlAdd(r, row, vlRun[r].rows)
  <2>1. /\ vlRun[r].at = "clip" /\ UNCHANGED <<vlCast, vlLock, vlTorn>>
        /\ vlRun[r].cue \in 1..(VlCues + 1)
    BY <1>3 DEF VlMatch, VlInv, VlRequests
  <2>0. vlRun[r].cue <= VlCues
    BY <2>1 DEF VlInv
  <2>2. /\ v \in VlRequests /\ v.at = "run" /\ v.cue = vlRun[r].cue + 1
        /\ v.alone = vlRun[r].alone /\ v.rows[vlRun[r].cue] = row
        /\ \A q \in 1..VlCues : q # vlRun[r].cue => v.rows[q] = vlRun[r].rows[q]
    <3>1. vlRun[r].rows \in [1..VlCues -> VlRows]
      BY DEF VlInv, VlRequests
    <3>2. v = VlAdd(r, row, vlRun[r].rows)
      OBVIOUS
    <3> HIDE DEF v
    <3> QED
      BY <2>0, <2>1, <3>1, <3>2, VlAddTyped
  <2> HIDE DEF v
  <2>3. vlRun' \in [VlRuns -> VlRequests] /\ vlRun'[r] = v
        /\ \A s \in VlRuns \ {r} : vlRun'[s] = vlRun[s]
    BY <2>2 DEF VlInv, v
  <2>4. \A q \in 1..VlCues : q < v.cue =>
          (q < vlRun[r].cue /\ v.rows[q] = vlRun[r].rows[q]) \/ v.rows[q] # "none"
    BY <2>1, <2>2
  <2>5. vlRun'[r].at = "run" /\ vlRun'[r].alone = vlRun[r].alone
    BY <2>2, <2>3
  <2>6. \A q \in 1..VlCues : q < vlRun'[r].cue =>
           \/ q < vlRun[r].cue /\ vlRun'[r].rows[q] = vlRun[r].rows[q]
           \/ vlRun'[r].rows[q] # "none"
    BY <2>3, <2>4
  <2> QED
    BY <2>1, <2>3, <2>5, <2>6, VlMoves
<1>4. ASSUME NEW r \in VlRuns, VlEnd(r) PROVE VlInv'
  <2>1. CASE VlLockedOut(r) \/ VlClash(r)
    BY <1>4, <2>1, VlGivesUp DEF VlEnd
  <2>2. CASE ~(VlLockedOut(r) \/ VlClash(r))
    <3>1. /\ vlCast' = VlWritten(r) /\ vlRun' = [vlRun EXCEPT ![r] = VlIdle]
          /\ vlLock' = (IF vlLock = r THEN VlFree ELSE vlLock) /\ vlLock \in {VlFree, r}
          /\ vlTorn' = (vlTorn /\ ~vlRun[r].alone)
          /\ vlRun[r].at = "run" /\ vlRun[r].cue = VlCues + 1
      BY <1>4, <2>2 DEF VlEnd, VlLockedOut
    <3>2. vlRun' \in [VlRuns -> VlRequests] /\ vlRun'[r].at = "idle"
          /\ \A s \in VlRuns \ {r} : vlRun'[s] = vlRun[s]
      BY <3>1, VlIdleTyped DEF VlInv, VlIdle
    <3>3. vlLock' = VlFree
      BY <3>1
    <3>4. \A s \in VlRuns \ {r} : vlRun[s].at # "idle" => ~vlRun[s].alone /\ ~vlRun[r].alone
      BY <3>1 DEF VlInv
    <3>5. vlRun[r].alone => VlComplete(vlCast')
      BY <3>1, VlWrittenTyped DEF VlComplete
    <3>6. ~vlTorn' => VlComplete(vlCast')
      BY <3>1, <3>5 DEF VlInv
    <3> QED
      BY <3>1, <3>2, <3>3, <3>4, <3>6, VlWrittenTyped DEF VlInv
  <2> QED
    BY <2>1, <2>2
<1>5. ASSUME NEW r \in VlRuns, VlInterrupted(r) PROVE VlInv'
  BY <1>5, VlGivesUp DEF VlInterrupted
<1>6. ASSUME NEW q \in 1..VlCues, NEW row \in VlChars \cup {"open"}, VlAssign(q, row) PROVE VlInv'
  <2>1. /\ vlCast' = [vlCast EXCEPT ![q] = row] /\ row \in VlRows /\ row # "none"
        /\ vlTorn' = (vlTorn \/ vlCast[q] = "none") /\ UNCHANGED <<vlRun, vlLock>>
    BY <1>6 DEF VlAssign, VlFrame, VlRows
  <2>2. vlCast' \in [1..VlCues -> VlRows] /\ \A p \in 1..VlCues : vlCast[p] # "none" => vlCast'[p] # "none"
    BY <2>1 DEF VlInv
  <2>3. ~vlTorn' => VlComplete(vlCast')
    BY <2>1, <2>2 DEF VlInv, VlComplete, VlCastRows
  <2> QED
    BY <2>1, <2>2, <2>3 DEF VlInv
<1>7. ASSUME NEW r \in VlRuns, VlAnalyse(r) \/ VlDub(r) PROVE VlInv'
  <2>1. ASSUME UNCHANGED <<vlCast, vlRun, vlLock, vlTorn>> PROVE VlInv'
    BY <2>1 DEF VlInv, VlCastRows
  <2> QED
    BY <1>7, <2>1, VlDeletes DEF VlAnalyse, VlDub, VlFrame
<1>8. CASE UNCHANGED vlVars \/ \E c \in VlChars : \/ VlCreate(c)
                               \/ \E canonical \in BOOLEAN :
                                    VlAdopt(c, canonical) \/ \E r \in 1..VlRefs : VlApprove(c, r, canonical)
  <2>1. UNCHANGED <<vlCast, vlRun, vlLock, vlTorn>>
    BY <1>8, ZenonT(40) DEF VlCreate, VlAdopt, VlApprove, VlFrame, vlVars
  <2> QED
    BY <2>1 DEF VlInv, VlCastRows
<1> QED
  BY <1>1, <1>2, <1>3, <1>4, <1>5, <1>6, <1>7, <1>8 DEF VlNext, VlUser, VlAnalysis

\* A dub that is queued with voices has one for every cue of the subtitle, if
\* the last analysis ran alone and to its end (JobService.start_manual_dub with
\* dub_readiness and bindings_for_episode).
THEOREM EveryCueHasItsVoice == VlSpec => VlDubCovered
<1>1. ASSUME NEW cast \in [1..VlCues -> VlRows], VlReady(cast), VlComplete(cast)
      PROVE  \A q \in 1..VlCues : VlBindings(cast)[q] # 0
  BY <1>1 DEF VlReady, VlComplete, VlCastRows, VlBindings
<1>2. ASSUME VlInv, [VlNext]_vlVars, ~vlTorn', vlBound' # vlBound, vlBound' # <<>>
      PROVE  \A q \in 1..VlCues : vlBound'[q] # 0
  <2>1. PICK r \in VlRuns : VlEnd(r) \/ VlDub(r)
    BY <1>2 DEF VlNext, VlUser, VlAnalysis, VlAnalyse, VlDelete, VlLabelled, VlClip, VlMatch,
       VlInterrupted, VlCreate, VlAdopt, VlApprove, VlAssign, vlVars
  <2>2. CASE VlEnd(r)
    <3>1. vlCast' = VlWritten(r) /\ vlBound' = VlBindings(VlWritten(r)) /\ VlReady(VlWritten(r))
      BY <1>2, <2>2 DEF VlEnd, VlQueue
    <3>2. vlRun[r].at = "run" /\ vlRun[r].cue = VlCues + 1 /\ vlRun[r].alone
      BY <1>2, <2>2, <3>1 DEF VlEnd, VlInv
    <3>3. VlWritten(r) \in [1..VlCues -> VlRows] /\ VlComplete(VlWritten(r))
      BY <1>2, <3>2, VlWrittenTyped DEF VlComplete
    <3> QED
      BY <1>1, <3>1, <3>3
  <2>3. CASE VlDub(r)
    <3>1. VlQueue(vlCast) /\ VlCastRows(vlCast) # {} /\ vlTorn' = vlTorn
      BY <1>2, <2>3 DEF VlDub, VlDelete
    <3>2. vlBound' = VlBindings(vlCast) /\ VlReady(vlCast)
      BY <1>2, <3>1 DEF VlQueue
    <3>3. vlCast \in [1..VlCues -> VlRows] /\ VlComplete(vlCast)
      BY <1>2, <3>1 DEF VlInv
    <3> QED
      BY <1>1, <3>2, <3>3
  <2> QED
    BY <2>1, <2>2, <2>3
<1>3. VlInv /\ [VlNext]_vlVars =>
        [~vlTorn' /\ vlBound' # vlBound /\ vlBound' # <<>> => \A q \in 1..VlCues : vlBound'[q] # 0]_vlVars
  BY <1>2
<1> QED
  BY <1>3, VlInitially, VlStep, PTL DEF VlSpec, VlDubCovered
------------------------------------------------------------------------------
(* The types of all parts, as they run beside each other.                   *)
HIDE VlAssumption

LEMMA SepTyped == SepInit => SepTypeOK
<1> SUFFICES ASSUME SepInit PROVE SepTypeOK
  OBVIOUS
<1>1. sepIn \in SepMedia
  BY SepAssumption DEF SepInit
<1> QED
  BY <1>1 DEF SepInit, SepTypeOK, SepStages, StemStates, NoEnd

LEMMA SepTypeStep == SepTypeOK /\ [SepNext]_sepVars => SepTypeOK'
<1> SUFFICES ASSUME SepTypeOK, [SepNext]_sepVars PROVE SepTypeOK'
  OBVIOUS
<1>0. SepStems'
  BY SepStemStep DEF SepTypeOK, SepStems
<1>1. ASSUME NEW at \in SepStages, SepGo(at) PROVE sepAt' \in SepStages /\ UNCHANGED sepEnd
  BY <1>1 DEF SepGo
<1> DEFINE Ends == [how : {"none", "verified", "cancelled", "failed", "unwound"}, at : SepStages]
<1>2. ASSUME NEW how \in {"cancelled", "failed", "unwound"}, NEW dirs, SepRaise(how, dirs)
      PROVE  sepAt' \in SepStages /\ sepEnd' \in Ends /\ sepDirs' \subseteq dirs
  BY <1>2 DEF SepRaise, SepTypeOK, SepStages
<1>3. ASSUME NEW s, SepRefuse(s)
      PROVE  sepAt' \in SepStages /\ sepEnd' \in Ends /\ sepDirs' \subseteq sepDirs
  BY <1>2, <1>3 DEF SepRefuse
<1>4. /\ sepAt' \in SepStages /\ sepEnd' \in Ends
      /\ sepDirs' \subseteq {"work", "demucs"} /\ sepIn' \in SepMedia /\ sepStop' \in BOOLEAN
  <2>0. /\ sepAt \in SepStages /\ sepEnd \in Ends /\ sepDirs \subseteq {"work", "demucs"}
        /\ sepIn \in SepMedia /\ sepStop \in BOOLEAN
    BY DEF SepTypeOK
  <2>00. /\ SepProcess \ {"ok"} \subseteq {"cancelled", "bad"}
         /\ \A at \in {"select", "probe", "prepare", "prepared", "provider", "copy", "verify",
                       "background", "durations", "idle"} : at \in SepStages
    BY DEF SepProcess, SepStages
  <2> HIDE DEF Ends
  <2>1. CASE SepBegin
    BY <1>1, <1>2, <2>0, <2>00, <2>1 DEF SepBegin
  <2>2. CASE SepSelect
    BY <1>1, <1>2, <2>0, <2>00, <2>2 DEF SepSelect
  <2>3. CASE SepProbe
    BY <1>1, <1>2, <2>0, <2>00, <2>3 DEF SepProbe
  <2>4. CASE SepPrepare
    BY <1>1, <1>2, <2>0, <2>00, <2>4 DEF SepPrepare
  <2>5. CASE SepPrepared
    BY <1>1, <1>2, <2>0, <2>00, <2>5 DEF SepPrepared
  <2>6. CASE SepProvider
    BY <1>1, <1>2, <2>0, <2>00, <2>6 DEF SepProvider
  <2>7. CASE SepCopy
    BY <1>1, <1>2, <2>0, <2>00, <2>7 DEF SepCopy
  <2>8. CASE SepVerify
    BY <1>1, <1>2, <1>3, <2>0, <2>00, <2>8 DEF SepVerify
  <2>9. CASE SepBackground
    BY <1>1, <1>3, <2>0, <2>00, <2>9 DEF SepBackground
  <2>10. CASE SepDurations
    <3>1. [how |-> "verified", at |-> sepAt] \in Ends
      BY <2>0 DEF Ends
    <3> QED
      BY <1>3, <2>0, <2>00, <2>10, <3>1 DEF SepDurations
  <2>11. CASE SepUserCancels
    BY <2>0, <2>11 DEF SepUserCancels
  <2>12. CASE SepUnwound
    BY <1>2, <2>0, <2>12 DEF SepUnwound
  <2>13. CASE UNCHANGED sepVars
    BY <2>0, <2>13 DEF sepVars
  <2> QED
    BY <2>1, <2>2, <2>3, <2>4, <2>5, <2>6, <2>7, <2>8, <2>9, <2>10, <2>11, <2>12, <2>13 DEF SepNext
<1> QED
  BY <1>0, <1>4 DEF SepTypeOK, SepStems

TrOutTyped == trOut \in {"none", "transcript", "foreign"}

LEMMA TrOutStep == TrOutTyped /\ [TrNext]_trVars => TrOutTyped'
<1>1. [TrNext]_trVars => trOut' \in {trOut, "transcript", "foreign"}
  BY DEF TrNext, TrRunStep, TrThreadStep, TrRestart, TrForeign, TrCreate, TrCancel, TrClaim,
     TrWatch, TrUnwound, TrTimeout, TrProbe, TrExtract, TrChunk, TrHeard, TrWrite, TrCommit,
     TrRescan, TrLoad, TrRead, TrConsumed, trVars
<1> QED
  BY <1>1 DEF TrOutTyped

LEMMA TrTyped == TrInv /\ TrOutTyped => TrTypeOK
BY DEF TrInv, TrRunsGood, TrThreadsGood, TrRowsGood, TrFlagsGood, TrRuns, TrThreads, TrStatus,
   TrOutTyped, TrTypeOK

DubRest == /\ dubLock \in {0} \cup DubRows /\ dubOut \in [Cues -> Voices \cup {Mute}]
           /\ dubRecycle \in DubRecycles

LEMMA DubRestStep == DubInv /\ DubRest /\ [DubNext]_dubVars => DubRest'
<1> SUFFICES ASSUME DubInv, DubRest, [DubNext]_dubVars PROVE DubRest'
  OBVIOUS
<1>1. \A r \in DubRows : dubRun[r].clips \in [Cues -> Voices \cup {Mute}]
  BY DEF DubInv, DubTypes, DubRunsTyped, DubRunSet
<1>2. NoDub \in [Cues -> Voices \cup {Mute}]
  BY DubAssumption DEF NoDub
<1>3. dubRecycle' = dubRecycle
  BY DEF DubNext, DubOnLoop, DubThreadStep, DubRunStep, DubRestart, DubCancel, DubStart, DubRetry,
     DubClaim, DubUnwound, DubCached, DubStops, DubLoad, DubHasModel, DubSpeak, DubSpoken, DubShape,
     DubUnload, DubBroken, DubMix, DubPlace, DubVerify, DubDone, DubPrepare, DubGenerate,
     dubModel, dubVars
<1>4. dubLock' \in {0, dubLock} \cup DubRows
  BY DEF DubNext, DubOnLoop, DubThreadStep, DubRunStep, DubRestart, DubCancel, DubStart, DubRetry,
     DubClaim, DubUnwound, DubCached, DubStops, DubLoad, DubHasModel, DubSpeak, DubSpoken, DubShape,
     DubUnload, DubBroken, DubMix, DubPlace, DubVerify, DubDone, DubPrepare, DubGenerate,
     dubModel, dubVars
<1>5. dubOut' \in {dubOut, NoDub} \cup {dubRun[r].clips : r \in DubRows}
  BY DEF DubNext, DubOnLoop, DubThreadStep, DubRunStep, DubRestart, DubCancel, DubStart, DubRetry,
     DubClaim, DubUnwound, DubCached, DubStops, DubLoad, DubHasModel, DubSpeak, DubSpoken, DubShape,
     DubUnload, DubBroken, DubMix, DubPlace, DubVerify, DubDone, DubPrepare, DubGenerate,
     dubModel, dubVars
<1> QED
  BY <1>1, <1>2, <1>3, <1>4, <1>5 DEF DubRest

LEMMA DubTyped == DubInv /\ DubRest => DubTypeOK
BY DEF DubInv, DubTypes, DubRunsTyped, DubRowsTyped, DubThreadsTyped, DubCacheTyped, DubRunSet,
   DubRowSet, DubThreadSet, DubStatus, DubAts, DubRest, DubTypeOK

VlCharacters == [known : BOOLEAN, approved : BOOLEAN, refs : 0..VlRefs,
                 good : SUBSET (1..VlRefs), canonical : SUBSET (1..VlRefs)]
VlRest ==
  /\ vlChar \in [VlChars -> VlCharacters]
  /\ \A c \in VlChars : vlChar[c].good \cup vlChar[c].canonical \subseteq 1..vlChar[c].refs
  /\ vlLock \in VlRuns \cup {VlFree}
  /\ DOMAIN vlBound \in {{}, 1..VlCues}

LEMMA VlRestInitial == VlInit => VlRest
<1> SUFFICES ASSUME VlInit PROVE VlRest
  OBVIOUS
<1>1. VlUnknown \in VlCharacters /\ VlUnknown.good \cup VlUnknown.canonical = {}
  BY VlAssumption DEF VlUnknown, VlCharacters
<1>2. vlChar = [c \in VlChars |-> VlUnknown] /\ vlLock = VlFree /\ vlBound = <<>>
  BY DEF VlInit
<1> QED
  BY <1>1, <1>2 DEF VlRest

\* What a step makes of one character.
LEMMA VlCharStep ==
  ASSUME VlRest, NEW c \in VlChars, NEW new \in VlCharacters,
         new.good \cup new.canonical \subseteq 1..new.refs,
         vlChar' = [vlChar EXCEPT ![c] = new],
         vlLock' = vlLock, vlBound' = vlBound
  PROVE  VlRest'
<1>1. \A d \in VlChars : vlChar'[d] = IF d = c THEN new ELSE vlChar[d]
  BY DEF VlRest
<1> QED
  BY <1>1 DEF VlRest

LEMMA VlRestStep == VlInv /\ VlRest /\ [VlNext]_vlVars => VlRest'
<1> SUFFICES ASSUME VlInv, VlRest, [VlNext]_vlVars PROVE VlRest'
  OBVIOUS
<1>0. VlRefs \in Nat /\ \A c \in VlChars : vlChar[c] \in VlCharacters
  BY VlAssumption DEF VlRest
<1>1. ASSUME vlChar' = vlChar, vlLock' \in VlRuns \cup {vlLock, VlFree},
             vlBound' = vlBound \/ vlBound' = <<>> \/ \E cast : vlBound' = VlBindings(cast)
      PROVE  VlRest'
  BY <1>1 DEF VlRest, VlBindings
<1>2. ASSUME NEW c \in VlChars, vlChar' = [vlChar EXCEPT ![c].known = TRUE],
             vlLock' = vlLock, vlBound' = vlBound
      PROVE  VlRest'
  <2> DEFINE new == [vlChar[c] EXCEPT !.known = TRUE]
  <2>1. new \in VlCharacters /\ new.good \cup new.canonical \subseteq 1..new.refs
    BY <1>0 DEF VlRest, VlCharacters
  <2>2. vlChar' = [vlChar EXCEPT ![c] = new]
    BY <1>2
  <2> HIDE DEF new
  <2> QED
    BY <1>2, <2>1, <2>2, VlCharStep
<1>3. ASSUME NEW r \in VlRuns, VlLabelled(r) PROVE VlRest'
  <2>1. CASE VlAborts(r) /\ UNCHANGED vlChar
    BY <1>1, <1>3, <2>1 DEF VlLabelled, VlAborts
  <2>2. CASE vlChar' = [vlChar EXCEPT ![VlLabel[vlRun[r].cue]].known = TRUE]
    <3>1. vlRun[r].cue \in 1..VlCues /\ VlLabel[vlRun[r].cue] # VlNobody
      BY <1>3, VlAssumption DEF VlLabelled, VlInv, VlRequests
    <3>2. VlLabel[vlRun[r].cue] \in VlChars
      BY <3>1, VlAssumption
    <3>3. vlBound' = vlBound /\ (vlLock' = vlLock \/ vlLock' = VlFree)
      BY <1>3 DEF VlLabelled, VlAborts
    <3> DEFINE c == VlLabel[vlRun[r].cue]
               new == [vlChar[c] EXCEPT !.known = TRUE]
    <3>4. new \in VlCharacters /\ new.good \cup new.canonical \subseteq 1..new.refs
      BY <1>0, <3>2 DEF VlRest, VlCharacters
    <3>5. \A d \in VlChars : vlChar'[d] = IF d = c THEN new ELSE vlChar[d]
      BY <2>2, <3>2 DEF VlRest
    <3>6. vlChar' \in [VlChars -> VlCharacters]
      BY <2>2, <3>2, <3>4 DEF VlRest
    <3> HIDE DEF new, c
    <3> QED
      BY <3>3, <3>4, <3>5, <3>6 DEF VlRest
  <2> QED
    BY <1>3, <2>1, <2>2 DEF VlLabelled
<1>4. ASSUME NEW c \in VlChars, VlCreate(c) PROVE VlRest'
  BY <1>2, <1>4 DEF VlCreate, VlFrame
<1>5. ASSUME NEW c \in VlChars, NEW canonical \in BOOLEAN, VlAdopt(c, canonical) PROVE VlRest'
  <2> DEFINE r == vlChar[c].refs + 1
             new == [vlChar[c] EXCEPT !.refs = r,
                       !.canonical = IF canonical THEN {r} ELSE vlChar[c].canonical]
  <2>1. vlChar[c].refs \in 0..VlRefs /\ vlChar[c].refs < VlRefs
    BY <1>0, <1>5 DEF VlAdopt, VlCharacters
  <2>2. r \in 0..VlRefs /\ r \in 1..VlRefs /\ 1..vlChar[c].refs \subseteq 1..r /\ r \in 1..r
    BY <1>0, <2>1
  <2>3. vlChar[c].good \cup vlChar[c].canonical \subseteq 1..vlChar[c].refs
    BY DEF VlRest
  <2>4. vlChar' = [vlChar EXCEPT ![c] = new] /\ vlLock' = vlLock /\ vlBound' = vlBound
    BY <1>5 DEF VlAdopt, VlFrame
  <2>5. new \in VlCharacters /\ new.good \cup new.canonical \subseteq 1..new.refs
    <3> HIDE DEF r
    <3> QED
      BY <1>0, <2>2, <2>3 DEF VlCharacters
  <2> HIDE DEF new
  <2> QED
    BY <2>4, <2>5, VlCharStep
<1>6. ASSUME NEW c \in VlChars, NEW r \in 1..VlRefs, NEW canonical \in BOOLEAN,
             VlApprove(c, r, canonical)
      PROVE  VlRest'
  <2> DEFINE new == [vlChar[c] EXCEPT !.approved = TRUE, !.good = vlChar[c].good \cup {r},
                       !.canonical = IF canonical THEN {r} ELSE vlChar[c].canonical]
  <2>1. vlChar[c].refs \in 0..VlRefs /\ r \in 1..vlChar[c].refs
    BY <1>0, <1>6 DEF VlApprove, VlCharacters
  <2>2. vlChar[c].good \cup vlChar[c].canonical \subseteq 1..vlChar[c].refs
    BY DEF VlRest
  <2>3. vlChar' = [vlChar EXCEPT ![c] = new] /\ vlLock' = vlLock /\ vlBound' = vlBound
    BY <1>6 DEF VlApprove, VlFrame
  <2>4. new \in VlCharacters /\ new.good \cup new.canonical \subseteq 1..new.refs
    BY <1>0, <2>1, <2>2 DEF VlCharacters
  <2> HIDE DEF new
  <2> QED
    BY <2>3, <2>4, VlCharStep
<1>7. ASSUME NEW r \in VlRuns, VlEnd(r) \/ VlDub(r) PROVE VlRest'
  BY <1>1, <1>7 DEF VlEnd, VlDub, VlDelete, VlAborts, VlQueue, VlFrame
<1>8. ASSUME NEW r \in VlRuns, VlAnalyse(r) \/ VlClip(r) \/ VlMatch(r) \/ VlInterrupted(r)
      PROVE VlRest'
  BY <1>1, <1>8 DEF VlAnalyse, VlDelete, VlClip, VlMatch, VlInterrupted, VlAborts
<1>9. ASSUME NEW q, NEW row, VlAssign(q, row) PROVE VlRest'
  BY <1>1, <1>9 DEF VlAssign, VlFrame
<1>10. CASE UNCHANGED vlVars
  BY <1>1, <1>10 DEF vlVars
<1> QED
  BY <1>3, <1>4, <1>5, <1>6, <1>7, <1>8, <1>9, <1>10 DEF VlNext, VlUser, VlAnalysis

LEMMA VlTyped == VlInv /\ VlRest => VlTypeOK
<1> SUFFICES ASSUME VlInv, VlRest PROVE VlTypeOK
  OBVIOUS
<1>1. \A c \in VlChars : vlChar[c].refs \in 0..VlRefs
  BY DEF VlRest, VlCharacters
<1> QED
  BY <1>1 DEF VlInv, VlRest, VlTypeOK

\* Wherever a job on media files or an analysis is cut off, refused or unwound, each
\* part's state is what its type says: what the run checks beside the safety
\* properties of the parts.
THEOREM MediaTyped == MediaSpec => []MediaTypeOK
<1> DEFINE IInv == /\ ExInv /\ SepTypeOK /\ TrInv /\ TrOutTyped
                   /\ DubInv /\ DubRest /\ VlInv /\ VlRest
<1>1. MediaInit => IInv
  <2>1. MediaInit => TrOutTyped
    BY DEF MediaInit, TrInit, TrOutTyped
  <2>2. MediaInit => DubRest
    BY DubAssumption DEF MediaInit, DubInit, DubRest, NoDub
  <2> QED
    BY <2>1, <2>2, ExInitial, SepTyped, TrInitial, DubInvInit, VlInitially, VlRestInitial
       DEF MediaInit
<1>2. IInv /\ [MediaNext]_<<part, exVars, sepVars, dubVars, trVars, vlVars>> => IInv'
  <2>1. [MediaNext]_<<part, exVars, sepVars, dubVars, trVars, vlVars>>
          => /\ [ExNext]_exVars /\ [SepNext]_sepVars /\ [DubNext]_dubVars
             /\ [TrNext]_trVars /\ [VlNext]_vlVars
    BY DEF MediaNext
  <2> QED
    BY <2>1, ExTypeStep, ExRunnerStep, ExThreadsStep, SepTypeStep, TrStep, TrOutStep, DubInvNext,
       DubRestStep, VlStep, VlRestStep DEF ExInv
<1>3. IInv => MediaTypeOK
  BY TrTyped, DubTyped, VlTyped DEF ExInv, MediaTypeOK
<1> QED
  <2> HIDE DEF IInv
  <2> QED
    BY <1>1, <1>2, <1>3, PTL DEF MediaSpec
==============================================================================
