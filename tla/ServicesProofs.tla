--------------------------- MODULE ServicesProofs ---------------------------
(* Proofs about the services around the jobs: one fetch of the catalogue   *)
(* at a time for any number of coroutines, a chat history a provider       *)
(* accepts for any number of requests, turns and calls, two tables of      *)
(* models that agree for any number of models and any priorities, a paid   *)
(* answer booked once and never dropped for any number of faults, a        *)
(* transcript that keeps what was heard, once, and cues that show it for   *)
(* any speech, and event streams without a hole for any number of          *)
(* publishers.                                                             *)
EXTENDS MCServices, FiniteSetTheorems, SequenceTheorems, TLAPS
-----------------------------------------------------------------------------
(* Catalogue.                                                               *)
CaOneFetch ==
  \A c, d \in CaCallers : caCaller[c].at = "fetch" /\ caCaller[d].at = "fetch" => c = d
CaWanted ==
  \A c \in CaCallers :
    caCaller[c].at = "fetch" /\ ~caCaller[c].forced => caAge # "fresh" /\ ~caRecent

\* A list that was never fetched has no recent success to it, so the look behind
\* the lock may pass over caRecent for it.
CaNeverRecent == caAge = "never" => ~caRecent

CaInv == CaTypeOK /\ CaOneFetch /\ CaWanted /\ CaNeverRecent

LEMMA CaInitial == CaInit => CaInv
<1> SUFFICES ASSUME CaInit PROVE CaInv
  OBVIOUS
<1>1. CaTypeOK
  BY Zenon DEF CaInit, CaTypeOK, CaIdle
<1>2. \A c \in CaCallers : caCaller[c].at = "idle"
  BY DEF CaInit, CaIdle
<1>3. CaOneFetch /\ CaWanted
  BY <1>2 DEF CaOneFetch, CaWanted
<1>4. CaNeverRecent
  BY DEF CaInit, CaNeverRecent
<1> QED
  BY <1>1, <1>3, <1>4 DEF CaInv

LEMMA CaTypeStep == CaTypeOK /\ [CaNext]_caVars => CaTypeOK'
<1> SUFFICES ASSUME CaTypeOK, [CaNext]_caVars PROVE CaTypeOK'
  OBVIOUS
<1> USE DEF CaTypeOK, CaIdle, CaServed, CaGo
<1>1. CASE CaTime
  BY <1>1 DEF CaTime
<1>2. ASSUME NEW c \in CaCallers, CaAsk(c) PROVE CaTypeOK'
  <2> PICK forced \in BOOLEAN :
             caCaller' = [caCaller EXCEPT ![c] = [at |-> "lock", forced |-> forced]]
    BY <1>2 DEF CaAsk
  <2> QED
    BY <1>2 DEF CaAsk
<1>3. ASSUME NEW c \in CaCallers, CaLocked(c) PROVE CaTypeOK'
  <2>1. CASE caCaller' = [caCaller EXCEPT ![c].at = "fetch"]
    BY <1>3, <2>1 DEF CaLocked
  <2>2. CASE caCaller' = [caCaller EXCEPT ![c] = CaIdle]
    BY <1>3, <2>2 DEF CaLocked
  <2> QED
    BY <1>3, <2>1, <2>2 DEF CaLocked
<1>4. ASSUME NEW c \in CaCallers, CaFetched(c) PROVE CaTypeOK'
  BY <1>4 DEF CaFetched
<1>5. ASSUME NEW c \in CaCallers, CaFails(c) PROVE CaTypeOK'
  BY <1>5 DEF CaFails
<1>6. CASE UNCHANGED caVars
  BY <1>6 DEF caVars
<1> QED
  BY <1>1, <1>2, <1>3, <1>4, <1>5, <1>6 DEF CaNext

\* A coroutine that asks only waits for the lock; the one behind it looks again.
LEMMA CaStep == CaInv /\ [CaNext]_caVars => CaInv'
<1> SUFFICES ASSUME CaInv, [CaNext]_caVars PROVE (CaOneFetch /\ CaWanted /\ CaNeverRecent)'
  BY CaTypeStep DEF CaInv
<1> USE DEF CaInv, CaTypeOK, CaIdle, CaServed, CaGo, CaUnlocked, CaOneFetch, CaWanted, CaNeverRecent
<1>1. CASE CaTime
  BY <1>1 DEF CaTime
<1>2. ASSUME NEW c \in CaCallers, CaAsk(c) PROVE (CaOneFetch /\ CaWanted /\ CaNeverRecent)'
  BY <1>2 DEF CaAsk
<1>3. ASSUME NEW c \in CaCallers, CaLocked(c)
      PROVE  (CaOneFetch /\ CaWanted /\ CaNeverRecent)'
  BY <1>3 DEF CaLocked
<1>4. ASSUME NEW c \in CaCallers, CaFetched(c)
      PROVE  (CaOneFetch /\ CaWanted /\ CaNeverRecent)'
  BY <1>4 DEF CaFetched
<1>5. ASSUME NEW c \in CaCallers, CaFails(c) PROVE (CaOneFetch /\ CaWanted /\ CaNeverRecent)'
  BY <1>5 DEF CaFails
<1>6. CASE UNCHANGED caVars
  BY <1>6 DEF caVars
<1> QED
  BY <1>1, <1>2, <1>3, <1>4, <1>5, <1>6 DEF CaNext

\* However many coroutines want the list, one request is under way at a time, and
\* none that nobody asked for follows a success of the last five minutes.
THEOREM FetchedOnce == CaSpec => []CaFetchedOnce
<1>1. CaInv => CaFetchedOnce
  BY DEF CaInv, CaTypeOK, CaOneFetch, CaWanted, CaFetchedOnce
<1> QED
  BY CaInitial, CaStep, <1>1, PTL DEF CaSpec
-----------------------------------------------------------------------------
(* OperatorChat.                                                            *)
USE OpAssumption

OpPlaces == {"idle", "confirm", "resolve", "ask", "tool"}
OpReqs == [at : OpPlaces, turn : Nat, calls : Seq(OpTools), pending : BOOLEAN]
OpHists == [owed : Nat, broken : BOOLEAN]
OpTyped == opTorn \in BOOLEAN /\ opHist \in OpHists /\ opReq \in [OpRequests -> OpReqs]

\* OpHistoryWhole speaks of requests that ask; the induction needs what each of
\* the other places owes the history: a result for each call still to be run, and
\* nothing otherwise; and that nobody else writes to the session.
OpCalling == \A r \in OpRequests : opReq[r].at = "tool" => Len(opReq[r].calls) > 0
OpAlone == \A r, s \in OpRequests : opReq[r].at # "idle" /\ opReq[s].at # "idle" => r = s
OpOwes ==
  /\ ~opHist.broken
  /\ \A r \in OpRequests : opReq[r].at = "tool" => opHist.owed = Len(opReq[r].calls)
  /\ (\A r \in OpRequests : opReq[r].at # "tool") => opHist.owed = 0
OpInv == OpTyped /\ OpCalling /\ (~opTorn => OpAlone /\ OpOwes)

LEMMA OpQuietTyped == OpQuiet \in OpReqs
BY DEF OpQuiet, OpReqs, OpPlaces

LEMMA OpInitial == OpInit => OpInv
<1> SUFFICES ASSUME OpInit PROVE OpInv
  OBVIOUS
<1>1. opReq \in [OpRequests -> OpReqs]
  BY OpQuietTyped DEF OpInit
<1>2. OpTyped
  BY <1>1 DEF OpInit, OpTyped, OpHists
<1>3. \A r \in OpRequests : opReq[r].at = "idle"
  BY DEF OpInit, OpQuiet
<1>4. opHist.owed = 0 /\ ~opHist.broken
  BY DEF OpInit
<1> QED
  BY <1>2, <1>3, <1>4 DEF OpInv, OpCalling, OpAlone, OpOwes

\* A row leaves the history a history.
LEMMA OpHistTyped ==
  /\ \A h \in OpHists, n \in Nat : OpOther(h, n) \in OpHists
  /\ \A h \in OpHists : OpResult(h) \in OpHists
<1>1. ASSUME NEW h \in OpHists, NEW n \in Nat PROVE OpOther(h, n) \in OpHists
  BY DEF OpHists, OpOther
<1>2. ASSUME NEW h \in OpHists PROVE OpResult(h) \in OpHists
  BY DEF OpHists, OpResult
<1> QED
  BY <1>1, <1>2

\* What another row, or a result, does to a history that is whole.
LEMMA OpOtherWhole ==
  ASSUME NEW h, NEW n, h.owed = 0, ~h.broken
  PROVE  OpOther(h, n).owed = n /\ ~OpOther(h, n).broken
<1>1. OpOther(h, n).owed = n
  BY DEF OpOther
<1>2. OpOther(h, n).broken = (h.broken \/ h.owed # 0)
  BY Zenon DEF OpOther
<1> QED
  BY <1>1, <1>2

LEMMA OpResultWhole ==
  ASSUME NEW h, h.owed \in Nat, h.owed > 0, ~h.broken
  PROVE  OpResult(h).owed = h.owed - 1 /\ ~OpResult(h).broken
<1>1. OpResult(h).owed = h.owed - 1
  BY DEF OpResult
<1>2. OpResult(h).broken = (h.broken \/ h.owed = 0)
  BY Zenon DEF OpResult
<1>3. h.owed # 0
  OBVIOUS
<1> QED
  BY <1>1, <1>2, <1>3

\* A step of request r leaves the others where they are.
OpMoves(r, q) == q \in OpReqs /\ opReq' = [opReq EXCEPT ![r] = q]

LEMMA OpMovesTyped ==
  ASSUME opReq \in [OpRequests -> OpReqs], NEW r \in OpRequests, NEW q, OpMoves(r, q)
  PROVE  /\ opReq' \in [OpRequests -> OpReqs]
         /\ opReq'[r] = q
         /\ \A s \in OpRequests \ {r} : opReq'[s] = opReq[s]
BY DEF OpMoves

\* Only a request that is at its tools leaves results owed.
LEMMA OpMovesOn ==
  ASSUME OpInv, opTorn' = opTorn, opHist' \in OpHists,
         NEW r \in OpRequests, opReq[r].at # "idle", NEW q, OpMoves(r, q),
         q.at = "tool" => Len(q.calls) > 0,
         ~opTorn => ~opHist'.broken /\ opHist'.owed = IF q.at = "tool" THEN Len(q.calls) ELSE 0
  PROVE  OpInv'
<1>1. OpTyped'
  BY OpMovesTyped DEF OpInv, OpTyped
<1>2. OpCalling'
  BY OpMovesTyped DEF OpInv, OpTyped, OpCalling
<1>3. ASSUME ~opTorn PROVE (OpAlone /\ OpOwes)'
  <2>1. \A s \in OpRequests \ {r} : opReq[s].at = "idle" /\ opReq'[s].at = "idle"
    BY <1>3, OpMovesTyped DEF OpInv, OpTyped, OpAlone
  <2>2. opReq'[r] = q
    BY OpMovesTyped DEF OpInv, OpTyped
  <2> QED
    BY <1>3, <2>1, <2>2 DEF OpAlone, OpOwes
<1> QED
  BY <1>1, <1>2, <1>3 DEF OpInv

\* What a request that is alone finds.
LEMMA OpFinds ==
  ASSUME OpInv, ~opTorn, NEW r \in OpRequests, opReq[r].at # "idle"
  PROVE  /\ ~opHist.broken
         /\ opHist.owed = IF opReq[r].at = "tool" THEN Len(opReq[r].calls) ELSE 0
<1>1. \A s \in OpRequests \ {r} : opReq[s].at = "idle"
  BY DEF OpInv, OpAlone
<1> QED
  BY <1>1 DEF OpInv, OpOwes

LEMMA OpAnswerStep ==
  ASSUME OpInv, NEW r \in OpRequests, OpAnswer(r) PROVE OpInv'
<1>0. opReq[r] \in OpReqs /\ opHist \in OpHists /\ opReq[r].at = "ask" /\ opTorn' = opTorn
  BY DEF OpInv, OpTyped, OpAnswer, OpAsked, OpFrame
<1>1. ~opTorn => opHist.owed = 0 /\ ~opHist.broken
  BY <1>0, OpFinds
<1>2. CASE (opHist' = opHist \/ opHist' = OpOther(opHist, 0)) /\ opReq' = [opReq EXCEPT ![r] = OpQuiet]
  <2>1. opHist' \in OpHists
    BY <1>0, <1>2, OpHistTyped
  <2>2. ~opTorn => opHist'.owed = 0 /\ ~opHist'.broken
    BY <1>1, <1>2, OpOtherWhole
  <2>3. OpMoves(r, OpQuiet) /\ OpQuiet.at = "idle"
    BY <1>2, OpQuietTyped DEF OpMoves, OpQuiet
  <2> QED
    BY <1>0, <2>1, <2>2, <2>3, OpMovesOn
<1>3. ASSUME NEW n \in 1..OpCalls, NEW calls \in [1..n -> OpTools], opHist' = OpOther(opHist, n),
             opReq' = [opReq EXCEPT ![r].at = "tool", ![r].calls = calls]
      PROVE  OpInv'
  <2> DEFINE q == [opReq[r] EXCEPT !.at = "tool", !.calls = calls]
  <2>1. calls \in Seq(OpTools) /\ Len(calls) = n /\ Len(calls) > 0
    BY <1>3
  <2>2. q \in OpReqs /\ q.at = "tool" /\ q.calls = calls
    BY <1>0, <2>1 DEF OpReqs, OpPlaces
  <2>3. opReq' = [opReq EXCEPT ![r] = q]
    BY <1>3
  <2>4. OpMoves(r, q)
    BY <2>2, <2>3 DEF OpMoves
  <2>5. opHist' \in OpHists /\ (~opTorn => opHist'.owed = n /\ ~opHist'.broken)
    BY <1>0, <1>1, <1>3, OpHistTyped, OpOtherWhole
  <2> HIDE DEF q
  <2> QED
    BY <1>0, <2>1, <2>2, <2>4, <2>5, OpMovesOn
<1> QED
  BY <1>2, <1>3 DEF OpAnswer, OpAsked, OpSays, OpOver

LEMMA OpToolStep ==
  ASSUME OpInv, NEW r \in OpRequests, OpTool(r) PROVE OpInv'
<1>0. /\ opReq[r] \in OpReqs /\ opHist \in OpHists /\ opReq[r].at = "tool" /\ opTorn' = opTorn
      /\ opReq[r].calls \in Seq(OpTools) /\ Len(opReq[r].calls) > 0
  BY DEF OpInv, OpTyped, OpReqs, OpCalling, OpTool, OpToolRuns, OpFrame
<1>1. ~opTorn => opHist.owed = Len(opReq[r].calls) /\ ~opHist.broken
  BY <1>0, OpFinds
<1>2. Len(opReq[r].calls) \in Nat /\ Len(opReq[r].calls) > 0
  BY <1>0
<1>3. OpResult(opHist) \in OpHists
  BY <1>0, OpHistTyped
<1>4. ~opTorn => /\ OpResult(opHist).owed = Len(opReq[r].calls) - 1
                 /\ ~OpResult(opHist).broken
  BY <1>1, <1>2, OpResultWhole
<1>5. CASE ~OpEndsOnCall(r, FALSE)
  <2>1. OpPending(r) \in BOOLEAN
    BY <1>0 DEF OpPending, OpReqs
  <2>2. Len(opReq[r].calls) # 1
    BY <1>5 DEF OpEndsOnCall
  <2> DEFINE rest == Tail(opReq[r].calls)
  <2>3. rest \in Seq(OpTools) /\ Len(rest) = Len(opReq[r].calls) - 1
    <3>1. opReq[r].calls # <<>>
      BY <1>2
    <3> QED
      BY <1>0, <3>1, HeadTailProperties
  <2> DEFINE q == [opReq[r] EXCEPT !.calls = rest, !.pending = OpPending(r)]
  <2> HIDE DEF rest
  <2>4. Len(rest) > 0
    <3> DEFINE n == Len(opReq[r].calls)
    <3>1. n \in Nat /\ n > 0 /\ n # 1 /\ Len(rest) = n - 1
      BY <1>2, <2>2, <2>3
    <3> HIDE DEF n
    <3> QED
      BY <3>1
  <2>5. q \in OpReqs /\ q.at = "tool" /\ q.calls = rest
    BY <1>0, <2>1, <2>3 DEF OpReqs
  <2>6. opReq' = [opReq EXCEPT ![r] = q] /\ opHist' = OpResult(opHist)
    BY <1>0, <1>5 DEF OpTool, OpToolRuns, rest
  <2>7. OpMoves(r, q)
    BY <2>5, <2>6 DEF OpMoves
  <2> HIDE DEF q
  <2> QED
    BY <1>0, <1>3, <1>4, <2>3, <2>4, <2>5, <2>6, <2>7, OpMovesOn
<1>6. CASE OpEndsOnCall(r, FALSE) /\ OpPending(r)
  <2>1. opHist' = OpOther(OpResult(opHist), 0) /\ opReq' = [opReq EXCEPT ![r] = OpQuiet]
    BY <1>0, <1>6 DEF OpTool, OpToolRuns, OpOver
  <2>2. Len(opReq[r].calls) = 1
    BY <1>6 DEF OpEndsOnCall
  <2>3. opHist' \in OpHists
    BY <1>3, <2>1, OpHistTyped
  <2>4. ~opTorn => opHist'.owed = 0 /\ ~opHist'.broken
    BY <1>4, <2>1, <2>2, OpOtherWhole
  <2>5. OpMoves(r, OpQuiet) /\ OpQuiet.at = "idle"
    BY <2>1, OpQuietTyped DEF OpMoves, OpQuiet
  <2> QED
    BY <1>0, <2>3, <2>4, <2>5, OpMovesOn
<1>7. CASE OpEndsOnCall(r, FALSE) /\ ~OpPending(r)
  <2> DEFINE q == [opReq[r] EXCEPT !.calls = <<>>, !.at = "ask", !.turn = @ + 1]
  <2>1. Len(opReq[r].calls) = 1
    BY <1>7 DEF OpEndsOnCall
  <2>2. <<>> \in Seq(OpTools) /\ opReq[r].turn + 1 \in Nat
    BY <1>0 DEF OpReqs
  <2>3. q \in OpReqs /\ q.at = "ask"
    BY <1>0, <2>2 DEF OpReqs, OpPlaces
  <2>4. opReq' = [opReq EXCEPT ![r] = q] /\ opHist' = OpResult(opHist)
    BY <1>0, <1>7 DEF OpTool, OpToolRuns
  <2>5. OpMoves(r, q)
    BY <2>3, <2>4 DEF OpMoves
  <2> HIDE DEF q
  <2> QED
    BY <1>0, <1>3, <1>4, <2>1, <2>3, <2>4, <2>5, OpMovesOn
<1> QED
  BY <1>5, <1>6, <1>7

\* A message that comes while another request is under way makes the session torn.
LEMMA OpPostStep ==
  ASSUME OpInv, NEW r \in OpRequests, OpPost(r) PROVE OpInv'
<1>0. opReq[r] \in OpReqs /\ opHist \in OpHists /\ opTorn \in BOOLEAN
  BY DEF OpInv, OpTyped
<1> PICK at \in {"resolve", "confirm"} :
           /\ opReq' = [opReq EXCEPT ![r].at = at]
           /\ opHist' = opHist \/ opHist' = OpOther(opHist, 0)
  BY DEF OpPost, OpGo, OpSays
<1> DEFINE q == [opReq[r] EXCEPT !.at = at]
<1>1. q \in OpReqs /\ q.at = at
  BY <1>0 DEF OpReqs, OpPlaces
<1>2. OpMoves(r, q)
  BY <1>1 DEF OpMoves
<1> HIDE DEF q
<1>3. opHist' \in OpHists
  BY <1>0, OpHistTyped
<1>4. /\ opTorn' = (opTorn \/ \E s \in OpRequests : opReq[s].at # "idle")
      /\ opTorn' \in BOOLEAN
  BY <1>0, Zenon DEF OpPost
<1>5. OpTyped' /\ OpCalling'
  BY <1>1, <1>2, <1>3, <1>4, OpMovesTyped DEF OpInv, OpTyped, OpCalling
<1>6. ASSUME ~opTorn' PROVE (OpAlone /\ OpOwes)'
  <2>1. ~opTorn /\ \A s \in OpRequests : opReq[s].at = "idle"
    BY <1>4, <1>6
  <2>2. opHist.owed = 0 /\ ~opHist.broken
    BY <2>1 DEF OpInv, OpOwes
  <2>3. opHist'.owed = 0 /\ ~opHist'.broken
    BY <2>2, OpOtherWhole
  <2>4. \A s \in OpRequests : opReq'[s].at # "tool" /\ (s # r => opReq'[s].at = "idle")
    BY <1>1, <1>2, <2>1, OpMovesTyped DEF OpInv, OpTyped
  <2> QED
    BY <2>3, <2>4 DEF OpAlone, OpOwes
<1> QED
  BY <1>5, <1>6 DEF OpInv

LEMMA OpOtherSteps ==
  ASSUME OpInv, NEW r \in OpRequests, OpConfirm(r) \/ OpResolve(r) \/ OpLimit(r) PROVE OpInv'
<1>0. /\ opReq[r] \in OpReqs /\ opHist \in OpHists /\ opTorn' = opTorn
      /\ opReq[r].at # "idle" /\ opReq[r].at # "tool"
  BY DEF OpInv, OpTyped, OpConfirm, OpResolve, OpLimit, OpFrame
<1>1. ~opTorn => opHist.owed = 0 /\ ~opHist.broken
  BY <1>0, OpFinds
<1>2. opHist' = opHist \/ opHist' = OpOther(opHist, 0)
  BY DEF OpConfirm, OpResolve, OpLimit, OpSays
<1>3. opHist' \in OpHists
  BY <1>0, <1>2, OpHistTyped
<1>4. ~opTorn => opHist'.owed = 0 /\ ~opHist'.broken
  BY <1>1, <1>2, OpOtherWhole
<1>5. CASE opReq' = [opReq EXCEPT ![r] = OpQuiet]
  <2>1. OpMoves(r, OpQuiet) /\ OpQuiet.at = "idle"
    BY <1>5, OpQuietTyped DEF OpMoves, OpQuiet
  <2> QED
    BY <1>0, <1>3, <1>4, <2>1, OpMovesOn
<1>6. ASSUME NEW at \in {"resolve", "ask"}, opReq' = [opReq EXCEPT ![r].at = at] PROVE OpInv'
  <2> DEFINE q == [opReq[r] EXCEPT !.at = at]
  <2>1. q \in OpReqs /\ q.at = at
    BY <1>0 DEF OpReqs, OpPlaces
  <2>2. OpMoves(r, q)
    BY <1>6, <2>1 DEF OpMoves
  <2> HIDE DEF q
  <2> QED
    BY <1>0, <1>3, <1>4, <2>1, <2>2, OpMovesOn
<1> QED
  BY <1>5, <1>6 DEF OpConfirm, OpResolve, OpLimit, OpGo, OpOver

LEMMA OpStep == OpInv /\ [OpNext]_opVars => OpInv'
<1> SUFFICES ASSUME OpInv, [OpNext]_opVars PROVE OpInv'
  OBVIOUS
<1>1. CASE OpCrash
  <2>1. opTorn' = TRUE /\ opHist' = opHist /\ opReq' = [r \in OpRequests |-> OpQuiet]
    BY <1>1 DEF OpCrash
  <2>2. opReq' \in [OpRequests -> OpReqs]
    BY <2>1, OpQuietTyped
  <2>3. OpCalling'
    BY <2>1 DEF OpCalling, OpQuiet
  <2> QED
    BY <2>1, <2>2, <2>3 DEF OpInv, OpTyped
<1>2. CASE OpSettings \/ UNCHANGED opVars
  <2>1. UNCHANGED <<opHist, opReq, opTorn>>
    BY <1>2 DEF OpSettings, opVars
  <2> QED
    BY <2>1 DEF OpInv, OpTyped, OpCalling, OpAlone, OpOwes
<1> QED
  BY <1>1, <1>2, OpPostStep, OpAnswerStep, OpToolStep, OpOtherSteps DEF OpNext, OpRuns

\* However many calls an answer makes, of whatever tools, and however a turn ends:
\* unless requests overlapped or the process stopped in one, every call has its
\* result right after it when the model is asked again.
THEOREM HistoryWhole == OpSpec => []OpHistoryWhole
<1>1. OpInv => OpHistoryWhole
  <2> SUFFICES ASSUME OpInv, ~opTorn, NEW r \in OpRequests, opReq[r].at = "ask"
               PROVE  opHist.owed = 0 /\ ~opHist.broken
    BY DEF OpHistoryWhole
  <2> QED
    BY OpFinds
<1> QED
  BY OpInitial, OpStep, <1>1, PTL DEF OpSpec
-----------------------------------------------------------------------------
(* The pools of models.                                                     *)
HIDE OpAssumption
USE PoAssumption

\* Rows with priorities of any size.
PoAnyRows == [tier : PoTiers, prio : Int, on : BOOLEAN] \cup {PoNoRow}
PoKept ==
  /\ poPrefs \in [PoModels -> PoAnyRows] /\ poLegacy \in [PoModels -> PoAnyRows]
  /\ poSettings.model \in PoModels /\ DOMAIN poSettings = {"model", "paidFallback", "strategy"}

\* The legacy table has every row of the other one, and at most one more: the
\* model of the settings, with which it was seeded.
PoNested ==
  /\ PoIn(poPrefs) \subseteq PoIn(poLegacy)
  /\ \A m, n \in PoIn(poLegacy) \ PoIn(poPrefs) : m = n

PoInv == PoKept /\ PoNested /\ PoTablesAgree

LEMMA PoRowIn ==
  ASSUME NEW row \in PoAnyRows
  PROVE  /\ row # PoNoRow <=> row.tier \in PoTiers
         /\ row # PoNoRow => row.prio \in Int /\ row \in [tier : PoTiers, prio : Int, on : BOOLEAN]
BY DEF PoAnyRows, PoNoRow, PoTiers

LEMMA PoInitially == PoInit => PoInv
<1> SUFFICES ASSUME PoInit PROVE PoInv
  OBVIOUS
<1> PICK m \in PoModels :
      LET row == [tier |-> IF m \in PoFreeNamed THEN "free" ELSE "paid", prio |-> 1, on |-> TRUE]
      IN /\ poLegacy = [PoNoRows EXCEPT ![m] = row]
         /\ poSettings = [model |-> m, paidFallback |-> FALSE,
                          strategy |-> IF row.tier = "free" THEN "free_only" ELSE "paid_only"]
  BY DEF PoInit
<1> DEFINE row == [tier |-> IF m \in PoFreeNamed THEN "free" ELSE "paid", prio |-> 1, on |-> TRUE]
<1>0. row \in PoAnyRows
  BY DEF PoAnyRows, PoTiers
<1>1. poLegacy = [PoNoRows EXCEPT ![m] = row]
  OBVIOUS
<1>2. poLegacy \in [PoModels -> PoAnyRows] /\ \A n \in PoModels : n # m => poLegacy[n] = PoNoRow
  <2> HIDE DEF row
  <2> QED
    BY <1>0, <1>1 DEF PoNoRows, PoAnyRows
<1>3. poSettings.model \in PoModels /\ DOMAIN poSettings = {"model", "paidFallback", "strategy"}
  OBVIOUS
<1> QED
  BY <1>2, <1>3 DEF PoInit, PoInv, PoKept, PoNested, PoTablesAgree, PoAgree, PoOrderTotal, PoIn

LEMMA PoSyncs == ASSUME PoInv, PoSync
                 PROVE  poSettings'.model \in PoModels /\ DOMAIN poSettings' = DOMAIN poSettings
BY DEF PoSync, PoTop, PoInv, PoKept

\* One row of both tables is written, and it does not meet another one of its
\* priority.
LEMMA PoOneRow ==
  ASSUME PoInv, NEW m \in PoModels, NEW row \in PoAnyRows,
         poPrefs' = [poPrefs EXCEPT ![m] = row], PoMirror(m), PoSync,
         \/ row = PoNoRow
         \/ \A n \in PoPool(row.tier) : n # m => poPrefs[n].prio # row.prio
  PROVE  PoInv'
<1>1. poLegacy' = [poLegacy EXCEPT ![m] = row]
  BY DEF PoMirror, PoInv, PoKept
<1>2. PoKept'
  BY <1>1, PoSyncs DEF PoKept, PoInv
<1>3. PoNested' /\ PoAgree'
  BY <1>1 DEF PoNested, PoIn, PoInv, PoKept, PoTablesAgree, PoAgree
<1>4. ASSUME NEW n \in PoIn(poPrefs) \ {m}, row # PoNoRow, row.tier = poPrefs[n].tier
      PROVE  row.prio # poPrefs[n].prio
  BY <1>4 DEF PoPool, PoIn
<1>5. ASSUME NEW a \in PoModels, NEW b \in PoModels, a # b, poPrefs'[a] # PoNoRow, poPrefs'[b] # PoNoRow,
             poPrefs'[a].tier = poPrefs'[b].tier
      PROVE  poPrefs'[a].prio # poPrefs'[b].prio
  <2>1. CASE a # m /\ b # m
    BY <1>5, <2>1 DEF PoInv, PoKept, PoTablesAgree, PoOrderTotal, PoIn
  <2>2. CASE a = m
    BY <1>4, <1>5, <2>2 DEF PoIn, PoInv, PoKept
  <2>3. CASE b = m
    BY <1>4, <1>5, <2>3 DEF PoIn, PoInv, PoKept
  <2> QED
    BY <2>1, <2>2, <2>3
<1> QED
  BY <1>2, <1>3, <1>5 DEF PoInv, PoTablesAgree, PoOrderTotal, PoIn

\* Seeding changes nothing while a model is configured, and otherwise leaves
\* one row.
LEMMA PoSeeds ==
  ASSUME PoInv, NEW s, s.model \in PoModels, DOMAIN s = DOMAIN poSettings, PoSeed(s)
  PROVE  /\ poLegacy' \in [PoModels -> PoAnyRows] /\ poSettings'.model \in PoModels
         /\ DOMAIN poSettings' = DOMAIN poSettings
         /\ PoIn(poPrefs) # {} => poLegacy' = poLegacy /\ poSettings' = s
         /\ PoIn(poPrefs) = {} => \A m, n \in PoModels : poLegacy'[m] # PoNoRow /\ poLegacy'[n] # PoNoRow => m = n
<1>1. CASE PoIn(poLegacy) # {}
  BY <1>1 DEF PoSeed, PoInv, PoKept, PoNested, PoIn
<1>2. CASE PoIn(poLegacy) = {}
  <2> DEFINE row == [tier |-> PoTierOf(s.model), prio |-> 1, on |-> TRUE]
  <2>1. PoTierOf(s.model) \in PoTiers
    BY DEF PoTierOf, PoTiers
  <2>2. row \in PoAnyRows
    BY <2>1 DEF PoAnyRows
  <2>3. poLegacy' = [PoNoRows EXCEPT ![s.model] = row] /\ poSettings' = PoSeedSettings(s)
    BY <1>2 DEF PoSeed, PoSeedLegacy
  <2> HIDE DEF row
  <2>4. /\ poLegacy' \in [PoModels -> PoAnyRows]
        /\ \A m \in PoModels : m # s.model => poLegacy'[m] = PoNoRow
    BY <2>2, <2>3 DEF PoNoRows, PoAnyRows
  <2>5. poSettings'.model \in PoModels /\ DOMAIN poSettings' = DOMAIN poSettings
    BY <2>3 DEF PoSeedSettings, PoInv, PoKept
  <2>6. PoIn(poPrefs) = {}
    BY <1>2 DEF PoInv, PoNested
  <2> QED
    BY <2>4, <2>5, <2>6
<1> QED
  BY <1>1, <1>2

LEMMA PoStep == PoInv /\ [PoNext]_poVars => PoInv'
<1> SUFFICES ASSUME PoInv, [PoNext]_poVars PROVE PoInv'
  OBVIOUS
<1>1. CASE PoSeeded
  <2>1. /\ poLegacy' \in [PoModels -> PoAnyRows] /\ poSettings'.model \in PoModels
        /\ DOMAIN poSettings' = DOMAIN poSettings
        /\ PoIn(poPrefs) # {} => poLegacy' = poLegacy
        /\ PoIn(poPrefs) = {} => \A m, n \in PoModels : poLegacy'[m] # PoNoRow /\ poLegacy'[n] # PoNoRow => m = n
    BY <1>1, PoSeeds DEF PoSeeded, PoInv, PoKept
  <2>2. poPrefs' = IF PoIn(poPrefs) = {} /\ ~poAudio THEN poLegacy' ELSE poPrefs
    BY <1>1 DEF PoSeeded, PoMigrate
  <2>3. CASE PoIn(poPrefs) # {}
    BY <2>1, <2>2, <2>3 DEF PoInv, PoKept, PoNested, PoTablesAgree, PoAgree, PoOrderTotal, PoIn
  <2>4. CASE PoIn(poPrefs) = {}
    <3>1. poPrefs' = poLegacy' \/ poPrefs' = poPrefs
      BY <2>2
    <3> QED
      BY <2>1, <2>4, <3>1 DEF PoInv, PoKept, PoNested, PoTablesAgree, PoAgree, PoOrderTotal, PoIn
  <2> QED
    BY <2>3, <2>4
<1>2. ASSUME NEW s, s.model \in PoModels, DOMAIN s = DOMAIN poSettings, PoSeed(s), poPrefs' = poPrefs
      PROVE  PoInv'
  <2>1. /\ poLegacy' \in [PoModels -> PoAnyRows] /\ poSettings'.model \in PoModels
        /\ DOMAIN poSettings' = DOMAIN poSettings
        /\ PoIn(poPrefs) # {} => poLegacy' = poLegacy
        /\ PoIn(poPrefs) = {} => \A m, n \in PoModels : poLegacy'[m] # PoNoRow /\ poLegacy'[n] # PoNoRow => m = n
    BY <1>2, PoSeeds
  <2> QED
    BY <1>2, <2>1 DEF PoInv, PoKept, PoNested, PoTablesAgree, PoAgree, PoOrderTotal, PoIn
<1>3. CASE PoSettingsRead
  BY <1>2, <1>3 DEF PoSettingsRead, PoInv, PoKept
<1>4. CASE PoSettingsSaved
  <2>1. PICK s \in [model : PoModels, paidFallback : BOOLEAN,
                    strategy : {"free_only", "paid_only", "free_first"}] : PoSeed(s) /\ poPrefs' = poPrefs
    BY <1>4 DEF PoSettingsSaved
  <2> QED
    BY <1>2, <2>1 DEF PoInv, PoKept
<1>5. ASSUME NEW m \in PoModels, NEW tier \in PoTiers, PoAdd(m, tier) PROVE PoInv'
  <2>1. PICK p \in PoPrios :
          PoNextPrio(tier, p) /\ poPrefs' = [poPrefs EXCEPT ![m] = [tier |-> tier, prio |-> p, on |-> TRUE]]
    BY <1>5 DEF PoAdd, PoNew
  <2>2. [tier |-> tier, prio |-> p, on |-> TRUE] \in PoAnyRows
    BY DEF PoAnyRows, PoPrios
  <2>3. \A n \in PoPool(tier) : poPrefs[n].prio # p
    <3> SUFFICES ASSUME NEW n \in PoPool(tier) PROVE poPrefs[n].prio # p
      OBVIOUS
    <3>1. poPrefs[n].prio < p /\ poPrefs[n].prio \in Int
      BY <2>1, PoRowIn DEF PoNextPrio, PoPool, PoInv, PoKept
    <3> QED
      BY <3>1 DEF PoPrios
  <2> QED
    BY <1>5, <2>1, <2>2, <2>3, PoOneRow DEF PoAdd
<1>6. ASSUME NEW m \in PoModels, PoSwitch(m) PROVE PoInv'
  <2> DEFINE row == [poPrefs[m] EXCEPT !.on = ~@]
  <2>1. poPrefs[m] \in [tier : PoTiers, prio : Int, on : BOOLEAN]
    BY <1>6, PoRowIn DEF PoSwitch, PoInv, PoKept
  <2>2. row \in PoAnyRows /\ row.tier = poPrefs[m].tier /\ row.prio = poPrefs[m].prio
    BY <2>1 DEF PoAnyRows
  <2>3. poPrefs' = [poPrefs EXCEPT ![m] = row]
    BY <1>6 DEF PoSwitch
  <2>4. \A n \in PoPool(row.tier) : n # m => poPrefs[n].prio # row.prio
    <3> SUFFICES ASSUME NEW n \in PoPool(row.tier), n # m PROVE poPrefs[n].prio # row.prio
      OBVIOUS
    <3>1. poPrefs[n].tier = poPrefs[m].tier /\ poPrefs[n] # PoNoRow /\ poPrefs[m] # PoNoRow /\ n \in PoModels
      BY <1>6, <2>1, <2>2, PoRowIn DEF PoPool, PoSwitch, PoInv, PoKept
    <3> QED
      BY <2>2, <3>1 DEF PoInv, PoTablesAgree, PoOrderTotal, PoIn
  <2> HIDE DEF row
  <2> QED
    BY <1>6, <2>2, <2>3, <2>4, PoOneRow DEF PoSwitch
<1>7. ASSUME NEW m \in PoModels, NEW tier \in PoTiers, PoMove(m, tier) PROVE PoInv'
  <2>1. PICK p \in PoPrios :
          PoNextPrio(tier, p) /\ poPrefs' = [poPrefs EXCEPT ![m] = [@ EXCEPT !.tier = tier, !.prio = p]]
    BY <1>7 DEF PoMove, PoLast
  <2>2. poPrefs[m] \in [tier : PoTiers, prio : Int, on : BOOLEAN]
    BY <1>7, PoRowIn DEF PoMove, PoInv, PoKept
  <2> DEFINE old == poPrefs[m]
             row == [old EXCEPT !.tier = tier, !.prio = p]
  <2>3. row \in PoAnyRows /\ row.tier = tier /\ row.prio = p
    <3> HIDE DEF old
    <3>1. old \in [tier : PoTiers, prio : Int, on : BOOLEAN]
      BY <2>2 DEF old
    <3>2. p \in Int
      BY DEF PoPrios
    <3> DEFINE rows == [tier : PoTiers, prio : Int, on : BOOLEAN]
    <3>3. row \in rows
      BY <3>1, <3>2
    <3>4. row.tier = tier /\ row.prio = p
      BY <3>1
    <3> QED
      BY <3>3, <3>4 DEF PoAnyRows
  <2>4. poPrefs' = [poPrefs EXCEPT ![m] = row]
    BY <2>1
  <2> HIDE DEF row
  <2>5. \A n \in PoPool(tier) : poPrefs[n].prio # p
    <3> SUFFICES ASSUME NEW n \in PoPool(tier) PROVE poPrefs[n].prio # p
      OBVIOUS
    <3>1. poPrefs[n].prio < p /\ poPrefs[n].prio \in Int
      BY <2>1, PoRowIn DEF PoNextPrio, PoPool, PoInv, PoKept
    <3> QED
      BY <3>1 DEF PoPrios
  <2> QED
    BY <1>7, <2>3, <2>4, <2>5, PoOneRow DEF PoMove
<1>8. ASSUME NEW m \in PoModels, PoDelete(m) PROVE PoInv'
  <2>1. PoNoRow \in PoAnyRows
    BY DEF PoAnyRows
  <2> QED
    BY <1>8, <2>1, PoOneRow DEF PoDelete
<1>9. ASSUME NEW tier \in PoTiers, PoReorder(tier) PROVE PoInv'
  <2> DEFINE pool == PoPool(tier)
  <2>1. PICK order \in [pool -> 1..Cardinality(pool)] :
          /\ \A m, n \in pool : m # n => order[m] # order[n]
          /\ poPrefs' = [m \in PoModels |-> IF m \in pool
                                              THEN [poPrefs[m] EXCEPT !.prio = order[m]] ELSE poPrefs[m]]
    BY <1>9 DEF PoReorder
  <2>2. Cardinality(pool) \in Nat
    BY FS_Subset, FS_CardinalityType DEF PoPool
  <2>3. \A m \in pool : order[m] \in Int /\ poPrefs[m] \in [tier : PoTiers, prio : Int, on : BOOLEAN]
    BY <2>1, <2>2, PoRowIn DEF PoPool, PoInv, PoKept
  <2>4. \A m \in pool : /\ poPrefs'[m] \in [tier : PoTiers, prio : Int, on : BOOLEAN]
                        /\ poPrefs'[m].tier = tier /\ poPrefs'[m].prio = order[m]
    BY <2>1, <2>3 DEF PoPool
  <2>5. \A m \in PoModels \ pool : poPrefs'[m] = poPrefs[m] /\ poPrefs[m].tier # tier
    BY <2>1 DEF PoPool
  <2>6. poPrefs' \in [PoModels -> PoAnyRows]
    BY <2>1, <2>4, <2>5 DEF PoAnyRows, PoInv, PoKept
  <2>7. poLegacy' = [m \in PoModels |-> IF m \in pool THEN poPrefs'[m] ELSE poLegacy[m]]
    BY <1>9 DEF PoReorder
  <2>8. PoIn(poPrefs)' = PoIn(poPrefs) /\ PoIn(poLegacy)' = PoIn(poLegacy)
    <3>1. \A m \in pool : m \in PoModels /\ poPrefs[m] # PoNoRow /\ poPrefs'[m] # PoNoRow /\ poLegacy[m] # PoNoRow
      BY <2>3, <2>4, PoRowIn DEF PoPool, PoInv, PoNested, PoIn, PoNoRow, PoTiers
    <3> QED
      BY <2>5, <2>7, <3>1 DEF PoIn
  <2>9. PoAgree' /\ poLegacy' \in [PoModels -> PoAnyRows]
    <3>1. poLegacy' \in [PoModels -> PoAnyRows]
      BY <2>6, <2>7 DEF PoInv, PoKept
    <3>2. ASSUME NEW m \in PoIn(poPrefs) \cap PoIn(poLegacy) PROVE poPrefs'[m] = poLegacy'[m]
      <4>1. poPrefs[m] = poLegacy[m] /\ m \in PoModels
        BY <3>2 DEF PoInv, PoTablesAgree, PoAgree, PoIn
      <4> QED
        BY <2>5, <2>7, <4>1
    <3> QED
      BY <2>8, <3>1, <3>2 DEF PoAgree
  <2>10. PoOrderTotal'
    <3> SUFFICES ASSUME NEW a \in PoIn(poPrefs), NEW b \in PoIn(poPrefs), a # b, poPrefs'[a].tier = poPrefs'[b].tier
                 PROVE  poPrefs'[a].prio # poPrefs'[b].prio
      BY <2>8 DEF PoOrderTotal
    <3>1. a \in pool <=> b \in pool
      BY <2>4, <2>5 DEF PoIn
    <3> QED
      BY <2>1, <2>4, <2>5, <3>1 DEF PoInv, PoTablesAgree, PoOrderTotal, PoIn
  <2>11. poSettings'.model \in PoModels /\ DOMAIN poSettings' = DOMAIN poSettings
    BY <1>9, PoSyncs DEF PoReorder
  <2> QED
    BY <2>6, <2>8, <2>9, <2>10, <2>11 DEF PoInv, PoKept, PoNested, PoTablesAgree
<1>10. CASE PoAudioSet \/ PoPricesChange \/ UNCHANGED poVars
  <2>1. UNCHANGED <<poPrefs, poLegacy, poSettings>>
    BY <1>10 DEF PoAudioSet, PoPricesChange, poVars, poPools
  <2> QED
    BY <2>1 DEF PoInv, PoKept, PoNested, PoTablesAgree, PoAgree, PoOrderTotal, PoIn
<1> QED
  BY <1>1, <1>3, <1>4, <1>5, <1>6, <1>7, <1>8, <1>9, <1>10 DEF PoNext, PoUser, PoSystem

\* The two tables of models agree on every row they share, and the order of a
\* pool is total, however seeding, migration and the user's changes follow each
\* other (services/model_preferences.py, ai/migration.py).
THEOREM TablesAgree == PoSpec => []PoTablesAgree
<1>1. PoInv => PoTablesAgree
  BY DEF PoInv
<1> QED
  BY <1>1, PoInitially, PoStep, PTL DEF PoSpec

\* No restart, listing or access of the settings replaces the strategy and the
\* fallback the user chose while a model is configured, because a row of the
\* table the router reads is always in the table that seeding looks at.
THEOREM StrategyKept == PoSpec => PoStrategyKept
<1>1. PoInv /\ [PoNext]_poVars =>
        [PoSystem /\ PoIn(poPrefs) # {} => UNCHANGED poSettings]_poVars
  <2> SUFFICES ASSUME PoInv, PoSystem, PoIn(poPrefs) # {} PROVE poSettings' = poSettings
    OBVIOUS
  <2>1. CASE PoSeeded \/ PoSettingsRead
    <3>1. PoSeed(poSettings)
      BY <2>1 DEF PoSeeded, PoSettingsRead
    <3> QED
      BY <3>1 DEF PoSeed, PoInv, PoNested
  <2>2. CASE PoPricesChange
    BY <2>2 DEF PoPricesChange, poPools
  <2> QED
    BY <2>1, <2>2 DEF PoSystem
<1> QED
  BY <1>1, PoInitially, PoStep, PTL DEF PoSpec, PoStrategyKept
-----------------------------------------------------------------------------
(* Requests and their accounting.                                           *)
HIDE PoAssumption
USE UsAssumption

UsAny == [job : UsJobs, call : Nat, kind : {"chat", "item"}, n : Nat]
UsResults == [1..UsItems -> {"good", "failed", "absent"}] \cup {<<>>}
UsPlaces == {"idle", "post", "sleep", "plain", "catalog", "submit", "poll", "items"}
UsCallOf == [at : UsPlaces, calls : Nat, n : Nat, late : BOOLEAN, results : UsResults]
UsHookOf == [job : UsJobs \cup {UsNo}, step : {"idle", "replay", "rewrite", "record", "queue"},
             answer : UsAny \cup {<<>>}, line : Nat \ {0}, kept : Seq(UsAny)]
UsTyped ==
  /\ usCall \in [UsJobs -> UsCallOf] /\ usHook \in UsHookOf
  /\ usRows \in [UsAnswers -> Nat] /\ usOutbox \in Seq(UsAny)

\* An answer nobody has been asked for yet, in the order its job asks.
UsFuture(a) == \/ usCall[a.job].calls < a.call
               \/ /\ usCall[a.job].calls = a.call /\ usCall[a.job].at # "idle"
                  /\ usCall[a.job].n < a.n
UsSetAside(a) == \E i \in DOMAIN usOutbox : usOutbox[i] = a

\* What is to come has left no trace; what the hook is to record has no row yet
\* and no line; the lines kept are lines of the outbox; and each chat line gone
\* through is kept or has its row.
UsNew == \A a \in UsAnswers :
  UsFuture(a) => usRows[a] = 0 /\ usHook.answer # a /\ ~UsSetAside(a)
UsToRecord == \A a \in UsAnswers :
  usHook.answer = a /\ usHook.step \in {"replay", "record"} => usRows[a] = 0 /\ ~UsSetAside(a)
UsHasAnswer == usHook.step \in {"record", "queue"} => usHook.answer # <<>>
UsKeptLines ==
  \A k \in DOMAIN usHook.kept : UsSetAside(usHook.kept[k])
UsGoneThrough == \A a \in UsAnswers : \A i \in DOMAIN usOutbox :
  usHook.step = "replay" /\ a.kind = "chat" /\ usOutbox[i] = a /\ i < usHook.line
    => usRows[a] > 0 \/ \E k \in DOMAIN usHook.kept : usHook.kept[k] = a
UsPlainFirst == \A j \in UsJobs : usCall[j].at = "plain" => usCall[j].n = 0
UsInv == UsTyped /\ UsPlainFirst /\ UsHasAnswer /\ UsOnce /\ UsNew /\ UsToRecord /\ UsKeptLines /\ UsGoneThrough

LEMMA UsAnswerIsAny == UsAnswers \subseteq UsAny
  BY DEF UsAnswers, UsAny

LEMMA UsNotEmpty == ASSUME NEW a \in UsAnswers PROVE a # <<>>
<1>1. DOMAIN a = {"job", "call", "kind", "n"}
  BY DEF UsAnswers
<1>2. DOMAIN <<>> = {}
  OBVIOUS
<1>3. "job" \in DOMAIN a
  BY <1>1
<1> QED
  BY <1>2, <1>3

LEMMA UsSilentTyped == UsSilent \in UsHookOf /\ UsSilent.answer = <<>> /\ UsSilent.step = "idle"
                       /\ UsSilent.kept = <<>>
<1>1. <<>> \in Seq(UsAny)
  OBVIOUS
<1> QED
  BY <1>1 DEF UsSilent, UsHookOf, UsNo

LEMMA UsRestTyped == UsRest \in UsCallOf
<1>1. <<>> \in UsResults
  BY DEF UsResults
<1> QED
  BY <1>1 DEF UsRest, UsCallOf, UsPlaces

LEMMA UsInitial == UsInit => UsInv
<1> SUFFICES ASSUME UsInit PROVE UsInv
  OBVIOUS
<1>1. UsRest \in UsCallOf
  BY UsRestTyped
<1>2. usHook \in UsHookOf /\ usHook.answer = <<>> /\ usHook.step = "idle" /\ usHook.kept = <<>>
  BY UsSilentTyped DEF UsInit
<1>3. usOutbox = <<>> /\ usOutbox \in Seq(UsAny)
  BY DEF UsInit
<1>4. usRows \in [UsAnswers -> Nat] /\ \A a \in UsAnswers : usRows[a] = 0
  BY DEF UsInit
<1>5. UsTyped
  BY <1>1, <1>2, <1>3, <1>4 DEF UsInit, UsTyped
<1>6. \A a \in UsAnswers : ~UsSetAside(a)
  BY <1>3 DEF UsSetAside
<1>7. UsOnce /\ UsNew /\ UsToRecord
  BY <1>2, <1>4, <1>6, UsNotEmpty DEF UsOnce, UsNew, UsToRecord
<1>8. UsKeptLines /\ UsGoneThrough
  BY <1>2 DEF UsKeptLines, UsGoneThrough
<1>9. UsPlainFirst /\ UsHasAnswer
  BY <1>2 DEF UsInit, UsRest, UsPlainFirst, UsHasAnswer
<1> QED
  BY <1>5, <1>7, <1>8, <1>9 DEF UsInv

\* A step of one job's coroutine: its next request, or on in the one it has.
UsOn(j) ==
  /\ usCall' \in [UsJobs -> UsCallOf]
  /\ \A i \in UsJobs \ {j} : usCall'[i] = usCall[i]
  /\ \/ usCall'[j].calls = usCall[j].calls + 1
     \/ /\ usCall'[j].calls = usCall[j].calls /\ usCall[j].at # "idle"
        /\ usCall'[j].at = "idle" \/ usCall[j].n <= usCall'[j].n
  /\ usCall'[j].at = "plain" => usCall'[j].n = 0

LEMMA UsFutureShrinks ==
  ASSUME UsTyped, NEW j \in UsJobs, UsOn(j), NEW a \in UsAnswers, UsFuture(a)'
  PROVE  UsFuture(a)
<1>1. a.job \in UsJobs /\ a.call \in Nat /\ a.n \in Nat
  BY DEF UsAnswers
<1>2. usCall[a.job] \in UsCallOf /\ usCall'[a.job] \in UsCallOf
  BY <1>1 DEF UsTyped, UsOn
<1>3. /\ usCall[a.job].calls \in Nat /\ usCall'[a.job].calls \in Nat
      /\ usCall[a.job].n \in Nat /\ usCall'[a.job].n \in Nat
  BY <1>2 DEF UsCallOf
<1>4. CASE a.job # j
  BY <1>1, <1>4 DEF UsOn, UsFuture
<1>5. CASE a.job = j
  BY <1>1, <1>3, <1>5 DEF UsOn, UsFuture
<1> QED
  BY <1>4, <1>5

LEMMA UsPlainOn ==
  ASSUME UsPlainFirst, NEW j \in UsJobs, UsOn(j)
  PROVE  UsPlainFirst'
BY DEF UsPlainFirst, UsOn

\* Nothing but the coroutine.
LEMMA UsQuiet ==
  ASSUME UsInv, NEW j \in UsJobs, UsOn(j), UNCHANGED <<usHook, usRows, usOutbox>>
  PROVE  UsInv'
<1>1. UsTyped' /\ UsPlainFirst'
  BY UsPlainOn DEF UsInv, UsTyped, UsOn
<1>2. \A a \in UsAnswers : UsSetAside(a)' = UsSetAside(a)
  BY DEF UsSetAside
<1>3. UsNew'
  BY <1>2, UsFutureShrinks DEF UsInv, UsNew
<1>4. UsOnce' /\ UsToRecord' /\ UsHasAnswer'
  BY <1>2 DEF UsInv, UsOnce, UsToRecord, UsHasAnswer
<1>5. UsKeptLines' /\ UsGoneThrough'
  BY DEF UsInv, UsKeptLines, UsGoneThrough, UsSetAside
<1> QED
  BY <1>1, <1>3, <1>4, <1>5 DEF UsInv

\* The hook is called: with no answer, or with one that was to come.
LEMMA UsEmits ==
  ASSUME UsInv, NEW j \in UsJobs, UsOn(j), usHook = UsSilent, UNCHANGED <<usRows, usOutbox>>,
         NEW answer \in UsAny \cup {<<>>}, UsEmit(j, answer),
         answer \in UsAnswers => UsFuture(answer) /\ ~UsFuture(answer)'
  PROVE  UsInv'
<1>1. /\ usHook'.answer = answer /\ usHook'.step = "replay" /\ usHook'.kept = <<>>
      /\ usHook'.line = 1 /\ usHook' \in UsHookOf
  <2>1. usHook' = [job |-> j, step |-> "replay", answer |-> answer, line |-> 1, kept |-> <<>>]
    BY DEF UsEmit, UsSilent
  <2>2. <<>> \in Seq(UsAny)
    OBVIOUS
  <2> QED
    BY <2>1, <2>2 DEF UsHookOf
<1>2. UsTyped' /\ UsPlainFirst'
  BY <1>1, UsPlainOn DEF UsInv, UsTyped, UsOn
<1>3. \A a \in UsAnswers : UsSetAside(a)' = UsSetAside(a)
  BY DEF UsSetAside
<1>4. UsNew'
  BY <1>1, <1>3, UsFutureShrinks DEF UsInv, UsNew
<1>5. UsOnce' /\ UsToRecord'
  BY <1>1, <1>3 DEF UsInv, UsOnce, UsToRecord, UsNew
<1>6. UsKeptLines' /\ UsHasAnswer'
  BY <1>1 DEF UsKeptLines, UsHasAnswer
<1>7. UsGoneThrough'
  <2> SUFFICES ASSUME NEW i \in DOMAIN usOutbox PROVE ~(i < 1)
    BY <1>1 DEF UsGoneThrough
  <2> QED
    BY DEF UsInv, UsTyped
<1> QED
  BY <1>2, <1>4, <1>5, <1>6, <1>7 DEF UsInv

LEMMA UsKeyTyped ==
  ASSUME UsTyped, NEW j \in UsJobs, NEW kind \in {"chat", "item"}, NEW n \in Nat,
         usCall[j].n < n, usCall[j].at # "idle"
  PROVE  UsKey(j, kind, n) \in UsAny /\ UsFuture(UsKey(j, kind, n))
<1>1. usCall[j].calls \in Nat
  BY DEF UsTyped, UsCallOf
<1> QED
  BY <1>1 DEF UsKey, UsAny, UsFuture

\* The ends of a coroutine's steps.
LEMMA UsOverOn ==
  ASSUME UsTyped, NEW j \in UsJobs, UsOver(j), usCall[j].at # "idle"
  PROVE  UsOn(j) /\ usCall'[j].at = "idle" /\ usCall'[j].calls = usCall[j].calls
<1>1. usCall[j] \in UsCallOf
  BY DEF UsTyped
<1>2. [UsRest EXCEPT !.calls = usCall[j].calls] \in UsCallOf
  BY <1>1, UsRestTyped DEF UsCallOf
<1>3. [UsRest EXCEPT !.calls = usCall[j].calls].calls = usCall[j].calls
  BY DEF UsRest
<1>4. [UsRest EXCEPT !.calls = usCall[j].calls].at = "idle"
  BY DEF UsRest
<1>5. /\ usCall' \in [UsJobs -> UsCallOf] /\ \A i \in UsJobs \ {j} : usCall'[i] = usCall[i]
      /\ usCall'[j] = [UsRest EXCEPT !.calls = usCall[j].calls]
  BY <1>2 DEF UsOver, UsTyped
<1> QED
  BY <1>3, <1>4, <1>5 DEF UsOn

LEMMA UsGoOn ==
  ASSUME UsTyped, NEW j \in UsJobs, NEW at \in UsPlaces \ {"plain"}, UsGo(j, at), usCall[j].at # "idle"
  PROVE  UsOn(j)
<1>1. usCall[j] \in UsCallOf
  BY DEF UsTyped
<1>2. [usCall[j] EXCEPT !.at = at] \in UsCallOf
  BY <1>1 DEF UsCallOf
<1>3. /\ [usCall[j] EXCEPT !.at = at].calls = usCall[j].calls
      /\ [usCall[j] EXCEPT !.at = at].n = usCall[j].n /\ usCall[j].n \in Nat
      /\ [usCall[j] EXCEPT !.at = at].at = at
  BY <1>1 DEF UsCallOf
<1>4. /\ usCall' \in [UsJobs -> UsCallOf] /\ \A i \in UsJobs \ {j} : usCall'[i] = usCall[i]
      /\ usCall'[j] = [usCall[j] EXCEPT !.at = at]
  BY <1>2 DEF UsGo, UsTyped
<1> QED
  BY <1>3, <1>4 DEF UsOn

\* The next request: a key of its own.
LEMMA UsStartOn ==
  ASSUME UsTyped, NEW j \in UsJobs, NEW kind \in UsPlaces, UsCallStart(j, kind)
  PROVE  UsOn(j)
<1>1. usCall[j].calls \in Nat
  BY DEF UsTyped, UsCallOf
<1>2. PICK call : call = [UsRest EXCEPT !.at = kind, !.calls = usCall[j].calls + 1]
  OBVIOUS
<1>3. call = [at |-> kind, calls |-> usCall[j].calls + 1, n |-> 0, late |-> FALSE, results |-> <<>>]
  BY <1>2 DEF UsRest
<1>4. call \in UsCallOf
  <2>1. <<>> \in UsResults
    BY DEF UsResults
  <2> QED
    BY <1>1, <1>3, <2>1 DEF UsCallOf
<1>5. call.calls = usCall[j].calls + 1 /\ call.n = 0
  BY <1>3
<1>6. /\ usCall' \in [UsJobs -> UsCallOf] /\ \A i \in UsJobs \ {j} : usCall'[i] = usCall[i]
      /\ usCall'[j] = call
  BY <1>2, <1>4 DEF UsCallStart, UsTyped
<1> QED
  BY <1>5, <1>6 DEF UsOn

\* The n-th attempt or result, with the place the coroutine goes to.
LEMMA UsNth ==
  ASSUME UsTyped, NEW j \in UsJobs, NEW n \in Nat, n = usCall[j].n + 1, usCall[j].at # "idle",
         NEW at \in UsPlaces \ {"plain"}, NEW call, call = [usCall[j] EXCEPT !.n = n, !.at = at],
         usCall' = [usCall EXCEPT ![j] = call]
  PROVE  UsOn(j) /\ usCall'[j].n = n /\ usCall'[j].calls = usCall[j].calls
<1>1. usCall[j] \in UsCallOf
  BY DEF UsTyped
<1>2. call \in UsCallOf
  BY <1>1 DEF UsCallOf
<1>3. call.calls = usCall[j].calls /\ call.n = n /\ call.at = at /\ usCall[j].n \in Nat
  BY <1>1 DEF UsCallOf
<1>4. /\ usCall' \in [UsJobs -> UsCallOf] /\ \A i \in UsJobs \ {j} : usCall'[i] = usCall[i]
      /\ usCall'[j] = call
  BY <1>2 DEF UsTyped
<1> QED
  BY <1>3, <1>4 DEF UsOn

LEMMA UsNoLonger ==
  ASSUME UsTyped, NEW j \in UsJobs, NEW kind \in {"chat", "item"}, NEW n \in Nat,
         NEW answer, answer = UsKey(j, kind, n),
         usCall'[j].calls = usCall[j].calls, usCall'[j].at = "idle" \/ usCall'[j].n = n
  PROVE  ~UsFuture(answer)'
<1>1. usCall[j].calls \in Nat
  BY DEF UsTyped, UsCallOf
<1>2. answer.job = j /\ answer.call = usCall[j].calls /\ answer.n = n
  BY DEF UsKey
<1> QED
  BY <1>1, <1>2 DEF UsFuture

\* The steps that emit.
LEMMA UsPostStep ==
  ASSUME UsInv, NEW j \in UsJobs, UsPost(j)
  PROVE  UsInv'
<1>0. UsTyped /\ usCall[j].at = "post" /\ usHook = UsSilent /\ usCall[j].n \in Nat
  BY DEF UsInv, UsPost, UsAt, UsTurn, UsTyped, UsCallOf
<1>. PICK n \in Nat : n = usCall[j].n + 1
  BY <1>0
<1>1. UsTyped /\ usCall[j].at # "idle" /\ usHook = UsSilent /\ usCall[j].n < n
  BY <1>0
<1>2. UNCHANGED <<usRows, usOutbox>>
  BY DEF UsPost
<1>3. PICK key : key = UsKey(j, "chat", n)
  OBVIOUS
<1>4. key \in UsAny /\ UsFuture(key)
  BY <1>1, <1>3, UsKeyTyped
<1>5. UsOver(j) \/ usCall' = [usCall EXCEPT ![j] = [usCall[j] EXCEPT !.n = n, !.at = "sleep"]]
  <2>1. usCall[j] \in UsCallOf
    BY <1>1 DEF UsTyped
  <2> QED
    BY <1>1, <2>1 DEF UsPost, UsTyped
<1>6. UsOn(j) /\ usCall'[j].calls = usCall[j].calls /\ (usCall'[j].at = "idle" \/ usCall'[j].n = n)
  <2>1. CASE UsOver(j)
    BY <1>1, <2>1, UsOverOn
  <2>2. CASE usCall' = [usCall EXCEPT ![j] = [usCall[j] EXCEPT !.n = n, !.at = "sleep"]]
    <3>1. "sleep" \in UsPlaces \ {"plain"}
      BY DEF UsPlaces
    <3> QED
      BY <1>1, <2>2, <3>1, UsNth
  <2> QED
    BY <1>5, <2>1, <2>2
<1>7. ~UsFuture(key)'
  BY <1>1, <1>3, <1>6, UsNoLonger
<1>8. PICK answer \in {key, <<>>} : UsEmit(j, answer)
  BY <1>3 DEF UsPost
<1>9. answer \in UsAnswers => answer = key
  BY UsNotEmpty
<1> QED
  BY <1>1, <1>2, <1>4, <1>6, <1>7, <1>8, <1>9, UsEmits

\* An event without tokens is not an answer.
LEMMA UsEmitsNone ==
  ASSUME UsInv, NEW j \in UsJobs, UsOn(j), usHook = UsSilent, UNCHANGED <<usRows, usOutbox>>,
         UsEmit(j, <<>>)
  PROVE  UsInv'
<1>1. <<>> \notin UsAnswers
  BY UsNotEmpty
<1> QED
  BY <1>1, UsEmits

LEMMA UsItemStep ==
  ASSUME UsInv, NEW j \in UsJobs, UsItem(j)
  PROVE  UsInv'
<1>0. UsTyped /\ usCall[j].at = "items" /\ usHook = UsSilent /\ usCall[j].n \in Nat
  BY DEF UsInv, UsItem, UsAt, UsTurn, UsTyped, UsCallOf
<1>. PICK n \in Nat : n = usCall[j].n + 1
  BY <1>0
<1>1. UsTyped /\ usCall[j].at # "idle" /\ usHook = UsSilent /\ usCall[j].n < n
  BY <1>0
<1>2. UNCHANGED <<usRows, usOutbox>>
  BY DEF UsItem
<1>3. PICK key : key = UsKey(j, "item", n)
  OBVIOUS
<1>4. key \in UsAny /\ UsFuture(key)
  BY <1>1, <1>3, UsKeyTyped
<1>5. UsOver(j) \/ usCall' = [usCall EXCEPT ![j] = [usCall[j] EXCEPT !.n = n, !.at = "items"]]
  <2>1. usCall[j] \in UsCallOf
    BY <1>1 DEF UsTyped
  <2>2. [usCall[j] EXCEPT !.n = n] = [usCall[j] EXCEPT !.n = n, !.at = "items"]
    BY <1>0, <2>1 DEF UsCallOf
  <2> QED
    BY <2>2 DEF UsItem
<1>6. UsOn(j) /\ usCall'[j].calls = usCall[j].calls /\ (usCall'[j].at = "idle" \/ usCall'[j].n = n)
  <2>1. CASE UsOver(j)
    BY <1>1, <2>1, UsOverOn
  <2>2. CASE usCall' = [usCall EXCEPT ![j] = [usCall[j] EXCEPT !.n = n, !.at = "items"]]
    <3>1. "items" \in UsPlaces \ {"plain"}
      BY DEF UsPlaces
    <3> QED
      BY <1>1, <2>2, <3>1, UsNth
  <2> QED
    BY <1>5, <2>1, <2>2
<1>7. ~UsFuture(key)'
  BY <1>1, <1>3, <1>6, UsNoLonger
<1>8. CASE UNCHANGED usHook
  BY <1>2, <1>6, <1>8, UsQuiet
<1>9. CASE \E answer \in {key, <<>>} : UsEmit(j, answer)
  <2>1. PICK answer \in {key, <<>>} : UsEmit(j, answer)
    BY <1>9
  <2>2. answer \in UsAnswers => answer = key
    BY UsNotEmpty
  <2> QED
    BY <1>1, <1>2, <1>4, <1>6, <1>7, <2>1, <2>2, UsEmits
<1> QED
  BY <1>3, <1>8, <1>9 DEF UsItem

\* A batch's results come.
LEMMA UsResultsOn ==
  ASSUME UsTyped, NEW j \in UsJobs, usCall[j].at # "idle", NEW results \in UsResults,
         usCall' = [usCall EXCEPT ![j].at = "items", ![j].results = results]
  PROVE  UsOn(j)
<1>1. usCall[j] \in UsCallOf
  BY DEF UsTyped
<1>2. PICK call : call = [usCall[j] EXCEPT !.at = "items", !.results = results]
  OBVIOUS
<1>3. call \in UsCallOf /\ call.calls = usCall[j].calls /\ call.n = usCall[j].n /\ usCall[j].n \in Nat
      /\ call.at = "items"
  BY <1>1, <1>2 DEF UsCallOf, UsPlaces
<1>4. usCall' = [usCall EXCEPT ![j] = call]
  BY <1>1, <1>2 DEF UsTyped
<1>5. /\ usCall' \in [UsJobs -> UsCallOf] /\ \A i \in UsJobs \ {j} : usCall'[i] = usCall[i]
      /\ usCall'[j] = call
  BY <1>3, <1>4 DEF UsTyped
<1> QED
  BY <1>3, <1>5 DEF UsOn

LEMMA UsLateOn ==
  ASSUME UsTyped, NEW j \in UsJobs, UsLate(j)
  PROVE  UsOn(j)
<1>1. usCall[j] \in UsCallOf /\ usCall[j].at = "poll"
  BY DEF UsTyped, UsLate, UsAt
<1>2. PICK call : call = [usCall[j] EXCEPT !.late = TRUE]
  OBVIOUS
<1>3. call \in UsCallOf /\ call.calls = usCall[j].calls /\ call.n = usCall[j].n /\ usCall[j].n \in Nat
      /\ call.at = "poll"
  BY <1>1, <1>2 DEF UsCallOf
<1>4. /\ usCall' \in [UsJobs -> UsCallOf] /\ \A i \in UsJobs \ {j} : usCall'[i] = usCall[i]
      /\ usCall'[j] = call
  BY <1>2, <1>3 DEF UsLate, UsTyped
<1> QED
  BY <1>1, <1>3, <1>4 DEF UsOn

\* Every step of a coroutine but the answer of a plain provider.
LEMMA UsCoroutineStep ==
  ASSUME UsInv, NEW j \in UsJobs,
         \/ UsChat(j) /\ ~UsPlain(j)
         \/ UsBatch(j) \/ UsLate(j) \/ UsCancelled(j)
         \/ \E kind \in {"post", "plain", "catalog", "submit"} : UsCallStart(j, kind)
  PROVE  UsInv'
<1>1. UsTyped
  BY DEF UsInv
<1>2. CASE UsPost(j)
  BY <1>2, UsPostStep
<1>3. CASE UsSlept(j)
  <2>1. usCall[j].at # "idle" /\ UNCHANGED <<usHook, usRows, usOutbox>> /\ (UsOver(j) \/ UsGo(j, "post"))
    BY <1>3 DEF UsSlept, UsAt
  <2>2. "post" \in UsPlaces \ {"plain"}
    BY DEF UsPlaces
  <2> QED
    BY <1>1, <2>1, <2>2, UsOverOn, UsGoOn, UsQuiet
<1>4. CASE UsCatalog(j) \/ UsItemsRead(j)
  <2>1. /\ usCall[j].at # "idle" /\ UNCHANGED <<usRows, usOutbox>> /\ UsOver(j)
        /\ usHook = UsSilent /\ (UsEmit(j, <<>>) \/ UNCHANGED usHook)
    BY <1>4 DEF UsCatalog, UsItemsRead, UsAt, UsTurn
  <2> QED
    BY <1>1, <2>1, UsOverOn, UsEmitsNone, UsQuiet
<1>5. CASE UsSubmit(j)
  <2>1. /\ usCall[j].at # "idle" /\ UNCHANGED <<usRows, usOutbox>> /\ usHook = UsSilent
        /\ UsEmit(j, <<>>) /\ (UsGo(j, "poll") \/ UsOver(j))
    BY <1>5 DEF UsSubmit, UsAt, UsTurn
  <2>2. "poll" \in UsPlaces \ {"plain"}
    BY DEF UsPlaces
  <2> QED
    BY <1>1, <2>1, <2>2, UsOverOn, UsGoOn, UsEmitsNone
<1>6. CASE UsPoll(j)
  <2>1. /\ usCall[j].at = "poll" /\ UNCHANGED <<usRows, usOutbox>> /\ usHook = UsSilent
        /\ UsEmit(j, <<>>)
    BY <1>6 DEF UsPoll, UsAt, UsTurn
  <2>2. UsOn(j)
    <3>1. CASE UNCHANGED usCall
      BY <1>1, <2>1, <3>1 DEF UsOn, UsTyped, UsCallOf
    <3>2. CASE UsOver(j)
      BY <1>1, <2>1, <3>2, UsOverOn
    <3>3. CASE \E results \in UsResults :
                 usCall' = [usCall EXCEPT ![j].at = "items", ![j].results = results]
      BY <1>1, <2>1, <3>3, UsResultsOn
    <3> QED
      BY <1>6, <3>1, <3>2, <3>3 DEF UsPoll, UsResults
  <2> QED
    BY <2>1, <2>2, UsEmitsNone
<1>7. CASE UsGivenUp(j) \/ UsCancelled(j)
  <2>1. usCall[j].at # "idle" /\ UNCHANGED <<usHook, usRows, usOutbox>> /\ UsOver(j)
    BY <1>7 DEF UsGivenUp, UsCancelled, UsAt
  <2> QED
    BY <1>1, <2>1, UsOverOn, UsQuiet
<1>8. CASE UsItem(j)
  BY <1>8, UsItemStep
<1>9. CASE UsLate(j)
  BY <1>1, <1>9, UsLateOn, UsQuiet DEF UsLate
<1>10. CASE \E kind \in {"post", "plain", "catalog", "submit"} : UsCallStart(j, kind)
  <2>1. PICK kind \in UsPlaces : UsCallStart(j, kind)
    BY <1>10 DEF UsPlaces
  <2> QED
    BY <1>1, <2>1, UsStartOn, UsQuiet DEF UsCallStart
<1> QED
  BY <1>2, <1>3, <1>4, <1>5, <1>6, <1>7, <1>8, <1>9, <1>10 DEF UsChat, UsBatch

LEMMA UsPlainStep ==
  ASSUME UsInv, NEW j \in UsJobs, UsPlain(j)
  PROVE  UsInv'
<1>1. UsTyped /\ usCall[j].at = "plain" /\ usHook = UsSilent /\ usCall[j].n \in Nat
  BY DEF UsInv, UsPlain, UsAt, UsTurn, UsTyped, UsCallOf
<1>2. UsOn(j) /\ usCall'[j].calls = usCall[j].calls /\ usCall'[j].at = "idle"
  BY <1>1, UsOverOn DEF UsPlain
<1>3. PICK key : key = UsKey(j, "chat", 1)
  OBVIOUS
<1>4. CASE UNCHANGED usRows
  BY <1>2, <1>4, UsQuiet DEF UsPlain
<1>5. CASE UsBook(key)
  <2>1. usHook.answer = <<>> /\ usHook.kept = <<>> /\ usHook.step = "idle" /\ UNCHANGED <<usHook, usOutbox>>
    BY <1>1, <1>5, UsSilentTyped DEF UsPlain
  <2>2. /\ usRows' \in [UsAnswers -> Nat]
        /\ \A a \in UsAnswers : usRows'[a] = usRows[a] \/ (a = key /\ usRows'[a] = usRows[a] + 1)
    <3>1. usRows \in [UsAnswers -> Nat] /\ usRows' = [usRows EXCEPT ![key] = usRows[key] + 1]
      BY <1>1, <1>5 DEF UsBook, UsTyped
    <3>2. CASE key \in UsAnswers
      BY <3>1, <3>2
    <3>3. CASE key \notin UsAnswers
      BY <3>1, <3>3
    <3> QED
      BY <3>2, <3>3
  <2>3. UsTyped' /\ UsPlainFirst'
    BY <1>1, <1>2, <2>1, <2>2, UsPlainOn DEF UsInv, UsTyped, UsOn
  <2>4. \A a \in UsAnswers : UsSetAside(a)' = UsSetAside(a)
    BY <2>1 DEF UsSetAside
  <2>5. key \in UsAnswers => usRows[key] = 0
    \* asked for as the first attempt of a request that has had none
    <3>1. usCall[j].n = 0
      BY <1>1 DEF UsInv, UsPlainFirst
    <3>2. UsFuture(key)
      <4>1. UsTyped /\ usCall[j].n < 1 /\ usCall[j].at # "idle"
        BY <1>1, <3>1
      <4>2. 1 \in Nat /\ "chat" \in {"chat", "item"}
        OBVIOUS
      <4>3. UsFuture(UsKey(j, "chat", 1))
        BY <4>1, <4>2, UsKeyTyped
      <4> QED
        BY <1>3, <4>3
    <3> QED
      BY <3>2 DEF UsInv, UsNew
  <2>6. UsOnce'
    BY <1>1, <2>2, <2>5 DEF UsInv, UsOnce, UsTyped
  <2>7. ~UsFuture(key)'
    BY <1>1, <1>2, <1>3, UsNoLonger
  <2>8. UsNew'
    BY <1>1, <1>2, <2>1, <2>2, <2>4, <2>7, UsFutureShrinks DEF UsInv, UsNew
  <2>9. UsToRecord' /\ UsKeptLines' /\ UsGoneThrough' /\ UsHasAnswer'
    BY <2>1 DEF UsToRecord, UsKeptLines, UsGoneThrough, UsHasAnswer
  <2> QED
    BY <2>3, <2>6, <2>8, <2>9 DEF UsInv
<1> QED
  BY <1>3, <1>4, <1>5 DEF UsPlain

\* The hook.
LEMMA UsReplayStep ==
  ASSUME UsInv, UsReplay
  PROVE  UsInv'
<1>1. /\ UsTyped /\ usHook.step = "replay" /\ usHook.line \in Nat \ {0} /\ usHook.kept \in Seq(UsAny)
      /\ usHook.line \in DOMAIN usOutbox
  BY DEF UsInv, UsReplay, UsTyped, UsHookOf
<1>2. PICK line \in UsAny : line = UsLine
  BY <1>1 DEF UsLine, UsTyped
<1>3. PICK kept \in {usHook.kept, Append(usHook.kept, line)} :
        /\ UsReplayed(kept)
        /\ kept = usHook.kept => UsKnown(line) \/ (~UsKnown(line) /\ UsBook(line))
        /\ UNCHANGED usRows \/ (~UsKnown(line) /\ UsBook(line))
  BY <1>2 DEF UsReplay
<1>4. kept \in Seq(UsAny)
  BY <1>1
<1>5. /\ usHook' \in UsHookOf /\ usHook'.answer = usHook.answer /\ usHook'.step = "replay"
      /\ usHook'.line = usHook.line + 1 /\ usHook'.kept = kept
  <2>1. usHook \in UsHookOf
    BY <1>1 DEF UsTyped
  <2>2. usHook' = [job |-> usHook.job, step |-> usHook.step, answer |-> usHook.answer,
                   line |-> usHook.line + 1, kept |-> kept]
    BY <1>3, <2>1 DEF UsReplayed, UsHookOf
  <2> QED
    BY <1>1, <1>4, <2>1, <2>2 DEF UsHookOf
<1>6. UNCHANGED <<usCall, usOutbox>>
  BY DEF UsReplay
<1>7. /\ usRows' \in [UsAnswers -> Nat]
      /\ \A a \in UsAnswers : usRows'[a] = usRows[a] \/ (a = line /\ usRows'[a] = usRows[a] + 1)
  BY <1>1, <1>3 DEF UsBook, UsTyped
<1>8. \A a \in UsAnswers : a = line /\ ~UsKnown(line) => usRows[a] = 0
  BY <1>1 DEF UsKnown, UsSame, UsTyped
<1>9. UsSetAside(line) /\ \A a : UsSetAside(a)' = UsSetAside(a)
  BY <1>1, <1>2, <1>6 DEF UsSetAside, UsLine
<1>10. UsTyped' /\ UsPlainFirst'
  BY <1>1, <1>5, <1>6, <1>7 DEF UsInv, UsTyped, UsPlainFirst
<1>11. UsOnce'
  BY <1>1, <1>3, <1>7, <1>8 DEF UsInv, UsOnce, UsBook, UsTyped
<1>12. UsNew'
  BY <1>5, <1>6, <1>7, <1>9 DEF UsInv, UsNew, UsFuture
<1>13. UsToRecord' /\ UsHasAnswer'
  BY <1>1, <1>5, <1>7, <1>9 DEF UsInv, UsToRecord, UsHasAnswer
<1>14. UsKeptLines'
  <2> SUFFICES ASSUME NEW k \in DOMAIN kept PROVE UsSetAside(kept[k])
    BY <1>5, <1>9 DEF UsKeptLines
  <2>1. CASE kept = usHook.kept
    BY <2>1 DEF UsInv, UsKeptLines
  <2>2. CASE kept = Append(usHook.kept, line)
    <3>1. kept[k] = line \/ (k \in DOMAIN usHook.kept /\ kept[k] = usHook.kept[k])
      BY <1>1, <2>2
    <3> QED
      BY <1>9, <3>1 DEF UsInv, UsKeptLines
  <2> QED
    BY <2>1, <2>2
<1>15. UsGoneThrough'
  <2> SUFFICES ASSUME NEW a \in UsAnswers, NEW i \in DOMAIN usOutbox, a.kind = "chat",
                      usOutbox[i] = a, i < usHook.line + 1
               PROVE  usRows'[a] > 0 \/ \E k \in DOMAIN kept : kept[k] = a
    BY <1>5, <1>6 DEF UsGoneThrough
  <2>1. CASE i < usHook.line
    <3>1. usRows[a] > 0 \/ \E k \in DOMAIN usHook.kept : usHook.kept[k] = a
      BY <1>1, <2>1 DEF UsInv, UsGoneThrough
    <3>2. \A k \in DOMAIN usHook.kept : k \in DOMAIN kept /\ kept[k] = usHook.kept[k]
      BY <1>1
    <3>3. usRows'[a] >= usRows[a] /\ usRows[a] \in Nat
      BY <1>1, <1>7 DEF UsTyped
    <3> QED
      BY <1>7, <3>1, <3>2, <3>3
  <2>2. CASE i = usHook.line
    <3>1. a = line
      BY <1>2, <2>2 DEF UsLine
    <3>2. CASE kept = usHook.kept
      <4>1. UsKnown(line) => usRows[a] > 0
        BY <3>1 DEF UsKnown, UsSame
      <4>2. UsBook(line) => usRows'[a] = usRows[a] + 1
        BY <1>1, <3>1 DEF UsBook, UsTyped
      <4>3. usRows'[a] >= usRows[a] /\ usRows[a] \in Nat /\ usRows'[a] \in Nat
        BY <1>1, <1>7, SMTT(30) DEF UsTyped
      <4> QED
        BY <1>3, <3>2, <4>1, <4>2, <4>3
    <3>3. CASE kept = Append(usHook.kept, line)
      <4>1. Len(usHook.kept) + 1 \in DOMAIN kept /\ kept[Len(usHook.kept) + 1] = line
        BY <1>1, <3>3
      <4> QED
        BY <3>1, <4>1
    <3> QED
      BY <3>2, <3>3
  <2> QED
    BY <1>1, <2>1, <2>2 DEF UsTyped
<1> QED
  BY <1>10, <1>11, <1>12, <1>13, <1>14, <1>15 DEF UsInv

LEMMA UsRewriteStep ==
  ASSUME UsInv, UsRewrite
  PROVE  UsInv'
<1>1. UsTyped /\ usHook \in UsHookOf /\ usHook.step = "replay" /\ usHook.kept \in Seq(UsAny)
  BY DEF UsInv, UsRewrite, UsTyped, UsHookOf
<1>2. UNCHANGED <<usCall, usRows>> /\ (usOutbox' = usHook.kept \/ UNCHANGED usOutbox)
  BY DEF UsRewrite
<1>3. \A a : UsSetAside(a)' => UsSetAside(a)
  <2>1. CASE UNCHANGED usOutbox
    BY <2>1 DEF UsSetAside
  <2>2. CASE usOutbox' = usHook.kept
    BY <2>2 DEF UsSetAside, UsInv, UsKeptLines
  <2> QED
    BY <1>2, <2>1, <2>2
<1>4. \/ usHook' = UsSilent
      \/ /\ usHook'.answer = usHook.answer /\ usHook'.answer # <<>> /\ usHook'.step = "record"
         /\ usHook' \in UsHookOf /\ usHook'.kept = usHook.kept /\ usHook' = [usHook EXCEPT !.step = "record"]
  BY <1>1 DEF UsRewrite, UsHookOf
<1>5. UsTyped' /\ UsPlainFirst'
  BY <1>1, <1>2, <1>4, UsSilentTyped DEF UsInv, UsTyped, UsPlainFirst
<1>6. UsOnce'
  BY <1>2 DEF UsInv, UsOnce
<1>7. UsNew'
  <2>1. \A a \in UsAnswers : usHook'.answer = a => usHook.answer = a
    BY <1>4, UsSilentTyped, UsNotEmpty
  <2> QED
    BY <1>2, <1>3, <2>1 DEF UsInv, UsNew, UsFuture
<1>8. UsToRecord'
  BY <1>1, <1>2, <1>3, <1>4, UsSilentTyped, UsNotEmpty DEF UsInv, UsToRecord
<1>9. UsKeptLines'
  <2>1. CASE usHook' = UsSilent
    BY <2>1, UsSilentTyped DEF UsKeptLines
  <2>2. CASE usHook'.kept = usHook.kept /\ UNCHANGED usOutbox
    BY <2>2 DEF UsInv, UsKeptLines, UsSetAside
  <2>3. CASE usHook'.kept = usHook.kept /\ usOutbox' = usHook.kept
    BY <2>3 DEF UsKeptLines, UsSetAside
  <2> QED
    BY <1>2, <1>4, <2>1, <2>2, <2>3
<1>10. UsGoneThrough' /\ UsHasAnswer'
  BY <1>4, UsSilentTyped DEF UsGoneThrough, UsHasAnswer
<1> QED
  BY <1>5, <1>6, <1>7, <1>8, <1>9, <1>10 DEF UsInv

LEMMA UsRecordStep ==
  ASSUME UsInv, UsRecord
  PROVE  UsInv'
<1>1. /\ UsTyped /\ usHook \in UsHookOf /\ usHook.step = "record"
      /\ usRows \in [UsAnswers -> Nat]
  BY DEF UsInv, UsRecord, UsTyped
<1>2. UNCHANGED <<usCall, usOutbox>> /\ (UNCHANGED usRows \/ UsBook(usHook.answer))
  BY DEF UsRecord
<1>3. /\ usRows' \in [UsAnswers -> Nat]
      /\ \A a \in UsAnswers :
           usRows'[a] = usRows[a] \/ (a = usHook.answer /\ usRows'[a] = usRows[a] + 1)
  <2>1. CASE UNCHANGED usRows
    BY <1>1, <2>1
  <2>2. CASE UsBook(usHook.answer)
    <3>1. PICK key : key = usHook.answer
      OBVIOUS
    <3>2. usRows' = [usRows EXCEPT ![key] = usRows[key] + 1]
      BY <2>2, <3>1 DEF UsBook
    <3>3. CASE key \in UsAnswers
      BY <1>1, <3>1, <3>2, <3>3
    <3>4. CASE key \notin UsAnswers
      BY <1>1, <3>1, <3>2, <3>4
    <3> QED
      BY <3>3, <3>4
  <2> QED
    BY <1>2, <2>1, <2>2
<1>4. \A a : UsSetAside(a)' = UsSetAside(a)
  BY <1>2 DEF UsSetAside
<1>5. \/ usHook' = UsSilent
      \/ /\ usHook' = [usHook EXCEPT !.step = "queue"]
         /\ usHook'.answer = usHook.answer /\ usHook'.step = "queue"
         /\ usHook' \in UsHookOf /\ usHook'.kept = usHook.kept
  BY <1>1 DEF UsRecord, UsHookOf
<1>6. UsTyped' /\ UsPlainFirst'
  BY <1>1, <1>2, <1>3, <1>5, UsSilentTyped DEF UsInv, UsTyped, UsPlainFirst
<1>7. UsOnce'
  BY <1>1, <1>3 DEF UsInv, UsOnce, UsToRecord
<1>8. UsNew'
  <2>1. \A a \in UsAnswers : usHook'.answer = a => usHook.answer = a
    BY <1>5, UsSilentTyped, UsNotEmpty
  <2> QED
    BY <1>2, <1>3, <1>4, <2>1 DEF UsInv, UsNew, UsFuture
<1>9. UsToRecord' /\ UsGoneThrough' /\ UsHasAnswer'
  BY <1>1, <1>5, UsSilentTyped DEF UsInv, UsToRecord, UsGoneThrough, UsHasAnswer
<1>10. UsKeptLines'
  <2>1. CASE usHook' = UsSilent
    BY <2>1, UsSilentTyped DEF UsKeptLines
  <2>2. CASE usHook'.kept = usHook.kept
    BY <1>2, <2>2 DEF UsInv, UsKeptLines, UsSetAside
  <2> QED
    BY <1>5, <2>1, <2>2
<1> QED
  BY <1>6, <1>7, <1>8, <1>9, <1>10 DEF UsInv

LEMMA UsQueueStep ==
  ASSUME UsInv, UsQueue
  PROVE  UsInv'
<1>1. UsTyped /\ usHook \in UsHookOf /\ usHook.step = "queue" /\ usHook' = UsSilent
  BY DEF UsInv, UsQueue, UsTyped
<1>2. /\ UNCHANGED <<usCall, usRows>>
      /\ UNCHANGED usOutbox \/ usOutbox' = Append(usOutbox, usHook.answer)
  BY DEF UsQueue
<1>3. \A a \in UsAnswers : UsSetAside(a)' => UsSetAside(a) \/ usHook.answer = a
  <2>1. CASE UNCHANGED usOutbox
    BY <2>1 DEF UsSetAside
  <2>2. CASE usOutbox' = Append(usOutbox, usHook.answer)
    <3>1. usOutbox \in Seq(UsAny)
      BY <1>1 DEF UsTyped
    <3>2. \A i \in DOMAIN usOutbox' :
            usOutbox'[i] = usHook.answer \/ (i \in DOMAIN usOutbox /\ usOutbox'[i] = usOutbox[i])
      BY <2>2, <3>1
    <3> QED
      BY <3>2 DEF UsSetAside
  <2> QED
    BY <1>2, <2>1, <2>2
<1>4. usOutbox' \in Seq(UsAny)
  <2>1. usHook.answer \in UsAny
    BY <1>1 DEF UsHookOf, UsInv, UsHasAnswer
  <2> QED
    BY <1>1, <1>2, <2>1 DEF UsTyped
<1>5. UsTyped' /\ UsPlainFirst'
  BY <1>1, <1>2, <1>4, UsSilentTyped DEF UsInv, UsTyped, UsPlainFirst
<1>6. UsOnce' /\ UsNew'
  BY <1>1, <1>2, <1>3, UsSilentTyped, UsNotEmpty DEF UsInv, UsOnce, UsNew, UsFuture
<1>7. UsToRecord' /\ UsKeptLines' /\ UsGoneThrough' /\ UsHasAnswer'
  BY <1>1, UsSilentTyped DEF UsToRecord, UsKeptLines, UsGoneThrough, UsHasAnswer
<1> QED
  BY <1>5, <1>6, <1>7 DEF UsInv

LEMMA UsCrashStep ==
  ASSUME UsInv, UsCrash
  PROVE  UsInv'
<1>1. UsTyped /\ usHook' = UsSilent /\ UNCHANGED <<usRows, usOutbox>>
  BY DEF UsInv, UsCrash
<1>2. \A j \in UsJobs : [UsRest EXCEPT !.calls = usCall[j].calls] \in UsCallOf
  <2> TAKE j \in UsJobs
  <2>1. usCall[j].calls \in Nat
    BY <1>1 DEF UsTyped, UsCallOf
  <2> QED
    BY <2>1, UsRestTyped DEF UsCallOf
<1>3. usCall' \in [UsJobs -> UsCallOf]
  BY <1>2 DEF UsCrash
<1>4. \A j \in UsJobs : usCall'[j].calls = usCall[j].calls /\ usCall'[j].at = "idle"
  BY DEF UsCrash, UsRest
<1>5. UsTyped' /\ UsPlainFirst'
  BY <1>1, <1>3, <1>4, UsSilentTyped DEF UsTyped, UsPlainFirst
<1>6. UsNew'
  <2> SUFFICES ASSUME NEW a \in UsAnswers, UsFuture(a)'
               PROVE  UsFuture(a) /\ usHook'.answer # a
    BY <1>1 DEF UsInv, UsNew, UsSetAside
  <2>1. a.job \in UsJobs
    BY DEF UsAnswers
  <2> QED
    BY <1>1, <1>4, <2>1, UsSilentTyped, UsNotEmpty DEF UsFuture
<1>7. UsOnce' /\ UsToRecord' /\ UsKeptLines' /\ UsGoneThrough' /\ UsHasAnswer'
  BY <1>1, UsSilentTyped DEF UsInv, UsOnce, UsToRecord, UsKeptLines, UsGoneThrough, UsHasAnswer
<1> QED
  BY <1>5, <1>6, <1>7 DEF UsInv

LEMMA UsStep == UsInv /\ [UsNext]_usVars => UsInv'
<1> SUFFICES ASSUME UsInv, [UsNext]_usVars PROVE UsInv'
  OBVIOUS
<1>1. CASE UNCHANGED usVars
  BY <1>1 DEF usVars, UsInv, UsTyped, UsPlainFirst, UsHasAnswer, UsOnce, UsNew, UsToRecord, UsKeptLines,
              UsGoneThrough, UsFuture, UsSetAside
<1>2. CASE UsHookRuns \/ UsCrash
  BY <1>2, UsReplayStep, UsRewriteStep, UsRecordStep, UsQueueStep, UsCrashStep DEF UsHookRuns
<1>3. ASSUME NEW j \in UsJobs,
             \/ UsChat(j) \/ UsBatch(j) \/ UsLate(j) \/ UsCancelled(j)
             \/ \E kind \in {"post", "plain", "catalog", "submit"} : UsCallStart(j, kind)
      PROVE  UsInv'
  <2>1. CASE UsPlain(j)
    BY <2>1, UsPlainStep
  <2>2. CASE ~UsPlain(j)
    BY <1>3, <2>2, UsCoroutineStep
  <2> QED
    BY <2>1, <2>2
<1> QED
  BY <1>1, <1>2, <1>3 DEF UsNext

\* An answer is booked once, however uncertain the commits and wherever the
\* process dies, for any number of jobs, requests and faults.
THEOREM BookedOnce == UsSpec => []UsOnce
<1>1. UsInv => UsOnce
  BY DEF UsInv
<1> QED
  BY UsInitial, UsStep, <1>1, PTL DEF UsSpec

LEMMA UsBookGrows ==
  ASSUME UsTyped, NEW key, UNCHANGED usRows \/ UsBook(key), NEW a \in UsAnswers, usRows[a] > 0
  PROVE  usRows'[a] > 0
<1>1. usRows \in [UsAnswers -> Nat]
  BY DEF UsTyped
<1>2. CASE UNCHANGED usRows
  BY <1>2
<1>3. CASE UsBook(key) /\ key = a
  <2>1. usRows' = [usRows EXCEPT ![a] = usRows[a] + 1]
    BY <1>3 DEF UsBook
  <2> QED
    BY <1>1, <2>1
<1>4. CASE UsBook(key) /\ key # a
  <2>1. usRows' = [usRows EXCEPT ![key] = usRows[key] + 1]
    BY <1>4 DEF UsBook
  <2> QED
    BY <1>1, <1>4, <2>1
<1> QED
  BY <1>2, <1>3, <1>4

\* A coroutine's step takes nothing back, and calls the hook when it is silent.
LEMMA UsCoroutineKeeps ==
  ASSUME UsInv, NEW j \in UsJobs,
         \/ UsChat(j) \/ UsBatch(j) \/ UsLate(j) \/ UsCancelled(j)
         \/ \E kind \in {"post", "plain", "catalog", "submit"} : UsCallStart(j, kind),
         NEW a \in UsAnswers, UsHeld(a)
  PROVE  UsHeld(a)'
<1>1. UNCHANGED usOutbox /\ usLost \subseteq usLost'
  <2>1. CASE UsPlain(j)
    BY <2>1 DEF UsPlain
  <2>2. CASE ~UsPlain(j)
    BY <2>2 DEF UsChat, UsBatch, UsPost, UsSlept, UsCatalog, UsSubmit, UsPoll, UsGivenUp, UsItem,
                UsItemsRead, UsLate, UsCancelled, UsCallStart
  <2> QED
    BY <2>1, <2>2
<1>2. UNCHANGED usHook \/ usHook = UsSilent
  BY DEF UsChat, UsBatch, UsPost, UsSlept, UsCatalog, UsPlain, UsSubmit, UsPoll, UsGivenUp, UsItem,
         UsItemsRead, UsLate, UsCancelled, UsCallStart, UsTurn
<1>3. UNCHANGED usRows \/ UsBook(UsKey(j, "chat", 1))
  BY DEF UsChat, UsBatch, UsPost, UsSlept, UsCatalog, UsPlain, UsSubmit, UsPoll, UsGivenUp, UsItem,
         UsItemsRead, UsLate, UsCancelled, UsCallStart
<1>4. usRows[a] > 0 => usRows'[a] > 0
  BY <1>3, UsBookGrows DEF UsInv
<1>5. usHook.answer = a => usHook'.answer = a
  BY <1>2, UsSilentTyped, UsNotEmpty
<1> QED
  BY <1>1, <1>4, <1>5 DEF UsHeld

LEMMA UsHookKeeps ==
  ASSUME UsInv, UsHookRuns \/ UsCrash, NEW a \in UsAnswers, a.kind = "chat", UsHeld(a)
  PROVE  UsHeld(a)'
<1>1. UsTyped /\ usHook \in UsHookOf /\ usOutbox \in Seq(UsAny)
  BY DEF UsInv, UsTyped
<1>2. UsHeld(a) <=> usRows[a] > 0 \/ a \in usLost \/ usHook.answer = a \/ UsSetAside(a)
  BY DEF UsHeld, UsSetAside
<1>3. UsHeld(a)' <=> usRows'[a] > 0 \/ a \in usLost' \/ usHook'.answer = a \/ UsSetAside(a)'
  BY DEF UsHeld, UsSetAside
<1>4. CASE UsReplay
  <2>1. UNCHANGED <<usOutbox, usLost>> /\ (UNCHANGED usRows \/ UsBook(UsLine))
    BY <1>4 DEF UsReplay
  <2>2. usHook'.answer = usHook.answer
    BY <1>1, <1>4 DEF UsReplay, UsReplayed, UsHookOf
  <2>3. usRows[a] > 0 => usRows'[a] > 0
    BY <1>1, <2>1, UsBookGrows
  <2> QED
    BY <1>2, <1>3, <2>1, <2>2, <2>3 DEF UsSetAside
<1>5. CASE UsRewrite
  <2>1. UNCHANGED <<usRows, usLost>>
    BY <1>5 DEF UsRewrite
  <2>2. usHook.answer = a => usHook'.answer = a
    BY <1>1, <1>5, UsNotEmpty DEF UsRewrite, UsHookOf
  <2>3. UsSetAside(a) => UsSetAside(a)' \/ usRows[a] > 0
    <3>1. CASE UNCHANGED usOutbox
      BY <3>1 DEF UsSetAside
    <3>2. CASE usOutbox' = usHook.kept
      <4> SUFFICES ASSUME NEW i \in DOMAIN usOutbox, usOutbox[i] = a
                   PROVE  UsSetAside(a)' \/ usRows[a] > 0
        BY DEF UsSetAside
      <4>1. i < usHook.line /\ usHook.step = "replay"
        BY <1>1, <1>5 DEF UsRewrite
      <4> QED
        BY <3>2, <4>1 DEF UsInv, UsGoneThrough, UsSetAside
    <3> QED
      BY <1>5, <3>1, <3>2 DEF UsRewrite
  <2> QED
    BY <1>2, <1>3, <2>1, <2>2, <2>3
<1>6. CASE UsRecord
  <2>1. /\ UNCHANGED <<usOutbox, usLost>> /\ (UNCHANGED usRows \/ UsBook(usHook.answer))
        /\ UsBook(usHook.answer) \/ usHook' = [usHook EXCEPT !.step = "queue"]
    BY <1>6 DEF UsRecord
  <2>2. usRows[a] > 0 => usRows'[a] > 0
    BY <1>1, <2>1, UsBookGrows
  <2>3. usHook.answer = a => usHook'.answer = a \/ usRows'[a] > 0
    <3>1. CASE usHook' = [usHook EXCEPT !.step = "queue"]
      BY <1>1, <3>1 DEF UsHookOf
    <3>2. CASE UsBook(usHook.answer) /\ usHook.answer = a
      <4>1. usRows' = [usRows EXCEPT ![a] = usRows[a] + 1] /\ usRows \in [UsAnswers -> Nat]
        BY <1>1, <3>2 DEF UsBook, UsTyped
      <4> QED
        BY <4>1
    <3> QED
      BY <2>1, <3>1, <3>2
  <2> QED
    BY <1>2, <1>3, <2>1, <2>2, <2>3 DEF UsSetAside
<1>7. CASE UsQueue
  <2>1. UNCHANGED usRows /\ usLost \subseteq usLost'
    BY <1>7 DEF UsQueue
  <2>2. UsSetAside(a) => UsSetAside(a)'
    <3>1. CASE UNCHANGED usOutbox
      BY <3>1 DEF UsSetAside
    <3>2. CASE usOutbox' = Append(usOutbox, usHook.answer)
      <4>1. \A i \in DOMAIN usOutbox : i \in DOMAIN usOutbox' /\ usOutbox'[i] = usOutbox[i]
        BY <1>1, <3>2
      <4> QED
        BY <4>1 DEF UsSetAside
    <3> QED
      BY <1>7, <3>1, <3>2 DEF UsQueue
  <2>3. usHook.answer = a => UsSetAside(a)' \/ a \in usLost'
    <3>1. CASE usOutbox' = Append(usOutbox, usHook.answer)
      <4>1. Len(usOutbox) + 1 \in DOMAIN usOutbox' /\ usOutbox'[Len(usOutbox) + 1] = usHook.answer
        BY <1>1, <3>1
      <4> QED
        BY <4>1 DEF UsSetAside
    <3>2. CASE usLost' = usLost \cup {usHook.answer}
      BY <3>2
    <3> QED
      BY <1>7, <3>1, <3>2 DEF UsQueue
  <2> QED
    BY <1>2, <1>3, <2>1, <2>2, <2>3
<1>8. CASE UsCrash
  <2>1. UNCHANGED <<usRows, usOutbox>> /\ usLost \subseteq usLost'
    BY <1>8 DEF UsCrash
  <2>2. usHook.answer = a => a \in usLost'
    BY <1>8, UsNotEmpty DEF UsCrash
  <2> QED
    BY <1>2, <1>3, <2>1, <2>2 DEF UsSetAside
<1> QED
  BY <1>4, <1>5, <1>6, <1>7, <1>8 DEF UsHookRuns

LEMMA UsKeptStep ==
  ASSUME UsInv, UsNext, NEW a \in UsAnswers, a.kind = "chat", UsHeld(a)
  PROVE  UsHeld(a)'
BY UsCoroutineKeeps, UsHookKeeps DEF UsNext

\* A chat answer that was booked or set aside stays so until it has its row,
\* for any number of jobs, requests and faults.
THEOREM ChatKept == UsSpec => UsChatKept
<1>1. UsInv /\ [UsNext]_usVars =>
        [\A a \in UsAnswers : a.kind = "chat" /\ UsHeld(a) => UsHeld(a)']_usVars
  BY UsKeptStep
<1> QED
  BY UsInitial, UsStep, <1>1, PTL DEF UsSpec, UsChatKept
-----------------------------------------------------------------------------
(* Live events.                                                             *)
HIDE UsAssumption
USE EvAssumption

EvPubOf == [busy : BOOLEAN, left : SUBSET EvStreams, stale : SUBSET EvStreams,
            put : EvStreams \cup {EvNobody}]
EvTyped == /\ evLength \in [EvStreams -> Nat] /\ evPub \in [EvPublishers -> EvPubOf]
           /\ evMissed \in [EvStreams -> BOOLEAN] /\ evBus \subseteq EvStreams

\* An idle publisher holds no queue; of a queue that missed an event, its
\* publisher still knows; and a queue's events and those about to be put fit.
EvAtRest == \A p \in EvPublishers : ~evPub[p].busy => evPub[p] = EvIdle
EvKnown == \A s \in evBus : evMissed[s] => \E p \in EvPublishers : s \in evPub[p].stale
EvPutting(s) == {p \in EvPublishers : evPub[p].put = s}
EvFits ==
  \A s \in EvStreams :
    evLength[s] + Cardinality(EvPutting(s)) <= EvMax + Cardinality(EvPublishers) - 1
EvInv == EvTyped /\ EvAtRest /\ EvKnown /\ EvFits

LEMMA EvSome == Cardinality(EvPublishers) \in Nat \ {0}
BY FS_CardinalityType, FS_EmptySet

LEMMA EvPuttingCount ==
  ASSUME NEW s \in EvStreams
  PROVE  /\ IsFiniteSet(EvPutting(s)) /\ Cardinality(EvPutting(s)) \in Nat
         /\ Cardinality(EvPutting(s)) <= Cardinality(EvPublishers)
<1>1. EvPutting(s) \subseteq EvPublishers
  BY DEF EvPutting
<1> QED
  BY <1>1, FS_Subset, FS_CardinalityType

LEMMA EvIdleTyped == EvIdle \in EvPubOf
BY DEF EvIdle, EvPubOf

LEMMA EvInitial == EvInit => EvInv
<1> SUFFICES ASSUME EvInit PROVE EvInv
  OBVIOUS
<1>1. EvTyped /\ EvAtRest /\ EvKnown
  BY EvIdleTyped DEF EvInit, EvTyped, EvAtRest, EvKnown
<1>2. EvFits
  <2> SUFFICES ASSUME NEW s \in EvStreams
               PROVE  evLength[s] + Cardinality(EvPutting(s)) <= EvMax + Cardinality(EvPublishers) - 1
    BY DEF EvFits
  <2>1. evLength[s] = 0
    BY DEF EvInit
  <2> QED
    BY <2>1, EvPuttingCount, EvSome
<1> QED
  BY <1>1, <1>2 DEF EvInv

\* The streams' own steps.
LEMMA EvStreamStep ==
  ASSUME EvInv, NEW s \in EvStreams, EvSubscribe(s) \/ EvRead(s) \/ EvClose(s) \/ EvLost(s)
  PROVE  EvInv'
<1>1. EvTyped /\ evLength[s] \in Nat
  BY DEF EvInv, EvTyped
<1>2. UNCHANGED evPub
  BY DEF EvSubscribe, EvRead, EvClose, EvLost
<1>3. \A t \in EvStreams : EvPutting(t)' = EvPutting(t)
  BY <1>2 DEF EvPutting
<1>4. EvTyped'
  <2>1. CASE EvSubscribe(s)
    BY <1>1, <2>1 DEF EvSubscribe, EvTyped
  <2>2. CASE EvRead(s)
    <3>1. evLength[s] - 1 \in Nat
      BY <1>1, <2>2 DEF EvRead
    <3> QED
      BY <1>1, <2>2, <3>1 DEF EvRead, EvTyped
  <2>3. CASE EvClose(s) \/ EvLost(s)
    BY <1>1, <2>3 DEF EvClose, EvLost, EvTyped
  <2> QED
    BY <2>1, <2>2, <2>3
<1>5. EvAtRest'
  BY <1>2 DEF EvInv, EvAtRest
<1>6. EvKnown'
  <2>1. \A t \in evBus' : evMissed'[t] => t \in evBus /\ evMissed[t]
    BY <1>1 DEF EvSubscribe, EvRead, EvClose, EvLost, EvTyped
  <2> QED
    BY <1>2, <2>1 DEF EvInv, EvKnown
<1>7. EvFits'
  <2> SUFFICES ASSUME NEW t \in EvStreams
               PROVE  evLength'[t] + Cardinality(EvPutting(t)) <= EvMax + Cardinality(EvPublishers) - 1
    BY <1>3 DEF EvFits
  <2>1. evLength[t] + Cardinality(EvPutting(t)) <= EvMax + Cardinality(EvPublishers) - 1
    BY DEF EvInv, EvFits
  <2>2. CASE EvSubscribe(s) /\ t = s
    <3>1. EvPutting(s) = {}
      BY <2>2 DEF EvSubscribe, EvPutting
    <3>2. evLength'[t] = 1
      BY <1>1, <2>2 DEF EvSubscribe, EvTyped
    <3> QED
      BY <2>2, <3>1, <3>2, EvSome, FS_EmptySet
  <2>3. CASE evLength'[t] <= evLength[t] /\ evLength'[t] \in Nat /\ evLength[t] \in Nat
    BY <2>1, <2>3, EvPuttingCount, EvSome
  <2>4. \/ EvSubscribe(s) /\ t = s
        \/ evLength'[t] <= evLength[t] /\ evLength'[t] \in Nat /\ evLength[t] \in Nat
    BY <1>1, <1>4 DEF EvSubscribe, EvRead, EvClose, EvLost, EvTyped
  <2> QED
    BY <2>2, <2>3, <2>4
<1> QED
  BY <1>4, <1>5, <1>6, <1>7 DEF EvInv

\* A publisher's step that puts nothing.
LEMMA EvPublishStep ==
  ASSUME EvInv, NEW p \in EvPublishers, EvPublish(p) \/ EvDrop(p)
  PROVE  EvInv'
<1>1. EvTyped /\ evPub[p].put = EvNobody /\ UNCHANGED <<evLength, evMissed>>
  BY DEF EvInv, EvAtRest, EvIdle, EvPublish, EvDrop
<1>2. PICK rec \in EvPubOf : evPub' = [evPub EXCEPT ![p] = rec] /\ rec.put = EvNobody
                             /\ (rec.busy \/ rec = EvIdle)
  <2>1. CASE EvPublish(p)
    <3>1. PICK rec : rec = [EvIdle EXCEPT !.busy = TRUE, !.left = evBus]
      OBVIOUS
    <3>2. rec \in EvPubOf /\ rec.put = EvNobody
      BY <1>1, <3>1 DEF EvIdle, EvPubOf, EvTyped
    <3>3. rec.busy = TRUE
      BY <3>1 DEF EvIdle
    <3>4. evPub' = [evPub EXCEPT ![p] = rec]
      BY <2>1, <3>1 DEF EvPublish
    <3> QED
      BY <3>2, <3>3, <3>4
  <2>2. CASE EvDrop(p)
    BY <2>2, EvIdleTyped DEF EvDrop, EvIdle
  <2> QED
    BY <2>1, <2>2
<1>3. \A s \in EvStreams : EvPutting(s)' = EvPutting(s)
  BY <1>1, <1>2 DEF EvPutting, EvTyped
<1>4. EvTyped' /\ evBus' \subseteq evBus
  BY <1>1, <1>2 DEF EvTyped, EvPublish, EvDrop
<1>5. EvAtRest'
  BY <1>1, <1>2 DEF EvInv, EvAtRest, EvTyped
<1>6. EvKnown'
  <2> SUFFICES ASSUME NEW s \in evBus', evMissed[s]
               PROVE  \E q \in EvPublishers : s \in evPub'[q].stale
    BY <1>1 DEF EvKnown
  <2>1. PICK q \in EvPublishers : s \in evPub[q].stale
    BY <1>4 DEF EvInv, EvKnown
  <2>2. q # p
    BY <2>1 DEF EvInv, EvAtRest, EvIdle, EvPublish, EvDrop
  <2> QED
    BY <1>1, <1>2, <2>1, <2>2 DEF EvTyped
<1>7. EvFits'
  BY <1>1, <1>3 DEF EvInv, EvFits
<1> QED
  BY <1>4, <1>5, <1>6, <1>7 DEF EvInv

LEMMA EvOfferStep ==
  ASSUME EvInv, NEW p \in EvPublishers, NEW s \in EvStreams, EvOffer(p, s)
  PROVE  EvInv'
<1>1. /\ EvTyped /\ evPub[p].put = EvNobody /\ s \in evPub[p].left /\ evPub[p].busy
      /\ UNCHANGED <<evBus, evLength>> /\ evLength[s] \in Nat /\ evPub[p] \in EvPubOf
  BY DEF EvInv, EvAtRest, EvIdle, EvOffer, EvTyped
<1>2. PICK full \in BOOLEAN : full <=> evLength[s] >= EvMax
  OBVIOUS
<1>3. PICK rec \in EvPubOf :
        /\ evPub' = [evPub EXCEPT ![p] = rec] /\ rec.busy
        /\ evPub[p].stale \subseteq rec.stale
        /\ full => s \in rec.stale /\ rec.put = EvNobody
        /\ ~full => rec.put = s
  <2>1. CASE full
    <3>1. PICK rec : rec = [evPub[p] EXCEPT !.left = evPub[p].left \ {s}, !.stale = evPub[p].stale \cup {s},
                                            !.put = EvNobody]
      OBVIOUS
    <3>2. evPub' = [evPub EXCEPT ![p] = rec]
      BY <1>1, <1>2, <2>1, <3>1 DEF EvOffer, EvPubOf, EvTyped
    <3>3. rec \in EvPubOf
      BY <1>1, <3>1 DEF EvPubOf
    <3>4. rec.put = EvNobody /\ rec.stale = evPub[p].stale \cup {s} /\ rec.busy = evPub[p].busy
      BY <1>1, <3>1 DEF EvPubOf
    <3> QED
      BY <1>1, <2>1, <3>2, <3>3, <3>4
  <2>2. CASE ~full
    <3>1. PICK rec : rec = [evPub[p] EXCEPT !.left = evPub[p].left \ {s}, !.stale = evPub[p].stale,
                                            !.put = s]
      OBVIOUS
    <3>2. evPub' = [evPub EXCEPT ![p] = rec]
      BY <1>1, <1>2, <2>2, <3>1 DEF EvOffer, EvPubOf, EvTyped
    <3>3. rec \in EvPubOf
      BY <1>1, <3>1 DEF EvPubOf
    <3>4. rec.put = s /\ rec.stale = evPub[p].stale /\ rec.busy = evPub[p].busy
      BY <1>1, <3>1 DEF EvPubOf
    <3> QED
      BY <1>1, <2>2, <3>2, <3>3, <3>4
  <2> QED
    BY <2>1, <2>2
<1>4. /\ evMissed' \in [EvStreams -> BOOLEAN]
      /\ \A t \in EvStreams : evMissed'[t] => evMissed[t] \/ (t = s /\ full)
  BY <1>1, <1>2 DEF EvOffer, EvTyped
<1>5. EvTyped' /\ EvAtRest'
  BY <1>1, <1>3, <1>4 DEF EvInv, EvAtRest, EvTyped
<1>6. EvKnown'
  <2> SUFFICES ASSUME NEW t \in evBus, evMissed'[t]
               PROVE  \E q \in EvPublishers : t \in evPub'[q].stale
    BY <1>1 DEF EvKnown
  <2>1. CASE evMissed[t]
    <3>1. PICK q \in EvPublishers : t \in evPub[q].stale
      BY <2>1 DEF EvInv, EvKnown
    <3> QED
      BY <1>1, <1>3, <3>1 DEF EvTyped
  <2>2. CASE t = s /\ full
    BY <1>1, <1>3, <2>2 DEF EvTyped
  <2> QED
    BY <1>1, <1>4, <2>1, <2>2 DEF EvTyped
<1>7. EvFits'
  <2> SUFFICES ASSUME NEW t \in EvStreams
               PROVE  evLength[t] + Cardinality(EvPutting(t)') <= EvMax + Cardinality(EvPublishers) - 1
    BY <1>1 DEF EvFits
  <2>1. evLength[t] + Cardinality(EvPutting(t)) <= EvMax + Cardinality(EvPublishers) - 1
    BY DEF EvInv, EvFits
  <2>2. CASE t = s /\ ~full
    \* not full: whoever is about to put into it, at most every publisher is
    <3>1. EvPutting(t)' \subseteq EvPublishers
      BY DEF EvPutting
    <3>2. Cardinality(EvPutting(t)') <= Cardinality(EvPublishers) /\ Cardinality(EvPutting(t)') \in Nat
      BY <3>1, FS_Subset, FS_CardinalityType
    <3>3. evLength[t] <= EvMax - 1
      BY <1>1, <1>2, <2>2
    <3> QED
      BY <1>1, <2>2, <3>2, <3>3, EvSome
  <2>3. CASE ~(t = s /\ ~full)
    <3>1. EvPutting(t)' = EvPutting(t)
      BY <1>1, <1>3, <2>3 DEF EvPutting, EvTyped
    <3> QED
      BY <2>1, <3>1
  <2> QED
    BY <2>2, <2>3
<1> QED
  BY <1>5, <1>6, <1>7 DEF EvInv

LEMMA EvPutStep ==
  ASSUME EvInv, NEW p \in EvPublishers, EvPut(p)
  PROVE  EvInv'
<1>1. /\ EvTyped /\ evPub[p] \in EvPubOf /\ evPub[p].put # EvNobody /\ UNCHANGED <<evBus, evMissed>>
  BY DEF EvInv, EvPut, EvTyped
<1>2. PICK s \in EvStreams : s = evPub[p].put
  BY <1>1 DEF EvPubOf
<1>3. evLength' = [evLength EXCEPT ![s] = evLength[s] + 1] /\ evLength[s] \in Nat
  BY <1>1, <1>2 DEF EvPut, EvTyped
<1>4. evPub[p].busy
  BY <1>1 DEF EvInv, EvAtRest, EvIdle
<1>5. PICK rec \in EvPubOf : /\ evPub' = [evPub EXCEPT ![p] = rec] /\ rec.busy
                             /\ rec.stale = evPub[p].stale /\ rec.put = EvNobody
  <2>1. PICK rec : rec = [evPub[p] EXCEPT !.put = EvNobody]
    OBVIOUS
  <2>2. evPub' = [evPub EXCEPT ![p] = rec]
    BY <2>1 DEF EvPut
  <2>3. rec \in EvPubOf
    BY <1>1, <2>1 DEF EvPubOf
  <2>4. rec.busy = evPub[p].busy /\ rec.stale = evPub[p].stale /\ rec.put = EvNobody
    BY <1>1, <2>1 DEF EvPubOf
  <2> QED
    BY <1>4, <2>2, <2>3, <2>4
<1>6. EvTyped' /\ EvAtRest'
  BY <1>1, <1>3, <1>5 DEF EvInv, EvAtRest, EvTyped
<1>7. EvKnown'
  BY <1>1, <1>5 DEF EvInv, EvKnown, EvTyped
<1>8. EvFits'
  <2> SUFFICES ASSUME NEW t \in EvStreams
               PROVE  evLength'[t] + Cardinality(EvPutting(t)') <= EvMax + Cardinality(EvPublishers) - 1
    BY DEF EvFits
  <2>1. evLength[t] + Cardinality(EvPutting(t)) <= EvMax + Cardinality(EvPublishers) - 1
    BY DEF EvInv, EvFits
  <2>2. CASE t = s
    <3>1. EvPutting(t)' = EvPutting(t) \ {p} /\ p \in EvPutting(t)
      BY <1>1, <1>2, <1>5, <2>2 DEF EvPutting, EvTyped
    <3>2. Cardinality(EvPutting(t) \ {p}) = Cardinality(EvPutting(t)) - 1
      BY <3>1, EvPuttingCount, FS_RemoveElement
    <3>3. evLength'[t] = evLength[t] + 1
      BY <1>1, <1>3, <2>2 DEF EvTyped
    <3> QED
      BY <1>3, <2>1, <2>2, <3>1, <3>2, <3>3, EvPuttingCount, EvSome
  <2>3. CASE t # s
    <3>1. EvPutting(t)' = EvPutting(t)
      BY <1>1, <1>2, <1>5, <2>3 DEF EvPutting, EvTyped
    <3>2. evLength'[t] = evLength[t]
      BY <1>1, <1>3, <2>3 DEF EvTyped
    <3> QED
      BY <2>1, <3>1, <3>2
  <2> QED
    BY <2>2, <2>3
<1> QED
  BY <1>6, <1>7, <1>8 DEF EvInv

LEMMA EvStep == EvInv /\ [EvNext]_evVars => EvInv'
<1> SUFFICES ASSUME EvInv, [EvNext]_evVars PROVE EvInv'
  OBVIOUS
<1>1. CASE UNCHANGED evVars
  BY <1>1 DEF evVars, EvInv, EvTyped, EvAtRest, EvKnown, EvFits, EvPutting
<1>2. CASE EvNext
  BY <1>2, EvStreamStep, EvPublishStep, EvOfferStep, EvPutStep DEF EvNext
<1> QED
  BY <1>1, <1>2

LEMMA EvSafeHolds == EvInv => EvSafe
<1> SUFFICES ASSUME EvInv, NEW s \in evBus
             PROVE  /\ evMissed[s] => \E p \in EvPublishers : s \in evPub[p].stale
                    /\ evLength[s] <= EvMax + Cardinality(EvPublishers) - 1
  BY DEF EvSafe
<1>1. s \in EvStreams /\ evLength[s] \in Nat
  BY DEF EvInv, EvTyped
<1>2. evLength[s] + Cardinality(EvPutting(s)) <= EvMax + Cardinality(EvPublishers) - 1
  BY <1>1 DEF EvInv, EvFits
<1> QED
  BY <1>1, <1>2, EvPuttingCount, EvSome DEF EvInv, EvKnown

\* A subscriber missed no event, but one whose publish has not returned, and no
\* queue outgrows its bound by more than the publishers that looked at once, for
\* any number of streams, publishers and events.
THEOREM EventsWhole == EvSpec => []EvSafe
BY EvInitial, EvStep, EvSafeHolds, PTL DEF EvSpec
-----------------------------------------------------------------------------
(* Everything the services keep: the types, with the bounds of the requests, *)
(* turns, priorities and faults, which need the invariants above.            *)
EvStreamTyped == evStream \in [EvStreams -> {"off", "open", "gone"}]

LEMMA EvTypes == EvInv /\ EvStreamTyped => EvTypeOK
BY DEF EvInv, EvTyped, EvPubOf, EvStreamTyped, EvTypeOK

LEMMA EvStreamTypeStep == EvStreamTyped /\ [EvNext]_evVars => EvStreamTyped'
<1> SUFFICES ASSUME EvStreamTyped, [EvNext]_evVars PROVE EvStreamTyped'
  OBVIOUS
<1>1. CASE UNCHANGED evVars
  BY <1>1 DEF evVars, EvStreamTyped
<1>2. ASSUME NEW s \in EvStreams, EvSubscribe(s) \/ EvRead(s) \/ EvClose(s) \/ EvLost(s)
      PROVE  EvStreamTyped'
  BY <1>2, SMTT(30) DEF EvStreamTyped, EvSubscribe, EvRead, EvClose, EvLost
<1>3. ASSUME NEW p \in EvPublishers,
             EvPublish(p) \/ EvPut(p) \/ EvDrop(p) \/ (\E s \in EvStreams : EvOffer(p, s))
      PROVE  EvStreamTyped'
  BY <1>3 DEF EvStreamTyped, EvPublish, EvPut, EvDrop, EvOffer
<1> QED
  BY <1>1, <1>2, <1>3 DEF EvNext

(* The operator chat: a request is at its tools before its last turn only.   *)
HIDE EvAssumption
USE OpAssumption

OpBounded ==
  /\ opModel \in BOOLEAN /\ opHist.owed \in 0..OpCalls /\ opPosts \in 0..OpPosts
  /\ \A r \in OpRequests : /\ opReq[r].turn \in 0..OpMaxTurns
                           /\ opReq[r].at = "tool" => opReq[r].turn < OpMaxTurns

LEMMA OpTypes == OpInv /\ OpBounded => OpTypeOK
<1> SUFFICES ASSUME OpInv, OpBounded PROVE OpTypeOK
  OBVIOUS
<1>1. opHist \in [owed : 0..OpCalls, broken : BOOLEAN]
  BY DEF OpInv, OpTyped, OpHists, OpBounded
<1>2. \A r \in OpRequests : opReq[r] \in OpReqs
  BY DEF OpInv, OpTyped
<1> QED
  BY <1>1, <1>2 DEF OpInv, OpTyped, OpBounded, OpTypeOK, OpReqs, OpPlaces

LEMMA OpBoundedInitially == OpInit => OpBounded
<1> SUFFICES ASSUME OpInit PROVE OpBounded
  OBVIOUS
<1>1. opModel \in BOOLEAN /\ opHist.owed = 0 /\ opPosts = 0
  BY DEF OpInit
<1>2. \A r \in OpRequests : opReq[r].turn = 0 /\ opReq[r].at = "idle"
  BY DEF OpInit, OpQuiet
<1> QED
  BY <1>1, <1>2 DEF OpBounded

\* What a row leaves owed.
LEMMA OpOwedBound ==
  /\ \A h, n : OpOther(h, n).owed = n
  /\ \A h : h.owed \in 0..OpCalls => OpResult(h).owed \in 0..OpCalls
<1>1. ASSUME NEW h, NEW n PROVE OpOther(h, n).owed = n
  BY DEF OpOther
<1>2. ASSUME NEW h, h.owed \in 0..OpCalls PROVE OpResult(h).owed \in 0..OpCalls
  <2>1. OpResult(h).owed = IF h.owed = 0 THEN 0 ELSE h.owed - 1
    BY DEF OpResult
  <2> QED
    BY <1>2, <2>1
<1> QED
  BY <1>1, <1>2

LEMMA OpBoundMoves ==
  ASSUME OpInv, OpBounded, NEW r \in OpRequests, NEW q, opReq' = [opReq EXCEPT ![r] = q],
         q.turn \in 0..OpMaxTurns, q.at = "tool" => q.turn < OpMaxTurns,
         opHist'.owed \in 0..OpCalls, opModel' \in BOOLEAN, opPosts' \in 0..OpPosts
  PROVE  OpBounded'
<1>1. /\ opReq'[r] = q
      /\ \A s \in OpRequests \ {r} : opReq'[s] = opReq[s]
  BY DEF OpInv, OpTyped
<1> QED
  BY <1>1 DEF OpBounded

LEMMA OpBoundStep == OpInv /\ OpBounded /\ [OpNext]_opVars => OpBounded'
<1> SUFFICES ASSUME OpInv, OpBounded, [OpNext]_opVars PROVE OpBounded'
  OBVIOUS
<1>0. OpQuiet.turn = 0 /\ OpQuiet.turn \in 0..OpMaxTurns /\ OpQuiet.at # "tool"
  BY DEF OpQuiet
<1>1. CASE OpSettings \/ OpCrash \/ UNCHANGED opVars
  BY <1>1, <1>0 DEF OpSettings, OpCrash, opVars, OpBounded
<1>2. ASSUME NEW r \in OpRequests, OpPost(r) PROVE OpBounded'
  <2>1. opReq[r] \in OpReqs /\ opReq[r].turn \in 0..OpMaxTurns
    BY DEF OpInv, OpTyped, OpBounded
  <2>2. opModel' \in BOOLEAN /\ opPosts' \in 0..OpPosts
    BY <1>2 DEF OpPost, OpBounded
  <2>3. opHist'.owed \in 0..OpCalls
    BY <1>2, OpOwedBound DEF OpPost, OpSays, OpBounded
  <2>4. PICK at \in {"resolve", "confirm"} : opReq' = [opReq EXCEPT ![r] = [opReq[r] EXCEPT !.at = at]]
    BY <1>2 DEF OpPost, OpGo, OpInv, OpTyped
  <2>5. [opReq[r] EXCEPT !.at = at].turn = opReq[r].turn /\ [opReq[r] EXCEPT !.at = at].at = at
    BY <2>1 DEF OpReqs
  <2> QED
    BY <2>1, <2>2, <2>3, <2>4, <2>5, OpBoundMoves
<1>3. ASSUME NEW r \in OpRequests, OpRuns(r) PROVE OpBounded'
  <2>1. opReq[r] \in OpReqs /\ opReq[r].turn \in 0..OpMaxTurns
    BY DEF OpInv, OpTyped, OpBounded
  <2>2. opModel' \in BOOLEAN /\ opPosts' \in 0..OpPosts
    BY <1>3 DEF OpRuns, OpConfirm, OpResolve, OpAnswer, OpAsked, OpTool, OpToolRuns, OpLimit,
                OpFrame, OpBounded
  <2>3. opHist'.owed \in 0..OpCalls
    <3>1. opHist.owed \in 0..OpCalls
      BY DEF OpBounded
    <3>2. \/ opHist' = opHist \/ opHist' = OpOther(opHist, 0) \/ opHist' = OpResult(opHist)
          \/ opHist' = OpOther(OpResult(opHist), 0)
          \/ \E n \in 1..OpCalls : opHist' = OpOther(opHist, n)
      BY <1>3 DEF OpRuns, OpConfirm, OpResolve, OpAnswer, OpAsked, OpTool, OpToolRuns, OpLimit, OpSays
    <3> QED
      BY <3>1, <3>2, OpOwedBound
  <2>4. CASE OpTool(r)
    <3>0. opReq[r].at = "tool" /\ opReq[r].turn < OpMaxTurns
      BY <2>4 DEF OpTool, OpToolRuns, OpBounded
    <3>1. CASE ~OpEndsOnCall(r, FALSE)
      <4> DEFINE q == [opReq[r] EXCEPT !.calls = Tail(@), !.pending = OpPending(r)]
      <4>1. opReq' = [opReq EXCEPT ![r] = q]
        BY <2>4, <3>0, <3>1 DEF OpTool, OpToolRuns
      <4>2. q.turn = opReq[r].turn
        BY <2>1 DEF OpReqs
      <4> HIDE DEF q
      <4> QED
        BY <2>1, <2>2, <2>3, <3>0, <4>1, <4>2, OpBoundMoves
    <3>2. CASE OpEndsOnCall(r, FALSE) /\ OpPending(r)
      <4>1. opReq' = [opReq EXCEPT ![r] = OpQuiet]
        BY <2>4, <3>0, <3>2 DEF OpTool, OpToolRuns, OpOver
      <4> QED
        BY <1>0, <2>2, <2>3, <4>1, OpBoundMoves
    <3>3. CASE OpEndsOnCall(r, FALSE) /\ ~OpPending(r)
      <4> DEFINE q == [opReq[r] EXCEPT !.calls = <<>>, !.at = "ask", !.turn = @ + 1]
      <4>1. opReq' = [opReq EXCEPT ![r] = q]
        BY <2>4, <3>0, <3>3 DEF OpTool, OpToolRuns
      <4>2. q.turn = opReq[r].turn + 1 /\ q.at = "ask"
        BY <2>1 DEF OpReqs
      <4> HIDE DEF q
      <4>3. q.turn \in 0..OpMaxTurns
        BY <2>1, <3>0, <4>2
      <4> QED
        BY <2>2, <2>3, <4>1, <4>2, <4>3, OpBoundMoves
    <3> QED
      BY <3>1, <3>2, <3>3
  <2>5. CASE OpAnswer(r)
    <3>0. opReq[r].turn < OpMaxTurns
      BY <2>5 , <2>1 DEF OpAnswer
    <3>1. CASE opReq' = [opReq EXCEPT ![r] = OpQuiet]
      BY <1>0, <2>2, <2>3, <3>1, OpBoundMoves
    <3>2. ASSUME NEW calls, opReq' = [opReq EXCEPT ![r].at = "tool", ![r].calls = calls]
          PROVE  OpBounded'
      <4> DEFINE q == [opReq[r] EXCEPT !.at = "tool", !.calls = calls]
      <4>1. opReq' = [opReq EXCEPT ![r] = q]
        BY <3>2
      <4>2. q.turn = opReq[r].turn
        BY <2>1 DEF OpReqs
      <4> HIDE DEF q
      <4> QED
        BY <2>1, <2>2, <2>3, <3>0, <4>1, <4>2, OpBoundMoves
    <3> QED
      BY <2>5, <3>1, <3>2 DEF OpAnswer, OpAsked, OpOver
  <2>6. CASE OpConfirm(r) \/ OpResolve(r) \/ OpLimit(r)
    <3>1. CASE opReq' = [opReq EXCEPT ![r] = OpQuiet]
      BY <1>0, <2>2, <2>3, <3>1, OpBoundMoves
    <3>2. ASSUME NEW at \in {"resolve", "ask"}, opReq' = [opReq EXCEPT ![r].at = at]
          PROVE  OpBounded'
      <4> DEFINE q == [opReq[r] EXCEPT !.at = at]
      <4>1. opReq' = [opReq EXCEPT ![r] = q]
        BY <3>2
      <4>2. q.turn = opReq[r].turn /\ q.at = at
        BY <2>1 DEF OpReqs
      <4> HIDE DEF q
      <4> QED
        BY <2>1, <2>2, <2>3, <4>1, <4>2, OpBoundMoves
    <3> QED
      BY <2>6, <3>1, <3>2 DEF OpConfirm, OpResolve, OpLimit, OpGo, OpOver
  <2> QED
    BY <1>3, <2>4, <2>5, <2>6 DEF OpRuns
<1> QED
  BY <1>1, <1>2, <1>3 DEF OpNext

HIDE OpAssumption
-----------------------------------------------------------------------------
(* Sequences: the last one and those before it.                              *)
LEMMA FrontAndLast ==
  ASSUME NEW S, NEW seq \in Seq(S), seq # <<>>
  PROVE  /\ Front(seq) \in Seq(S) /\ Last(seq) \in S
         /\ seq = Append(Front(seq), Last(seq))
         /\ Len(seq) \in Nat \ {0} /\ Len(Front(seq)) = Len(seq) - 1
<1> PICK s \in Seq(S), x \in S : seq = Append(s, x)
  BY SequenceEmptyOrAppend
<1> PICK n \in Nat : n = Len(s)
  BY LenProperties
<1>1. /\ Len(seq) = n + 1 /\ seq[n + 1] = x
      /\ \A i \in 1..n : seq[i] = s[i]
  BY AppendProperties
<1>2. Last(seq) = x
  BY <1>1 DEF Last
<1>3. SubSeq(seq, 1, n) \in Seq(S) /\ Len(SubSeq(seq, 1, n)) = n
      /\ \A i \in 1..n : SubSeq(seq, 1, n)[i] = s[i]
  <2>1. 1 \in Int /\ n \in Int /\ \A i \in 1..n : seq[i] \in S
    BY <1>1, ElementOfSeq
  <2>2. /\ SubSeq(seq, 1, n) \in Seq(S)
        /\ Len(SubSeq(seq, 1, n)) = (IF 1 <= n THEN n - 1 + 1 ELSE 0)
        /\ \A i \in 1..(n - 1 + 1) : SubSeq(seq, 1, n)[i] = seq[1 + i - 1]
    BY <2>1, SubSeqProperties
  <2>3. n - 1 + 1 = n /\ \A i \in 1..n : 1 + i - 1 = i
    OBVIOUS
  <2> QED
    BY <1>1, <2>2, <2>3
<1>4. SubSeq(seq, 1, n) = s
  BY <1>3, SeqEqual
<1>5. Front(seq) = s
  <2>1. Len(seq) - 1 = n
    BY <1>1
  <2> QED
    BY <1>4, <2>1 DEF Front
<1> QED
  BY <1>1, <1>2, <1>5

LEMMA FrontOfAppend ==
  ASSUME NEW S, NEW seq \in Seq(S), NEW x \in S
  PROVE  Front(Append(seq, x)) = seq /\ Last(Append(seq, x)) = x
<1>1. Append(seq, x) \in Seq(S) /\ Append(seq, x) # <<>>
  BY AppendProperties
<1>2. Append(seq, x) = Append(Front(Append(seq, x)), Last(Append(seq, x)))
      /\ Front(Append(seq, x)) \in Seq(S) /\ Last(Append(seq, x)) \in S
  BY <1>1, FrontAndLast
<1> QED
  BY <1>2, AppendInjective

\* Every sequence, by induction on what is appended.
CharsOp(p, n, w) == n + w.chars
Chars == INSTANCE FiniteInduction WITH Op <- CharsOp

LEMMA OneAtATime ==
  ASSUME NEW S, NEW T, <<>> \in T, \A s \in Seq(S), x \in S : s \in T => Append(s, x) \in T
  PROVE  \A s \in Seq(S) : s \in T
BY Chars!AppendInduction
-----------------------------------------------------------------------------
(* The folds of the formatter.                                              *)
LEMMA CharsIs ==
  ASSUME NEW words PROVE StChars(words) = Chars!Fold(0, Len(words) - 1, words)
BY DEF StChars, Chars!Fold, FoldLeft, Chars!FoldLeft, MapThenFoldSet, Chars!MapThenFoldSet,
       Max, Chars!Max, CharsOp

InOneOp(p, text, line) == text \o line
InOne == INSTANCE FiniteInduction WITH Op <- InOneOp
LEMMA InOneIs ==
  ASSUME NEW lines PROVE StInOne(lines) = InOne!Fold(0, <<>>, lines)
BY DEF StInOne, InOne!Fold, FoldLeft, InOne!FoldLeft, MapThenFoldSet, InOne!MapThenFoldSet,
       Max, InOne!Max, InOneOp

WrapOp(p, acc, w) == StWrapWord(acc, w)
Wrap == INSTANCE FiniteInduction WITH Op <- WrapOp
LEMMA WrapIs ==
  ASSUME NEW base, NEW words PROVE FoldLeft(StWrapWord, base, words) = Wrap!Fold(0, base, words)
BY DEF Wrap!Fold, FoldLeft, Wrap!FoldLeft, MapThenFoldSet, Wrap!MapThenFoldSet,
       Max, Wrap!Max, WrapOp

TakeOp(p, acc, w) == StTake(acc, w)
Take == INSTANCE FiniteInduction WITH Op <- TakeOp
LEMMA TakeIs ==
  ASSUME NEW base, NEW words PROVE FoldLeft(StTake, base, words) = Take!Fold(0, base, words)
BY DEF Take!Fold, FoldLeft, Take!FoldLeft, MapThenFoldSet, Take!MapThenFoldSet,
       Max, Take!Max, TakeOp

AbsorbOp(p, groups, g) == StAbsorb(groups, g)
Absorb == INSTANCE FiniteInduction WITH Op <- AbsorbOp
LEMMA AbsorbIs ==
  ASSUME NEW gs PROVE FoldLeft(StAbsorb, <<>>, gs) = Absorb!Fold(0, <<>>, gs)
BY DEF Absorb!Fold, FoldLeft, Absorb!FoldLeft, MapThenFoldSet, Absorb!MapThenFoldSet,
       Max, Absorb!Max, AbsorbOp

ShortOp(p, groups, g) == StMergeShort(groups, g)
Short == INSTANCE FiniteInduction WITH Op <- ShortOp
LEMMA ShortIs ==
  ASSUME NEW gs PROVE FoldLeft(StMergeShort, <<>>, gs) = Short!Fold(0, <<>>, gs)
BY DEF Short!Fold, FoldLeft, Short!FoldLeft, MapThenFoldSet, Short!MapThenFoldSet,
       Max, Short!Max, ShortOp

CueOp(p, cues, words) == StCue(cues, words)
Cue == INSTANCE FiniteInduction WITH Op <- CueOp
LEMMA CueIs ==
  ASSUME NEW gs PROVE FoldLeft(StCue, <<>>, gs) = Cue!Fold(0, <<>>, gs)
BY DEF Cue!Fold, FoldLeft, Cue!FoldLeft, MapThenFoldSet, Cue!MapThenFoldSet,
       Max, Cue!Max, CueOp
-----------------------------------------------------------------------------
(* The sizes the code is given.                                              *)
LEMMA SizesTyped ==
  /\ StChunk \in Nat \ {0} /\ StOverlap \in Nat \ {0} /\ StSpeech \in Nat \ {0}
  /\ StRate \in Nat \ {0} /\ StSecond \in Nat \ {0}
  /\ StMin \in Nat \ {0} /\ StMax \in Nat \ {0} /\ StGap \in Nat /\ StLines \in Nat
  /\ StChunk > 2 * StOverlap + StSpeech - 1
BY StAssumption

LEMMA WordSizesTyped ==
  /\ \A n \in StSizes : n \in Nat
  /\ \A n \in StPauses : n \in Nat
  /\ \A n \in StSpans : n \in Nat \ {0}
BY StAssumption

LEMMA LengthsTyped == StLengths \subseteq Nat \ {0} /\ StWords \in Nat
BY StAssumption

(* Words, and the texts of several lines in one.                             *)
StWordOf == [chars : StSizes, start : Nat, end : Nat, mark : {"none", "stop", "title"}]
Text == Seq(StWordOf)
Groups == Text \ {<<>>}

LEMMA TextJoins ==
  /\ <<>> \in Text /\ \A w \in StWordOf : <<w>> \in Text
  /\ \A a \in Text, w \in StWordOf : Append(a, w) \in Text /\ Append(a, w) = a \o <<w>>
  /\ \A a, b \in Text : a \o b \in Text
  /\ \A a \in Text : a \o <<>> = a /\ <<>> \o a = a
BY EmptySeq, AppendProperties, AppendIsConcat, ConcatProperties, ConcatEmptySeq DEF Text

LEMMA Associates == \A a, b, c \in Text : (a \o b) \o c = a \o (b \o c)
BY ConcatAssociative DEF Text

LEMMA WordTyped ==
  ASSUME NEW w \in StWordOf
  PROVE  w.chars \in Int /\ w.start \in Int /\ w.end \in Int
<1>1. w.chars \in StSizes /\ w.start \in Nat /\ w.end \in Nat
  BY DEF StWordOf
<1> QED
  BY <1>1, WordSizesTyped

LEMMA CharsTyped ==
  ASSUME NEW words \in Seq(StWordOf)
  PROVE  StChars(words) \in Int
<1> PICK n \in Int : n = Len(words) - 1
  BY LenProperties
<1> DEFINE T == {s \in Seq(StWordOf) : Chars!Fold(0, n, s) \in Int}
<1>1. <<>> \in T
  BY EmptySeq, Chars!FoldEmpty
<1>2. ASSUME NEW s \in Seq(StWordOf), NEW w \in StWordOf, s \in T PROVE Append(s, w) \in T
  <2>1. Chars!Fold(0, n, Append(s, w)) = CharsOp(0, Chars!Fold(0, n, s), w)
    BY Chars!FoldAppend
  <2>2. Chars!Fold(0, n, s) \in Int /\ w.chars \in Int
    BY <1>2, WordTyped
  <2>3. Append(s, w) \in Seq(StWordOf)
    BY AppendProperties
  <2> QED
    BY <2>1, <2>2, <2>3 DEF CharsOp
<1>3. words \in T
  <2> HIDE DEF T
  <2> QED
    BY <1>1, <1>2, OneAtATime
<1> QED
  BY <1>3, CharsIs

LEMMA InOneEmpty == StInOne(<<>>) = <<>>
BY InOneIs, InOne!FoldEmpty

LEMMA InOneAppend ==
  ASSUME NEW S, NEW lines \in Seq(S), NEW line \in S
  PROVE  StInOne(Append(lines, line)) = StInOne(lines) \o line
<1>1. InOne!Fold(0, <<>>, Append(lines, line)) = InOneOp(0, InOne!Fold(0, <<>>, lines), line)
  BY InOne!FoldAppend
<1> QED
  BY <1>1, InOneIs DEF InOneOp

LEMMA InOneTyped ==
  ASSUME NEW lines \in Seq(Text)
  PROVE  StInOne(lines) \in Text
<1> DEFINE T == {s \in Seq(Text) : StInOne(s) \in Text}
<1>1. <<>> \in T
  BY EmptySeq, InOneEmpty, TextJoins
<1>2. ASSUME NEW s \in Seq(Text), NEW x \in Text, s \in T PROVE Append(s, x) \in T
  <2>1. StInOne(Append(s, x)) = StInOne(s) \o x /\ StInOne(s) \in Text
    BY <1>2, InOneAppend
  <2>2. Append(s, x) \in Seq(Text)
    BY AppendProperties
  <2> QED
    BY <2>1, <2>2, TextJoins
<1>3. lines \in T
  <2> HIDE DEF T
  <2> QED
    BY <1>1, <1>2, OneAtATime
<1> QED
  BY <1>3

\* The last line and the next in one line: the text is the same.
LEMMA InOneJoins ==
  ASSUME NEW lines \in Seq(Text), lines # <<>>, NEW line \in Text
  PROVE  StInOne(Append(Front(lines), Last(lines) \o line)) = StInOne(lines) \o line
<1>1. /\ Front(lines) \in Seq(Text) /\ Last(lines) \in Text
      /\ lines = Append(Front(lines), Last(lines))
  BY FrontAndLast
<1> PICK f \in Seq(Text), l \in Text : f = Front(lines) /\ l = Last(lines)
  BY <1>1
<1>2. StInOne(lines) = StInOne(f) \o l
  BY <1>1, InOneAppend
<1>3. l \o line \in Text
  BY TextJoins
<1>4. StInOne(Append(f, l \o line)) = StInOne(f) \o (l \o line)
  BY <1>3, InOneAppend
<1>5. (StInOne(f) \o l) \o line = StInOne(f) \o (l \o line)
  <2>1. StInOne(f) \in Text
    BY InOneTyped
  <2> QED
    BY <2>1, Associates
<1> QED
  BY <1>2, <1>4, <1>5
-----------------------------------------------------------------------------
(* Wrapping a group that fits its lines keeps every word.                    *)
WrapState == [full : Seq(Text), line : Text, over : BOOLEAN]
WrapBase == [full |-> <<>>, line |-> <<>>, over |-> FALSE]

LEMMA WrapStates ==
  ASSUME NEW f \in Seq(Text), NEW l \in Text, NEW o \in BOOLEAN
  PROVE  [full |-> f, line |-> l, over |-> o] \in WrapState
BY DEF WrapState

WrapOK(words, acc) ==
  /\ acc \in WrapState
  /\ words = <<>> => acc.line = <<>>
  /\ acc.over => Len(acc.full) >= StLines /\ Len(words) >= 2
  /\ ~acc.over => StInOne(acc.full) \o acc.line = words

LEMMA WrapStarts == WrapOK(<<>>, WrapBase)
<1>1. <<>> \in Seq(Text) /\ <<>> \in Text
  BY EmptySeq, TextJoins
<1>2. StInOne(<<>>) \o <<>> = <<>>
  BY InOneEmpty, TextJoins
<1> QED
  BY <1>1, <1>2 DEF WrapOK, WrapState, WrapBase

LEMMA WrapStep ==
  ASSUME NEW s \in Text, NEW w \in StWordOf, NEW acc, WrapOK(s, acc)
  PROVE  WrapOK(Append(s, w), StWrapWord(acc, w))
<1> PICK full \in Seq(Text), line \in Text, over \in BOOLEAN :
            acc = [full |-> full, line |-> line, over |-> over]
  BY DEF WrapOK, WrapState
<1>1. /\ s = <<>> => line = <<>>
      /\ over => Len(full) >= StLines /\ Len(s) >= 2
      /\ ~over => StInOne(full) \o line = s
  BY DEF WrapOK
<1>2. /\ Append(s, w) \in Text /\ Append(s, w) # <<>> /\ Len(Append(s, w)) = Len(s) + 1
      /\ Len(s) \in Nat /\ Len(full) \in Nat
  BY AppendProperties, LenProperties DEF Text
<1>3. CASE over
  <2>1. StWrapWord(acc, w) = acc
    BY <1>3 DEF StWrapWord
  <2>2. Len(Append(s, w)) >= 2
    BY <1>1, <1>2, <1>3
  <2> QED
    BY <1>1, <1>2, <1>3, <2>1, <2>2 DEF WrapOK, WrapState
<1>4. CASE ~over /\ (line = <<>> \/ StChars(Append(line, w)) <= StLine)
  <2>1. StWrapWord(acc, w) = [full |-> full, line |-> Append(line, w), over |-> FALSE]
    BY <1>4 DEF StWrapWord
  <2>2. Append(line, w) \in Text /\ Append(line, w) = line \o <<w>>
        /\ Append(s, w) = s \o <<w>> /\ <<w>> \in Text
    BY TextJoins
  <2>3. (StInOne(full) \o line) \o <<w>> = StInOne(full) \o (line \o <<w>>)
    <3>1. StInOne(full) \in Text
      BY InOneTyped
    <3> QED
      BY <2>2, <3>1, Associates
  <2>4. StInOne(full) \o Append(line, w) = Append(s, w)
    BY <1>1, <1>4, <2>2, <2>3
  <2>5. /\ StWrapWord(acc, w).full = full /\ StWrapWord(acc, w).line = Append(line, w)
        /\ StWrapWord(acc, w).over = FALSE
    BY <2>1
  <2>6. StWrapWord(acc, w) \in WrapState
    BY <2>1, <2>2, WrapStates
  <2> QED
    BY <1>2, <1>4, <2>5, <2>6, <2>4 DEF WrapOK
<1>5. CASE ~over /\ ~(line = <<>> \/ StChars(Append(line, w)) <= StLine)
  <2>1. StWrapWord(acc, w) = [full |-> Append(full, line), line |-> <<w>>,
                              over |-> Len(full) + 1 >= StLines]
    BY <1>5 DEF StWrapWord
  <2>2. /\ Append(full, line) \in Seq(Text) /\ Len(Append(full, line)) = Len(full) + 1
        /\ <<w>> \in Text /\ Append(s, w) = s \o <<w>>
    BY AppendProperties, TextJoins
  <2>3. StInOne(Append(full, line)) \o <<w>> = Append(s, w)
    BY <1>1, <1>5, <2>2, InOneAppend
  <2>4. Len(Append(s, w)) >= 2
    <3>1. s # <<>>
      BY <1>1, <1>5
    <3>2. Len(s) \in Nat \ {0}
      BY <3>1, EmptySeq DEF Text
    <3> QED
      BY <1>2, <3>2
  <2>6. /\ StWrapWord(acc, w).full = Append(full, line) /\ StWrapWord(acc, w).line = <<w>>
        /\ StWrapWord(acc, w).over = (Len(full) + 1 >= StLines)
    BY <2>1
  <2>7. StWrapWord(acc, w) \in WrapState
    <3>1. (Len(full) + 1 >= StLines) \in BOOLEAN
      OBVIOUS
    <3> QED
      BY <2>1, <2>2, <3>1, WrapStates
  <2> QED
    BY <1>2, <2>2, <2>3, <2>4, <2>6, <2>7 DEF WrapOK
<1> QED
  BY <1>3, <1>4, <1>5

LEMMA WrapsWell ==
  ASSUME NEW words \in Text
  PROVE  WrapOK(words, FoldLeft(StWrapWord, WrapBase, words))
<1> DEFINE T == {s \in Text : WrapOK(s, Wrap!Fold(0, WrapBase, s))}
<1>1. <<>> \in T
  BY WrapStarts, TextJoins, Wrap!FoldEmpty
<1>2. ASSUME NEW s \in Text, NEW w \in StWordOf, s \in T PROVE Append(s, w) \in T
  <2>1. Wrap!Fold(0, WrapBase, Append(s, w)) = StWrapWord(Wrap!Fold(0, WrapBase, s), w)
    BY Wrap!FoldAppend DEF WrapOp, Text
  <2>2. WrapOK(s, Wrap!Fold(0, WrapBase, s))
    BY <1>2
  <2>3. Append(s, w) \in Text
    BY TextJoins
  <2> QED
    BY <2>1, <2>2, <2>3, WrapStep
<1>3. words \in T
  <2> HIDE DEF T
  <2> QED
    BY <1>1, <1>2, OneAtATime DEF Text
<1> QED
  BY <1>3, WrapIs

Wholes == {g \in Groups : Len(g) = 1 \/ StFits(g)}

LEMMA SeveralFit == ASSUME NEW g \in Wholes, Len(g) >= 2 PROVE StFits(g)
<1>1. Len(g) # 1
  OBVIOUS
<1> QED
  BY <1>1 DEF Wholes

LEMMA WholeIsShown == ASSUME NEW g \in Wholes PROVE StInOne(StWrap(g)) = g
<1> DEFINE acc == FoldLeft(StWrapWord, WrapBase, g)
<1>0. g \in Text
  BY DEF Wholes, Groups
<1>1. WrapOK(g, acc)
  BY <1>0, WrapsWell
<1>2. StWrap(g) = Append(acc.full, acc.line)
  BY DEF StWrap, StWithLine, WrapBase
<1> HIDE DEF acc
<1>3. acc.full \in Seq(Text) /\ acc.line \in Text /\ acc.over \in BOOLEAN
  BY <1>1 DEF WrapOK, WrapState
<1>4. ASSUME acc.over PROVE FALSE
  <2>1. Len(StWrap(g)) = Len(acc.full) + 1 /\ Len(acc.full) \in Nat
    BY <1>2, <1>3, AppendProperties, LenProperties
  <2>2. Len(acc.full) >= StLines /\ Len(g) >= 2
    BY <1>1, <1>4 DEF WrapOK
  <2>3. ~StLinesFit(StWrap(g))
    BY <2>1, <2>2, SizesTyped DEF StLinesFit
  <2>4. StFits(g)
    BY <2>2, SeveralFit
  <2> QED
    BY <2>3, <2>4 DEF StFits
<1>5. StInOne(acc.full) \o acc.line = g
  BY <1>1, <1>3, <1>4 DEF WrapOK
<1> QED
  BY <1>2, <1>3, <1>5, InOneAppend
-----------------------------------------------------------------------------
(* Grouping the words keeps them all, in groups that fit or are one word.    *)
LEMMA WholesAre ==
  /\ \A g \in Wholes : g \in Text /\ g # <<>>
  /\ Seq(Wholes) \subseteq Seq(Text)
  /\ \A w \in StWordOf : <<w>> \in Wholes
<1>1. Wholes \subseteq Text
  BY DEF Wholes, Groups
<1>2. \A w \in StWordOf : <<w>> \in Text /\ <<w>> # <<>> /\ Len(<<w>>) = 1
  BY TextJoins
<1>3. \A w \in StWordOf : <<w>> \in Wholes
  BY <1>2 DEF Wholes, Groups
<1> QED
  BY <1>1, <1>3, SeqMonotonic DEF Wholes, Groups

LEMMA FitsWhole ==
  ASSUME NEW a \in Text, NEW b \in Text, b # <<>>, StFits(a \o b)
  PROVE  a \o b \in Wholes
<1>1. a \o b \in Text
  BY TextJoins
<1>2. a \o b # <<>>
  BY ConcatEqualIffEmpty DEF Text
<1> QED
  BY <1>1, <1>2 DEF Wholes, Groups

TakeState == [done : Seq(Wholes), open : Wholes \cup {<<>>}]
TakeOK(words, acc) == acc \in TakeState /\ StInOne(acc.done) \o acc.open = words

LEMMA TakeStates ==
  ASSUME NEW d \in Seq(Wholes), NEW o \in Wholes \cup {<<>>}
  PROVE  [done |-> d, open |-> o] \in TakeState
BY DEF TakeState

LEMMA ClosesOne ==
  ASSUME NEW done \in Seq(Wholes), NEW open \in Wholes
  PROVE  /\ Append(done, open) \in Seq(Wholes)
         /\ StInOne(Append(done, open)) = StInOne(done) \o open
         /\ StInOne(Append(done, open)) \in Text
<1>1. Append(done, open) \in Seq(Wholes)
  BY AppendProperties
<1>2. done \in Seq(Text) /\ open \in Text /\ Append(done, open) \in Seq(Text)
  BY <1>1, WholesAre
<1> QED
  BY <1>1, <1>2, InOneAppend, InOneTyped

LEMMA TakenStep ==
  ASSUME NEW d \in Seq(Wholes), NEW o \in Wholes
  PROVE  TakeOK(StInOne(d) \o o, StTaken(d, o))
<1>1. CASE StTaken(d, o) = [done |-> d, open |-> o]
  BY <1>1, TakeStates DEF TakeOK
<1>2. CASE StTaken(d, o) = [done |-> Append(d, o), open |-> <<>>]
  <2>1. [done |-> Append(d, o), open |-> <<>>] \in TakeState
    BY ClosesOne, TakeStates
  <2>2. StInOne(Append(d, o)) \o <<>> = StInOne(d) \o o
    BY ClosesOne, TextJoins
  <2> QED
    BY <1>2, <2>1, <2>2 DEF TakeOK
<1> QED
  BY <1>1, <1>2 DEF StTaken

LEMMA TakeStep ==
  ASSUME NEW s \in Text, NEW w \in StWordOf, NEW acc, TakeOK(s, acc)
  PROVE  TakeOK(Append(s, w), StTake(acc, w))
<1> PICK d \in Seq(Wholes), o \in Wholes \cup {<<>>} : acc = [done |-> d, open |-> o]
  BY DEF TakeOK, TakeState
<1>1. StInOne(d) \o o = s
  BY DEF TakeOK
<1>2. /\ StInOne(d) \in Text /\ o \in Text /\ <<w>> \in Text /\ <<w>> \in Wholes
      /\ Append(s, w) = s \o <<w>> /\ Append(o, w) = o \o <<w>>
  <2>1. d \in Seq(Text) /\ o \in Text
    BY WholesAre, TextJoins
  <2> QED
    BY <2>1, WholesAre, InOneTyped, TextJoins
<1>3. (StInOne(d) \o o) \o <<w>> = StInOne(d) \o (o \o <<w>>)
  BY <1>2, Associates
<1>4. CASE o # <<>> /\ ~StFits(Append(o, w))
  <2>1. StTake(acc, w) = StTaken(Append(d, o), <<w>>)
    BY <1>4 DEF StTake
  <2>2. o \in Wholes
    BY <1>4
  <2>3. Append(d, o) \in Seq(Wholes) /\ StInOne(Append(d, o)) = s
    BY <1>1, <2>2, ClosesOne
  <2> QED
    BY <1>2, <2>1, <2>3, TakenStep
<1>5. CASE ~(o # <<>> /\ ~StFits(Append(o, w)))
  <2>1. StTake(acc, w) = StTaken(d, Append(o, w))
    BY <1>5 DEF StTake
  <2>2. Append(o, w) \in Wholes
    <3>1. CASE o = <<>>
      BY <1>2, <3>1, TextJoins
    <3>2. CASE StFits(Append(o, w))
      <4>1. <<w>> # <<>> /\ StFits(o \o <<w>>)
        BY <1>2, <3>2, WholesAre
      <4> QED
        BY <1>2, <4>1, FitsWhole
    <3> QED
      BY <1>5, <3>1, <3>2
  <2>3. TakeOK(StInOne(d) \o Append(o, w), StTaken(d, Append(o, w)))
    BY <2>2, TakenStep
  <2> QED
    BY <1>1, <1>2, <1>3, <2>1, <2>3
<1> QED
  BY <1>4, <1>5

TakeBase == [done |-> <<>>, open |-> <<>>]

LEMMA TakesWell ==
  ASSUME NEW words \in Text
  PROVE  TakeOK(words, FoldLeft(StTake, TakeBase, words))
<1> DEFINE T == {s \in Text : TakeOK(s, Take!Fold(0, TakeBase, s))}
<1>1. <<>> \in T
  <2>1. StInOne(<<>>) \o <<>> = <<>>
    BY InOneEmpty, TextJoins
  <2>2. TakeBase \in TakeState
    BY TakeStates, EmptySeq DEF TakeBase
  <2>3. TakeOK(<<>>, TakeBase)
    BY <2>1, <2>2 DEF TakeOK, TakeBase
  <2> QED
    BY <2>3, Take!FoldEmpty, TextJoins
<1>2. ASSUME NEW s \in Text, NEW w \in StWordOf, s \in T PROVE Append(s, w) \in T
  <2>1. Take!Fold(0, TakeBase, Append(s, w)) = StTake(Take!Fold(0, TakeBase, s), w)
    BY Take!FoldAppend DEF TakeOp, Text
  <2>2. TakeOK(s, Take!Fold(0, TakeBase, s))
    BY <1>2
  <2>3. Append(s, w) \in Text
    BY TextJoins
  <2> QED
    BY <2>1, <2>2, <2>3, TakeStep
<1>3. words \in T
  <2> HIDE DEF T
  <2> QED
    BY <1>1, <1>2, OneAtATime DEF Text
<1> QED
  BY <1>3, TakeIs

LEMMA ClosesWell ==
  ASSUME NEW words, NEW acc, TakeOK(words, acc)
  PROVE  StClosed(acc) \in Seq(Wholes) /\ StInOne(StClosed(acc)) = words
<1> PICK d \in Seq(Wholes), o \in Wholes \cup {<<>>} : acc = [done |-> d, open |-> o]
  BY DEF TakeOK, TakeState
<1>1. StInOne(d) \o o = words
  BY DEF TakeOK
<1>2. CASE o = <<>>
  <2>1. StInOne(d) \in Text
    BY WholesAre, InOneTyped
  <2>2. StClosed(acc) = d
    BY <1>2 DEF StClosed
  <2> QED
    BY <1>1, <1>2, <2>1, <2>2, TextJoins
<1>3. CASE o # <<>>
  <2>1. StClosed(acc) = Append(d, o) /\ o \in Wholes
    BY <1>3 DEF StClosed
  <2> QED
    BY <1>1, <2>1, ClosesOne
<1> QED
  BY <1>2, <1>3

\* One more group, alone or joined to the one before.
LEMMA JoinStep ==
  ASSUME NEW groups \in Seq(Wholes), NEW g \in Wholes, NEW next,
         \/ next = Append(groups, g)
         \/ /\ groups # <<>> /\ StFits(Last(groups) \o g)
            /\ next = Append(Front(groups), Last(groups) \o g)
  PROVE  next \in Seq(Wholes) /\ StInOne(next) = StInOne(groups) \o g
<1>1. CASE next = Append(groups, g)
  BY <1>1, ClosesOne
<1>2. CASE /\ groups # <<>> /\ StFits(Last(groups) \o g)
           /\ next = Append(Front(groups), Last(groups) \o g)
  <2>1. Front(groups) \in Seq(Wholes) /\ Last(groups) \in Wholes
    BY <1>2, FrontAndLast
  <2>2. Last(groups) \o g \in Wholes
    BY <1>2, <2>1, FitsWhole, WholesAre
  <2>3. next \in Seq(Wholes)
    BY <1>2, <2>1, <2>2, AppendProperties
  <2>4. groups \in Seq(Text) /\ g \in Text
    BY WholesAre
  <2> QED
    BY <1>2, <2>3, <2>4, InOneJoins
<1> QED
  BY <1>1, <1>2

LEMMA AbsorbsWell ==
  ASSUME NEW gs \in Seq(Wholes)
  PROVE  /\ FoldLeft(StAbsorb, <<>>, gs) \in Seq(Wholes)
         /\ StInOne(FoldLeft(StAbsorb, <<>>, gs)) = StInOne(gs)
<1> DEFINE T == {s \in Seq(Wholes) : /\ Absorb!Fold(0, <<>>, s) \in Seq(Wholes)
                                     /\ StInOne(Absorb!Fold(0, <<>>, s)) = StInOne(s)}
<1>1. <<>> \in T
  BY EmptySeq, Absorb!FoldEmpty
<1>2. ASSUME NEW s \in Seq(Wholes), NEW g \in Wholes, s \in T PROVE Append(s, g) \in T
  <2> PICK f \in Seq(Wholes) : f = Absorb!Fold(0, <<>>, s) /\ StInOne(f) = StInOne(s)
    BY <1>2
  <2>1. Absorb!Fold(0, <<>>, Append(s, g)) = StAbsorb(f, g)
    BY Absorb!FoldAppend DEF AbsorbOp
  <2>2. \/ StAbsorb(f, g) = Append(f, g)
        \/ /\ f # <<>> /\ StFits(Last(f) \o g)
           /\ StAbsorb(f, g) = Append(Front(f), Last(f) \o g)
    BY DEF StAbsorb
  <2>3. StAbsorb(f, g) \in Seq(Wholes) /\ StInOne(StAbsorb(f, g)) = StInOne(f) \o g
    BY <2>2, JoinStep
  <2>4. Append(s, g) \in Seq(Wholes) /\ StInOne(Append(s, g)) = StInOne(s) \o g
    BY ClosesOne
  <2> QED
    BY <2>1, <2>3, <2>4
<1>3. gs \in T
  <2> HIDE DEF T
  <2> QED
    BY <1>1, <1>2, OneAtATime
<1> QED
  BY <1>3, AbsorbIs

LEMMA MergesShort ==
  ASSUME NEW gs \in Seq(Wholes)
  PROVE  /\ FoldLeft(StMergeShort, <<>>, gs) \in Seq(Wholes)
         /\ StInOne(FoldLeft(StMergeShort, <<>>, gs)) = StInOne(gs)
<1> DEFINE T == {s \in Seq(Wholes) : /\ Short!Fold(0, <<>>, s) \in Seq(Wholes)
                                     /\ StInOne(Short!Fold(0, <<>>, s)) = StInOne(s)}
<1>1. <<>> \in T
  BY EmptySeq, Short!FoldEmpty
<1>2. ASSUME NEW s \in Seq(Wholes), NEW g \in Wholes, s \in T PROVE Append(s, g) \in T
  <2> PICK f \in Seq(Wholes) : f = Short!Fold(0, <<>>, s) /\ StInOne(f) = StInOne(s)
    BY <1>2
  <2>1. Short!Fold(0, <<>>, Append(s, g)) = StMergeShort(f, g)
    BY Short!FoldAppend DEF ShortOp
  <2>2. \/ StMergeShort(f, g) = Append(f, g)
        \/ /\ f # <<>> /\ StFits(Last(f) \o g)
           /\ StMergeShort(f, g) = Append(Front(f), Last(f) \o g)
    BY DEF StMergeShort
  <2>3. StMergeShort(f, g) \in Seq(Wholes) /\ StInOne(StMergeShort(f, g)) = StInOne(f) \o g
    BY <2>2, JoinStep
  <2>4. Append(s, g) \in Seq(Wholes) /\ StInOne(Append(s, g)) = StInOne(s) \o g
    BY ClosesOne
  <2> QED
    BY <2>1, <2>3, <2>4
<1>3. gs \in T
  <2> HIDE DEF T
  <2> QED
    BY <1>1, <1>2, OneAtATime
<1> QED
  BY <1>3, ShortIs
-----------------------------------------------------------------------------
(* Timing the groups: a cue for each, and each after the one before.         *)
StCueOf == [start : Int, end : Int, words : Wholes]

CueOK(gs, cues) ==
  /\ cues \in Seq(StCueOf) /\ StApart(cues)
  /\ Len(cues) = Len(gs) /\ \A j \in 1..Len(gs) : cues[j].words = gs[j]

LEMMA CueTyped ==
  ASSUME NEW c \in StCueOf
  PROVE  c.start \in Int /\ c.end \in Int /\ c.words \in Wholes
BY DEF StCueOf

LEMMA GroupTyped ==
  ASSUME NEW g \in Wholes
  PROVE  g[1].start \in Int /\ StNeeded(g) \in Int
<1>1. g \in Text /\ Len(g) \in Nat \ {0}
  BY WholesAre, EmptySeq DEF Text
<1>2. 1 \in 1..Len(g) /\ Len(g) \in 1..Len(g)
  BY <1>1
<1>3. g[1] \in StWordOf /\ g[Len(g)] \in StWordOf
  BY <1>1, <1>2, ElementOfSeq DEF Text
<1>4. g[1].start \in Int /\ Last(g).end \in Int
  BY <1>3, WordTyped DEF Last
<1>5. StChars(g) \in Int /\ StSpan(g) \in Int
  BY <1>1, <1>4, CharsTyped DEF StSpan, Text
<1> PICK c \in Int, d \in Int : c = StChars(g) /\ d = StSpan(g)
  BY <1>5
<1> DEFINE reading == (StSecond * c + StRate - 1) \div StRate
<1>6. StNeeded(g) = StLo(StMax, StHi(StMin, StHi(StHi(1, d), reading)))
  BY DEF StNeeded
<1>7. reading \in Int
  <2> PICK n \in Int : n = StSecond * c + StRate - 1
    BY SizesTyped
  <2> QED
    BY SizesTyped
<1> HIDE DEF reading
<1>8. \A a, b \in Int : StLo(a, b) \in Int /\ StHi(a, b) \in Int
  BY DEF StLo, StHi
<1>9. StNeeded(g) \in Int
  <2> PICK r \in Int : r = reading
    BY <1>7
  <2>1. StHi(StHi(1, d), r) \in Int /\ StMin \in Int /\ StMax \in Int
    BY <1>8, SizesTyped
  <2>2. StHi(StMin, StHi(StHi(1, d), r)) \in Int
    BY <1>8, <2>1
  <2> QED
    BY <1>6, <1>8, <2>1, <2>2
<1> QED
  BY <1>4, <1>9

\* A new cue after cues that leave it the gap.
LEMMA CueAdded ==
  ASSUME NEW cues \in Seq(StCueOf), StApart(cues), NEW c \in StCueOf,
         c.start < c.end, c.start >= c.words[1].start,
         cues # <<>> => c.start >= cues[Len(cues)].end + StGap
  PROVE  StApart(Append(cues, c))
<1> PICK n \in Nat : n = Len(cues)
  BY LenProperties
<1> PICK next : next = Append(cues, c)
  OBVIOUS
<1>1. /\ Len(next) = n + 1 /\ next[n + 1] = c /\ \A i \in 1..n : next[i] = cues[i]
      /\ n # 0 => cues # <<>>
  BY AppendProperties
<1>2. \A j \in 1..n : /\ cues[j].start < cues[j].end /\ cues[j].start >= cues[j].words[1].start
                      /\ j > 1 => cues[j].start >= cues[j - 1].end + StGap
  BY DEF StApart
<1>3. ASSUME NEW j \in 1..(n + 1)
      PROVE  /\ next[j].start < next[j].end /\ next[j].start >= next[j].words[1].start
             /\ j > 1 => next[j].start >= next[j - 1].end + StGap
  <2>1. CASE j = n + 1
    <3>1. next[j] = c
      BY <1>1, <2>1
    <3>2. ASSUME j > 1 PROVE next[j].start >= next[j - 1].end + StGap
      <4>1. j - 1 = n /\ n \in 1..n /\ n # 0
        BY <2>1, <3>2
      <4>2. next[j - 1] = cues[n] /\ c.start >= cues[n].end + StGap
        BY <1>1, <4>1
      <4> QED
        BY <3>1, <4>2
    <3> QED
      BY <3>1, <3>2
  <2>2. CASE j # n + 1
    <3>1. j \in 1..n /\ next[j] = cues[j]
      BY <1>1, <2>2
    <3>2. ASSUME j > 1 PROVE next[j - 1] = cues[j - 1]
      <4>1. j - 1 \in 1..n
        BY <3>1, <3>2
      <4> QED
        BY <1>1, <4>1
    <3> QED
      BY <1>2, <3>1, <3>2
  <2> QED
    BY <2>1, <2>2
<1> QED
  BY <1>1, <1>3 DEF StApart

\* The last cue cut, to no less than a tick.
LEMMA CueCut ==
  ASSUME NEW gs \in Seq(Wholes), NEW cues, CueOK(gs, cues), cues # <<>>, NEW end \in Int,
         Last(cues).start < end
  PROVE  LET cut == Append(Front(cues), [Last(cues) EXCEPT !.end = end])
         IN CueOK(gs, cut) /\ cut # <<>> /\ Last(cut).end = end
<1> DEFINE c == [Last(cues) EXCEPT !.end = end]
           cut == Append(Front(cues), c)
<1>0. cues \in Seq(StCueOf) /\ StApart(cues) /\ Len(cues) = Len(gs)
      /\ \A j \in 1..Len(gs) : cues[j].words = gs[j]
  BY DEF CueOK
<1>1. /\ Front(cues) \in Seq(StCueOf) /\ Last(cues) \in StCueOf
      /\ Len(cues) \in Nat \ {0} /\ Len(Front(cues)) = Len(cues) - 1
      /\ cues = Append(Front(cues), Last(cues))
  BY <1>0, FrontAndLast
<1> PICK f \in Seq(StCueOf), l \in StCueOf : f = Front(cues) /\ l = Last(cues)
  BY <1>1
<1> PICK n \in Nat : n = Len(f)
  BY LenProperties
<1>2. c = [l EXCEPT !.end = end] /\ c \in StCueOf /\ c.start = l.start /\ c.words = l.words
      /\ c.end = end
  BY DEF StCueOf
<1> HIDE DEF c
<1>3. /\ Len(cues) = n + 1 /\ \A i \in 1..n : cues[i] = f[i]
      /\ cues[n + 1] = l
  BY <1>1, AppendProperties, SMTT(30)
<1>4. \A j \in 1..(n + 1) :
        /\ cues[j].start < cues[j].end /\ cues[j].start >= cues[j].words[1].start
        /\ j > 1 => cues[j].start >= cues[j - 1].end + StGap
  BY <1>0, <1>3 DEF StApart
<1>5. StApart(f)
  <2>1. ASSUME NEW j \in 1..n
        PROVE  /\ f[j].start < f[j].end /\ f[j].start >= f[j].words[1].start
               /\ j > 1 => f[j].start >= f[j - 1].end + StGap
    <3>1. j \in 1..(n + 1) /\ f[j] = cues[j]
      BY <1>3
    <3>2. ASSUME j > 1 PROVE f[j - 1] = cues[j - 1]
      <4>1. j - 1 \in 1..n
        BY <3>2
      <4> QED
        BY <1>3, <4>1
    <3> QED
      BY <1>4, <3>1, <3>2
  <2> QED
    BY <2>1 DEF StApart
<1>6. c.start < c.end /\ c.start >= c.words[1].start
  <2>1. n + 1 \in 1..(n + 1)
    OBVIOUS
  <2>2. l.start >= l.words[1].start
    BY <1>3, <1>4, <2>1
  <2> QED
    BY <1>2, <2>2
<1>7. ASSUME f # <<>> PROVE c.start >= f[n].end + StGap
  <2>1. n \in 1..n /\ n + 1 \in 1..(n + 1) /\ n + 1 > 1 /\ (n + 1) - 1 = n
    <3>1. n # 0
      BY <1>7, EmptySeq
    <3> QED
      BY <3>1
  <2>2. cues[n + 1].start >= cues[n].end + StGap /\ cues[n] = f[n]
    BY <1>3, <1>4, <2>1
  <2> QED
    BY <1>2, <1>3, <2>2
<1>8. StApart(Append(f, c))
  BY <1>2, <1>5, <1>6, <1>7, CueAdded
<1>9. /\ Append(f, c) \in Seq(StCueOf) /\ Append(f, c) # <<>> /\ Len(Append(f, c)) = n + 1
      /\ Append(f, c)[n + 1] = c /\ \A i \in 1..n : Append(f, c)[i] = f[i]
  BY <1>2, AppendProperties
<1>10. \A j \in 1..(n + 1) : Append(f, c)[j].words = cues[j].words
  <2> TAKE j \in 1..(n + 1)
  <2>1. CASE j = n + 1
    BY <1>2, <1>3, <1>9, <2>1
  <2>2. CASE j # n + 1
    <3>1. j \in 1..n
      BY <2>2
    <3> QED
      BY <1>3, <1>9, <3>1
  <2> QED
    BY <2>1, <2>2
<1>11. Len(gs) = n + 1
  BY <1>0, <1>3
<1>12. \A j \in 1..Len(gs) : Append(f, c)[j].words = gs[j]
  BY <1>0, <1>10, <1>11
<1>13. CueOK(gs, Append(f, c))
  BY <1>8, <1>9, <1>11, <1>12 DEF CueOK
<1>14. Last(Append(f, c)) = c
  BY <1>9 DEF Last
<1> QED
  BY <1>2, <1>9, <1>13, <1>14

LEMMA EndTyped ==
  ASSUME NEW start \in Int, NEW end \in Int
  PROVE  StEnd(start, end) \in Int /\ start < StEnd(start, end)
BY SizesTyped DEF StEnd

LEMMA CueStep ==
  ASSUME NEW gs \in Seq(Wholes), NEW g \in Wholes, NEW cues, CueOK(gs, cues)
  PROVE  CueOK(Append(gs, g), StCue(cues, g))
<1> PICK start \in Int, needed \in Int : start = g[1].start /\ needed = StNeeded(g)
  BY GroupTyped
<1> DEFINE end == start + needed
           near == cues # <<>> /\ start < Last(cues).end + StGap
           cut == near /\ start - StGap - Last(cues).start >= StMin
           later == IF near /\ ~cut THEN Last(cues).end + StGap ELSE start
           before == IF cut THEN Append(Front(cues), [Last(cues) EXCEPT !.end = start - StGap])
                     ELSE cues
           new == [start |-> later, end |-> StEnd(later, end), words |-> g]
<1>1. StCue(cues, g) = Append(before, new)
  BY DEF StCue
<1>2. cues \in Seq(StCueOf) /\ StApart(cues)
  BY DEF CueOK
<1>3. cues # <<>> => Last(cues).start \in Int /\ Last(cues).end \in Int
  BY <1>2, FrontAndLast, CueTyped
<1>4. later \in Int /\ later >= start
  BY <1>3, SizesTyped
<1>5. CueOK(gs, before) /\ (before # <<>> => later >= Last(before).end + StGap)
  <2>1. CASE cut
    <3>1. start - StGap \in Int /\ Last(cues).start < start - StGap /\ cues # <<>>
      BY <1>3, <2>1, SizesTyped
    <3>2. CueOK(gs, before) /\ Last(before).end = start - StGap
      <4>1. before = Append(Front(cues), [Last(cues) EXCEPT !.end = start - StGap])
        BY <2>1
      <4> HIDE DEF before
      <4> QED
        BY <3>1, <4>1, CueCut
    <3>3. later = start
      BY <2>1
    <3> HIDE DEF later, before
    <3> QED
      BY <3>2, <3>3, SizesTyped
  <2>2. CASE ~cut
    <3>1. before = cues
      BY <2>2
    <3>2. ASSUME cues # <<>> PROVE later >= Last(cues).end + StGap
      <4>1. CASE near
        BY <1>3, <2>2, <3>2, <4>1, SizesTyped
      <4>2. CASE ~near
        BY <1>3, <2>2, <3>2, <4>2, SizesTyped
      <4> QED
        BY <4>1, <4>2
    <3> HIDE DEF later, before
    <3> QED
      BY <3>1, <3>2
  <2> QED
    BY <2>1, <2>2
<1> PICK b : b = before
  OBVIOUS
<1> PICK l \in Int : l = later
  BY <1>4
<1> PICK e \in Int : e = StEnd(l, start + needed) /\ l < e
  <2> PICK n \in Int : n = start + needed
    OBVIOUS
  <2>1. StEnd(l, n) \in Int /\ l < StEnd(l, n)
    BY EndTyped
  <2> QED
    BY <2>1
<1>6. new = [start |-> l, end |-> e, words |-> g]
  OBVIOUS
<1> PICK c : c = new
  OBVIOUS
<1> HIDE DEF new, before, later, cut, near, end
<1>7. c \in StCueOf /\ c.start = l /\ c.end = e /\ c.words = g
  BY <1>6 DEF StCueOf
<1>8. CueOK(gs, b) /\ (b # <<>> => l >= Last(b).end + StGap) /\ l >= start
  BY <1>4, <1>5
<1>9. StApart(Append(b, c))
  <2>1. b \in Seq(StCueOf) /\ StApart(b)
    BY <1>8 DEF CueOK
  <2>2. c.start < c.end /\ c.start >= c.words[1].start
    BY <1>7, <1>8
  <2>3. b # <<>> => c.start >= b[Len(b)].end + StGap
    BY <1>7, <1>8 DEF Last
  <2> QED
    BY <1>7, <2>1, <2>2, <2>3, CueAdded
<1>10. /\ Append(b, c) \in Seq(StCueOf) /\ Len(Append(b, c)) = Len(Append(gs, g))
       /\ \A j \in 1..Len(Append(gs, g)) : Append(b, c)[j].words = Append(gs, g)[j]
  <2> PICK n \in Nat : n = Len(gs)
    BY LenProperties
  <2>1. b \in Seq(StCueOf) /\ Len(b) = n /\ \A j \in 1..n : b[j].words = gs[j]
    BY <1>8 DEF CueOK
  <2>2. /\ Append(b, c) \in Seq(StCueOf) /\ Len(Append(b, c)) = n + 1
        /\ Append(b, c)[n + 1] = c /\ \A i \in 1..n : Append(b, c)[i] = b[i]
    BY <1>7, <2>1, AppendProperties
  <2>3. /\ Len(Append(gs, g)) = n + 1
        /\ Append(gs, g)[n + 1] = g /\ \A i \in 1..n : Append(gs, g)[i] = gs[i]
    BY AppendProperties
  <2>4. \A j \in 1..(n + 1) : Append(b, c)[j].words = Append(gs, g)[j]
    <3> TAKE j \in 1..(n + 1)
    <3>1. CASE j = n + 1
      BY <1>7, <2>2, <2>3, <3>1
    <3>2. CASE j # n + 1
      <4>1. j \in 1..n
        BY <3>2
      <4> QED
        BY <2>1, <2>2, <2>3, <4>1
    <3> QED
      BY <3>1, <3>2
  <2> QED
    BY <2>2, <2>3, <2>4
<1>11. StCue(cues, g) = Append(b, c)
  BY <1>1
<1> QED
  BY <1>9, <1>10, <1>11 DEF CueOK

LEMMA CuesWell ==
  ASSUME NEW gs \in Seq(Wholes)
  PROVE  CueOK(gs, FoldLeft(StCue, <<>>, gs))
<1> DEFINE T == {s \in Seq(Wholes) : CueOK(s, Cue!Fold(0, <<>>, s))}
<1>1. <<>> \in T
  <2>1. CueOK(<<>>, <<>>)
    BY EmptySeq DEF CueOK, StApart
  <2> QED
    BY <2>1, EmptySeq, Cue!FoldEmpty
<1>2. ASSUME NEW s \in Seq(Wholes), NEW g \in Wholes, s \in T PROVE Append(s, g) \in T
  <2>1. Cue!Fold(0, <<>>, Append(s, g)) = StCue(Cue!Fold(0, <<>>, s), g)
    BY Cue!FoldAppend DEF CueOp
  <2>2. CueOK(s, Cue!Fold(0, <<>>, s))
    BY <1>2
  <2>3. Append(s, g) \in Seq(Wholes)
    BY AppendProperties
  <2> QED
    BY <2>1, <2>2, <2>3, CueStep
<1>3. gs \in T
  <2> HIDE DEF T
  <2> QED
    BY <1>1, <1>2, OneAtATime
<1> QED
  BY <1>3, CueIs

\* What the formatter promises of any words.
LEMMA CuesAreGood ==
  ASSUME NEW words \in Text
  PROVE  LET cues == StCues(words)
         IN StApart(cues) /\ StInOne([j \in 1..Len(cues) |-> StText(cues[j])]) = words
<1> DEFINE closed == StClosed(FoldLeft(StTake, TakeBase, words))
           groups == FoldLeft(StAbsorb, <<>>, closed)
           gs == FoldLeft(StMergeShort, <<>>, groups)
           cues == StCues(words)
<1>1. closed \in Seq(Wholes) /\ StInOne(closed) = words
  BY TakesWell, ClosesWell
<1>2. groups = StGroups(words)
  BY DEF StGroups, TakeBase
<1>3. cues = FoldLeft(StCue, <<>>, gs)
  BY <1>2 DEF StCues
<1> HIDE DEF closed
<1>4. groups \in Seq(Wholes) /\ StInOne(groups) = words
  BY <1>1, AbsorbsWell
<1> HIDE DEF groups
<1>5. gs \in Seq(Wholes) /\ StInOne(gs) = words
  BY <1>4, MergesShort
<1> HIDE DEF gs
<1>6. CueOK(gs, cues)
  BY <1>3, <1>5, CuesWell
<1> HIDE DEF cues
<1> PICK n \in Nat : n = Len(gs)
  BY <1>5, LenProperties
<1>7. /\ cues \in Seq(StCueOf) /\ Len(cues) = n /\ \A j \in 1..n : cues[j].words = gs[j]
      /\ StApart(cues)
  BY <1>6 DEF CueOK
<1> DEFINE texts == [j \in 1..n |-> StText(cues[j])]
<1>8. ASSUME NEW j \in 1..n PROVE texts[j] = gs[j] /\ gs[j] \in Wholes
  <2>1. gs[j] \in Wholes
    BY <1>5, ElementOfSeq
  <2>2. StText(cues[j]) = gs[j]
    BY <1>7, <2>1, WholeIsShown DEF StText
  <2> QED
    BY <2>1, <2>2
<1>9. texts = gs
  <2>1. texts \in [1..n -> Wholes]
    BY <1>8
  <2>2. texts \in Seq(Wholes) /\ Len(texts) = n
    BY <2>1
  <2> HIDE DEF texts
  <2> QED
    BY <1>5, <1>8, <2>2, SeqEqual
<1> QED
  BY <1>5, <1>7, <1>9 DEF cues
-----------------------------------------------------------------------------
(* The plan: chunks a step apart, the last one the only one that is cut.     *)
LEMMA Extremes ==
  ASSUME NEW S, IsFiniteSet(S), S # {}, \A x \in S : x \in Int
  PROVE  \E l, m \in S : \A x \in S : l <= x /\ x <= m
<1>1. Chars!IsFiniteSet(S) <=> IsFiniteSet(S)
  BY DEF IsFiniteSet, Chars!IsFiniteSet
<1> QED
  BY <1>1, Chars!ExtremesExist

\* Where the chunk of an index begins: a step, chunk less overlap, after the last.
StStep == StChunk - StOverlap
StAt(i) == (i - 1) * StStep
\* Where the one after n others ends, unless the sound does.
StReach(n) == n * StStep + StChunk

LEMMA StepTyped == StStep \in Nat \ {0} /\ StStep = StChunk - StOverlap
BY SizesTyped DEF StStep

LEMMA StepsGrow ==
  ASSUME NEW s \in Nat \ {0}, NEW i \in Nat, NEW j \in Nat
  PROVE  /\ i * s \in Nat /\ 0 * s = 0 /\ (i + 1) * s = i * s + s /\ i * s >= i
         /\ i < j => i * s + s <= j * s
<1>1. i * s \in Nat /\ 0 * s = 0 /\ (i + 1) * s = i * s + s
  OBVIOUS
<1>2. i * s >= i
  <2> PICK t \in Nat : s = t + 1
    <3>1. s - 1 \in Nat /\ s = (s - 1) + 1
      OBVIOUS
    <3> QED
      BY <3>1
  <2>1. i * s = i * t + i /\ i * t \in Nat
    OBVIOUS
  <2> QED
    BY <2>1
<1>3. ASSUME i < j PROVE i * s + s <= j * s
  <2> PICK d \in Nat : j = i + 1 + d
    <3>1. j - i - 1 \in Nat /\ j = i + 1 + (j - i - 1)
      BY <1>3
    <3> QED
      BY <3>1
  <2>1. j * s = i * s + s + d * s /\ d * s \in Nat
    OBVIOUS
  <2> QED
    BY <1>1, <2>1
<1> QED
  BY <1>1, <1>2, <1>3

LEMMA StartsApart ==
  ASSUME NEW i \in Nat \ {0}, NEW j \in Nat \ {0}
  PROVE  /\ StAt(i) \in Nat /\ StAt(1) = 0 /\ StAt(i + 1) = StAt(i) + StStep
         /\ i < j => StAt(i) + StStep <= StAt(j)
<1> PICK s \in Nat \ {0} : s = StStep
  BY StepTyped
<1> PICK a \in Nat, b \in Nat : a = i - 1 /\ b = j - 1
  OBVIOUS
<1>1. /\ a * s \in Nat /\ 0 * s = 0 /\ (a + 1) * s = a * s + s
      /\ a < b => a * s + s <= b * s
  BY StepsGrow
<1>2. StAt(i) = a * s /\ StAt(j) = b * s /\ StAt(1) = 0 * s /\ StAt(i + 1) = (a + 1) * s
  BY DEF StAt
<1> QED
  BY <1>1, <1>2

LEMMA StartTyped == ASSUME NEW i \in Nat \ {0} PROVE StAt(i) \in Nat
BY StartsApart

LEMMA FirstStart == StAt(1) = 0
<1>1. 1 \in Nat \ {0}
  OBVIOUS
<1> QED
  BY <1>1, StartsApart

LEMMA NextStart ==
  ASSUME NEW i \in Nat \ {0}, NEW j, j = i + 1
  PROVE  StAt(i) \in Nat /\ StAt(j) = StAt(i) + StChunk - StOverlap
<1>1. StAt(i) \in Nat /\ StAt(i + 1) = StAt(i) + StStep
  BY StartsApart
<1> QED
  BY <1>1, StepTyped, SizesTyped

LEMMA ReachIs ==
  ASSUME NEW n \in Nat
  PROVE  StReach(n) \in Nat /\ StReach(n) >= n /\ StReach(n) = StAt(n + 1) + StChunk
<1> PICK s \in Nat \ {0} : s = StStep
  BY StepTyped
<1>1. n * s \in Nat /\ n * s >= n
  BY StepsGrow
<1>2. StReach(n) = n * s + StChunk /\ StAt(n + 1) = n * s
  BY DEF StReach, StAt
<1> QED
  BY <1>1, <1>2, SizesTyped

LEMMA PlanOfLong ==
  ASSUME NEW len \in Nat, len > StChunk + StOverlap
  PROVE  \E last \in 0..len :
           /\ StReach(last) >= len /\ \A k \in 0..(last - 1) : StReach(k) < len
           /\ StPlan(len) = [i \in 1..(last + 1) |->
                              [start |-> StAt(i), end |-> StLo(len, StAt(i) + StChunk),
                               overlap |-> IF i = 1 THEN 0 ELSE StOverlap]]
<1> DEFINE Ends(n) == StReach(n) >= len /\ \A k \in 0..(n - 1) : StReach(k) < len
           B == {n \in 0..len : StReach(n) >= len}
<1>1. B # {} /\ \A n \in B : n \in Int
  <2>1. len \in 0..len /\ StReach(len) >= len
    BY ReachIs
  <2> QED
    BY <2>1
<1>2. IsFiniteSet(B)
  <2>1. 0 \in Int /\ len \in Int
    OBVIOUS
  <2> QED
    BY <2>1, FS_Interval, FS_Subset
<1>3. PICK n \in B : \A x \in B : n <= x
  <2> HIDE DEF B
  <2>1. \E l, m \in B : \A x \in B : l <= x /\ x <= m
    BY <1>1, <1>2, Extremes
  <2> QED
    BY <2>1
<1>4. n \in 0..len /\ Ends(n)
  <2>1. ASSUME NEW k \in 0..(n - 1) PROVE StReach(k) < len
    <3>1. k \notin B /\ k \in 0..len
      BY <1>3
    <3>2. StReach(k) \in Nat
      BY <3>1, ReachIs
    <3> QED
      BY <3>1, <3>2
  <2> QED
    BY <1>3, <2>1
<1> DEFINE last == CHOOSE m \in 0..len : Ends(m)
<1>5. last \in 0..len /\ Ends(last)
  BY <1>4
<1>6. StPlan(len) = [i \in 1..(last + 1) |->
                       [start |-> StAt(i), end |-> StLo(len, StAt(i) + StChunk),
                        overlap |-> IF i = 1 THEN 0 ELSE StOverlap]]
  <2>1. ~(len <= StChunk + StOverlap)
    BY SizesTyped
  <2> QED
    BY <2>1, Zenon DEF StPlan, StAt, StStep, StReach
<1> QED
  BY <1>5, <1>6

\* A chunk where it belongs among n: how far it goes, and what it shares with the last.
Placed(chunk, i, n) ==
  /\ chunk.start = StAt(i) /\ chunk.start \in Int /\ chunk.end \in Int
  /\ chunk.start < chunk.end
  /\ i > 1 => chunk.overlap = StOverlap
  /\ n > 1 => chunk.end <= StAt(i) + StChunk
  /\ i < n => chunk.end = StAt(i) + StChunk

LEMMA PlanIs ==
  ASSUME NEW len \in Nat \ {0}, NEW whole, whole = StPlan(len)
  PROVE  /\ Len(whole) \in Nat \ {0} /\ whole[Len(whole)].end = len
         /\ \A i \in 1..Len(whole) : Placed(whole[i], i, Len(whole))
<1>1. CASE len <= StChunk + StOverlap
  <2>1. StPlan(len) = <<[start |-> 0, end |-> len, overlap |-> 0]>>
    BY <1>1 DEF StPlan
  <2> PICK plan : plan = StPlan(len) /\ plan = whole
    OBVIOUS
  <2>2. Len(plan) = 1 /\ plan[1].start = 0 /\ plan[1].end = len
    BY <2>1
  <2>3. StAt(1) = 0
    BY FirstStart
  <2>4. \A i \in 1..Len(plan) : i = 1
    BY <2>2
  <2>5. \A i \in 1..Len(plan) : Placed(plan[i], i, Len(plan))
    BY <2>2, <2>3, <2>4 DEF Placed
  <2> QED
    BY <2>2, <2>5
<1>2. CASE len > StChunk + StOverlap
  <2> PICK last \in 0..len :
             /\ StReach(last) >= len /\ \A k \in 0..(last - 1) : StReach(k) < len
             /\ StPlan(len) = [i \in 1..(last + 1) |->
                                [start |-> StAt(i), end |-> StLo(len, StAt(i) + StChunk),
                                 overlap |-> IF i = 1 THEN 0 ELSE StOverlap]]
    BY <1>2, PlanOfLong
  <2> PICK plan : plan = StPlan(len) /\ plan = whole
    OBVIOUS
  <2>1. Len(plan) = last + 1
    OBVIOUS
  <2>2. ASSUME NEW i \in 1..(last + 1)
        PROVE  /\ plan[i].start = StAt(i) /\ plan[i].end = StLo(len, StAt(i) + StChunk)
               /\ plan[i].overlap = IF i = 1 THEN 0 ELSE StOverlap
    OBVIOUS
  <2>3. ASSUME NEW i \in 1..(last + 1) PROVE Placed(plan[i], i, last + 1)
    <3>0. StAt(i) \in Nat /\ StAt(i) + StChunk = StReach(i - 1)
      <4> PICK h \in Nat : h = i - 1
        OBVIOUS
      <4>1. i \in Nat \ {0} /\ i = h + 1
        OBVIOUS
      <4>2. StReach(h) = StAt(h + 1) + StChunk
        BY ReachIs
      <4>3. StAt(i) \in Nat
        BY <4>1, StartTyped
      <4> QED
        BY <4>1, <4>2, <4>3
    <3>1. ASSUME i < last + 1 PROVE StAt(i) + StChunk < len
      <4>1. i - 1 \in 0..(last - 1)
        BY <3>1
      <4> QED
        BY <3>0, <4>1
    <3>2. StAt(i) < len
      <4>1. CASE i = 1
        BY <4>1, FirstStart
      <4>2. CASE i # 1
        <5> PICK h \in Nat \ {0} : h = i - 1
          BY <4>2
        <5> PICK g \in 0..(last - 1) : h = g + 1
          <6>1. h - 1 \in 0..(last - 1) /\ h = (h - 1) + 1
            OBVIOUS
          <6> QED
            BY <6>1
        <5>0. g \in Nat /\ i = h + 1
          OBVIOUS
        <5>1. StReach(g) = StAt(h) + StChunk /\ StReach(g) < len
          <6>1. StReach(g) = StAt(g + 1) + StChunk
            BY <5>0, ReachIs
          <6>2. StReach(g) < len
            OBVIOUS
          <6> QED
            BY <6>1, <6>2
        <5>2. StAt(h) \in Nat /\ StAt(i) = StAt(h) + StChunk - StOverlap
          BY <5>0, NextStart
        <5> QED
          BY <5>1, <5>2, SizesTyped
      <4> QED
        BY <4>1, <4>2
    <3> QED
      BY <2>2, <3>0, <3>1, <3>2, SizesTyped DEF StLo, Placed
  <2>4. Len(plan) \in Nat \ {0} /\ (Len(plan) > 1 => last + 1 > 1)
    BY <2>1
  <2>5. \A i \in 1..Len(plan) : Placed(plan[i], i, Len(plan))
    BY <2>1, <2>3 DEF Placed
  <2>6. plan[Len(plan)].end = len
    <3>1. StAt(last + 1) + StChunk = StReach(last) /\ StReach(last) \in Nat
      BY ReachIs
    <3>2. plan[last + 1].end = StLo(len, StAt(last + 1) + StChunk)
      BY <2>2
    <3> QED
      BY <2>1, <3>1, <3>2 DEF StLo
  <2> QED
    BY <2>4, <2>5, <2>6
<1> QED
  BY <1>1, <1>2, SizesTyped

\* The chunks leave nothing of the sound out, and each reaches the overlap into the
\* next one: plan_chunks, whose last chunk is the first that gets to the end.
THEOREM PlanCoversTheSound ==
  ASSUME NEW len \in Nat \ {0}
  PROVE  LET plan == StPlan(len)
         IN /\ \A t \in 0..(len - 1) :
                 \E i \in 1..Len(plan) : plan[i].start <= t /\ t < plan[i].end
            /\ \A i \in 1..(Len(plan) - 1) : plan[i].end = plan[i + 1].start + plan[i + 1].overlap
<1> PICK plan : plan = StPlan(len)
  OBVIOUS
<1> PICK n \in Nat \ {0} : n = Len(plan)
  BY PlanIs
<1>1. plan[n].end = len /\ \A i \in 1..n : Placed(plan[i], i, n)
  BY PlanIs
<1>2. ASSUME NEW i \in 1..(n - 1)
      PROVE  /\ plan[i].end = plan[i + 1].start + plan[i + 1].overlap
             /\ plan[i + 1].overlap = StOverlap
  <2>1. StAt(i) \in Nat /\ StAt(i + 1) = StAt(i) + StChunk - StOverlap
    <3>1. i \in Nat \ {0}
      OBVIOUS
    <3> QED
      BY <3>1, NextStart
  <2>2. /\ plan[i].end = StAt(i) + StChunk
        /\ plan[i + 1].start = StAt(i + 1) /\ plan[i + 1].overlap = StOverlap
    <3>1. i \in 1..n /\ i + 1 \in 1..n /\ i < n /\ i + 1 > 1
      OBVIOUS
    <3> QED
      BY <1>1, <3>1 DEF Placed
  <2> QED
    BY <2>1, <2>2, SizesTyped
<1>3. ASSUME NEW t \in 0..(len - 1)
      PROVE  \E i \in 1..n : plan[i].start <= t /\ t < plan[i].end
  <2> DEFINE B == {i \in 1..n : plan[i].start <= t}
  <2>1. \A i \in 1..n : plan[i].start \in Int /\ plan[i].end \in Int
    BY <1>1 DEF Placed
  <2>2. B # {}
    <3>1. plan[1].start = 0
      BY <1>1, FirstStart DEF Placed
    <3> QED
      BY <3>1
  <2>3. IsFiniteSet(B) /\ \A x \in B : x \in Int
    <3>1. 1 \in Int /\ n \in Int /\ B \subseteq 1..n
      OBVIOUS
    <3>2. \A x \in B : x \in Int
      OBVIOUS
    <3> HIDE DEF B
    <3> QED
      BY <3>1, <3>2, FS_Interval, FS_Subset
  <2>4. PICK i \in B : \A x \in B : x <= i
    <3> HIDE DEF B
    <3>1. \E l, m \in B : \A x \in B : l <= x /\ x <= m
      BY <2>2, <2>3, Extremes
    <3> QED
      BY <3>1
  <2>5. CASE i = n
    BY <1>1, <2>4, <2>5
  <2>6. CASE i # n
    <3>1. i \in 1..(n - 1) /\ i + 1 \in 1..n /\ i + 1 \notin B
      BY <2>4, <2>6
    <3>2. plan[i].end = plan[i + 1].start + StOverlap
      BY <1>2, <3>1
    <3>3. t < plan[i + 1].start
      BY <2>1, <3>1
    <3>4. plan[i].end \in Int /\ plan[i + 1].start \in Int
      BY <2>1, <3>1
    <3>5. t < plan[i].end
      BY <3>2, <3>3, <3>4, SizesTyped
    <3> QED
      BY <2>4, <3>5
  <2> QED
    BY <2>5, <2>6
<1> QED
  BY <1>2, <1>3
-----------------------------------------------------------------------------
(* Keeping some of a sequence.                                               *)
OnlyOp(keep, acc, x) == IF x \in keep THEN Append(acc, x) ELSE acc
Only == INSTANCE FiniteInduction WITH Op <- OnlyOp
LEMMA OnlyIs ==
  ASSUME NEW keep, NEW seq PROVE StOnly(keep, seq) = Only!Fold(keep, <<>>, seq)
BY DEF StOnly, Only!Fold, FoldLeft, Only!FoldLeft, MapThenFoldSet, Only!MapThenFoldSet,
       Max, Only!Max, OnlyOp

Holds(seq, x) == \E j \in 1..Len(seq) : seq[j] = x
Distinct(seq) == \A i, j \in 1..Len(seq) : seq[i] = seq[j] => i = j

LEMMA AppendHolds ==
  ASSUME NEW S, NEW seq \in Seq(S), NEW x \in S
  PROVE  /\ \A y : Holds(Append(seq, x), y) <=> Holds(seq, y) \/ y = x
         /\ Distinct(Append(seq, x)) <=> Distinct(seq) /\ ~Holds(seq, x)
<1> PICK n \in Nat : n = Len(seq)
  BY LenProperties
<1> PICK long : long = Append(seq, x)
  OBVIOUS
<1>1. Len(long) = n + 1 /\ long[n + 1] = x /\ \A i \in 1..n : long[i] = seq[i]
  BY AppendProperties
<1>2. \A i \in 1..(n + 1) : i \in 1..n \/ i = n + 1
  OBVIOUS
<1>3. n + 1 \in 1..(n + 1) /\ \A i \in 1..n : i \in 1..(n + 1) /\ i # n + 1
  OBVIOUS
<1>4. \A y : Holds(long, y) <=> Holds(seq, y) \/ y = x
  BY <1>1, <1>2, <1>3 DEF Holds
<1>5. ASSUME Distinct(long) PROVE Distinct(seq) /\ ~Holds(seq, x)
  BY <1>1, <1>3, <1>5 DEF Holds, Distinct
<1>6. ASSUME Distinct(seq), ~Holds(seq, x) PROVE Distinct(long)
  <2> SUFFICES ASSUME NEW i \in 1..(n + 1), NEW j \in 1..(n + 1), long[i] = long[j] PROVE i = j
    BY <1>1 DEF Distinct
  <2>1. CASE i \in 1..n /\ j \in 1..n
    BY <1>1, <1>6, <2>1 DEF Distinct
  <2>2. CASE i \in 1..n /\ j = n + 1
    BY <1>1, <1>6, <2>2 DEF Holds
  <2>3. CASE j \in 1..n /\ i = n + 1
    BY <1>1, <1>6, <2>3 DEF Holds
  <2> QED
    BY <1>2, <2>1, <2>2, <2>3
<1> QED
  BY <1>4, <1>5, <1>6

LEMMA OnlyKeeps ==
  ASSUME NEW S, NEW keep, NEW seq \in Seq(S)
  PROVE  /\ StOnly(keep, seq) \in Seq(S)
         /\ \A x : Holds(StOnly(keep, seq), x) <=> x \in keep /\ Holds(seq, x)
         /\ Distinct(seq) => Distinct(StOnly(keep, seq))
<1> DEFINE Good(s, f) == /\ f \in Seq(S)
                         /\ \A x : Holds(f, x) <=> x \in keep /\ Holds(s, x)
                         /\ Distinct(s) => Distinct(f)
           T == {s \in Seq(S) : Good(s, Only!Fold(keep, <<>>, s))}
<1>1. <<>> \in T
  <2>1. \A x : ~Holds(<<>>, x)
    BY DEF Holds
  <2>2. Good(<<>>, <<>>)
    BY <2>1, EmptySeq
  <2> QED
    BY <2>2, EmptySeq, Only!FoldEmpty
<1>2. ASSUME NEW s \in Seq(S), NEW x \in S, s \in T PROVE Append(s, x) \in T
  <2> PICK f \in Seq(S) : f = Only!Fold(keep, <<>>, s) /\ Good(s, f)
    BY <1>2
  <2>1. Only!Fold(keep, <<>>, Append(s, x)) = IF x \in keep THEN Append(f, x) ELSE f
    BY Only!FoldAppend DEF OnlyOp
  <2>2. CASE x \in keep
    <3>1. Good(Append(s, x), Append(f, x))
      BY <2>2, AppendHolds, AppendProperties
    <3> QED
      BY <2>1, <2>2, <3>1, AppendProperties
  <2>3. CASE x \notin keep
    <3>1. Good(Append(s, x), f)
      BY <2>3, AppendHolds
    <3> QED
      BY <2>1, <2>3, <3>1, AppendProperties
  <2> QED
    BY <2>2, <2>3
<1>3. seq \in T
  <2> HIDE DEF T
  <2> QED
    BY <1>1, <1>2, OneAtATime
<1> QED
  BY <1>3, OnlyIs

LEMMA CountsUp ==
  ASSUME NEW n \in Nat
  PROVE  /\ StUpTo(n) \in Seq(1..n) /\ Len(StUpTo(n)) = n /\ Distinct(StUpTo(n))
         /\ \A k \in 1..n : StUpTo(n)[k] = k
         /\ \A x : Holds(StUpTo(n), x) <=> x \in 1..n
<1>1. StUpTo(n) \in [1..n -> 1..n] /\ \A k \in 1..n : StUpTo(n)[k] = k
  BY DEF StUpTo
<1>2. StUpTo(n) \in Seq(1..n) /\ Len(StUpTo(n)) = n
  BY <1>1
<1> QED
  BY <1>1, <1>2 DEF Holds, Distinct

LEMMA CountsOneMore ==
  ASSUME NEW n \in Nat
  PROVE  StUpTo(n) \in Seq(Nat) /\ StUpTo(n + 1) = Append(StUpTo(n), n + 1)
<1>1. /\ StUpTo(n) \in Seq(1..n) /\ Len(StUpTo(n)) = n /\ \A k \in 1..n : StUpTo(n)[k] = k
      /\ StUpTo(n + 1) \in Seq(1..(n + 1)) /\ Len(StUpTo(n + 1)) = n + 1
      /\ \A k \in 1..(n + 1) : StUpTo(n + 1)[k] = k
  BY CountsUp
<1>2. StUpTo(n) \in Seq(Nat) /\ StUpTo(n + 1) \in Seq(Nat)
  BY <1>1, SeqMonotonic
<1> PICK s \in Seq(Nat), t \in Seq(Nat) : s = StUpTo(n) /\ t = StUpTo(n + 1)
  BY <1>2
<1>3. /\ Append(s, n + 1) \in Seq(Nat) /\ Len(Append(s, n + 1)) = n + 1
      /\ \A i \in 1..n : Append(s, n + 1)[i] = s[i]
      /\ Append(s, n + 1)[n + 1] = n + 1
  BY <1>1, AppendProperties, SMTT(30)
<1>4. ASSUME NEW i \in 1..(n + 1) PROVE t[i] = Append(s, n + 1)[i]
  <2>1. t[i] = i
    BY <1>1
  <2>2. CASE i = n + 1
    BY <1>3, <2>1, <2>2
  <2>3. CASE i \in 1..n
    <3>1. s[i] = i
      BY <1>1, <2>3
    <3> QED
      BY <1>3, <2>1, <2>3, <3>1
  <2>4. i = n + 1 \/ i \in 1..n
    OBVIOUS
  <2> QED
    BY <2>2, <2>3, <2>4
<1>5. t = Append(s, n + 1)
  BY <1>1, <1>3, <1>4, SeqEqual
<1> QED
  BY <1>2, <1>5
-----------------------------------------------------------------------------
(* What is said, and a chunk's part of it, in the sound's own time.          *)
StSaidOf == [start : Nat, end : Nat, text : StTexts, missed : SUBSET (1..Len(StPlan(stLen)))]

\* Utterances follow each other, each shorter than a chunk less two overlaps.
SaidOK ==
  /\ stLen \in Nat \ {0} /\ stSaid \in Seq(StSaidOf)
  /\ \A k \in 1..Len(stSaid) : /\ stSaid[k].start < stSaid[k].end /\ stSaid[k].end <= stLen
                               /\ stSaid[k].end <= stSaid[k].start + StSpeech
  /\ \A j, k \in 1..Len(stSaid) : j < k => stSaid[j].end <= stSaid[k].start

Plan == StPlan(stLen)
Hears(i) == {k \in 1..Len(stSaid) : StAudible(stSaid[k], Plan[i]) /\ i \notin stSaid[k].missed}
Clip(k, i) == [start |-> StHi(stSaid[k].start, Plan[i].start),
               end |-> StLo(stSaid[k].end, Plan[i].end), text |-> stSaid[k].text, id |-> k]
Clips == UNION {{Clip(k, i) : k \in Hears(i)} : i \in 1..Len(Plan)}
DistinctIds(seq) == \A a, b \in 1..Len(seq) : seq[a].id = seq[b].id => a = b

LEMMA SaidTyped ==
  ASSUME SaidOK, NEW k \in 1..Len(stSaid)
  PROVE  /\ stSaid[k].start \in Int /\ stSaid[k].end \in Int
         /\ stSaid[k].start < stSaid[k].end /\ stSaid[k].end <= stSaid[k].start + StSpeech
<1>1. stSaid[k] \in StSaidOf
  BY DEF SaidOK
<1> QED
  BY <1>1 DEF SaidOK, StSaidOf

LEMMA PlanPlaced ==
  ASSUME SaidOK
  PROVE  Len(Plan) \in Nat \ {0} /\ \A i \in 1..Len(Plan) : Placed(Plan[i], i, Len(Plan))
<1>1. stLen \in Nat \ {0}
  BY DEF SaidOK
<1>2. Plan = StPlan(stLen)
  BY DEF Plan
<1> QED
  BY <1>1, <1>2, PlanIs

LEMMA PlanTyped ==
  ASSUME SaidOK
  PROVE  /\ Len(Plan) \in Nat \ {0}
         /\ \A i \in 1..Len(Plan) :
              /\ Plan[i].start \in Int /\ Plan[i].end \in Int /\ Plan[i].start < Plan[i].end
              /\ i > 1 => Plan[i].overlap \in Int
BY PlanPlaced, SizesTyped DEF Placed

LEMMA ClipIs ==
  ASSUME SaidOK, NEW i \in 1..Len(Plan), NEW k \in Hears(i)
  PROVE  /\ k \in 1..Len(stSaid) /\ Clip(k, i) \in Clips
         /\ Clip(k, i).id = k /\ Clip(k, i).text = stSaid[k].text
         /\ Clip(k, i).start \in Int /\ Clip(k, i).end \in Int
         /\ Clip(k, i).start < Clip(k, i).end
         /\ stSaid[k].start <= Clip(k, i).start /\ Clip(k, i).end <= stSaid[k].end
         /\ Clip(k, i).start = StHi(stSaid[k].start, Plan[i].start)
         /\ Clip(k, i).end = StLo(stSaid[k].end, Plan[i].end)
<1>1. /\ k \in 1..Len(stSaid) /\ stSaid[k].start < Plan[i].end /\ stSaid[k].end > Plan[i].start
  BY DEF Hears, StAudible
<1>2. /\ stSaid[k].start \in Int /\ stSaid[k].end \in Int /\ stSaid[k].start < stSaid[k].end
  BY <1>1, SaidTyped
<1>3. Plan[i].start \in Int /\ Plan[i].end \in Int /\ Plan[i].start < Plan[i].end
  BY PlanTyped
<1>4. Clip(k, i) \in Clips
  BY DEF Clips
<1> PICK s : s = Clip(k, i)
  OBVIOUS
<1>5. /\ s.id = k /\ s.text = stSaid[k].text
      /\ s.start = StHi(stSaid[k].start, Plan[i].start) /\ s.end = StLo(stSaid[k].end, Plan[i].end)
  BY DEF Clip
<1>6. /\ s.start \in Int /\ s.end \in Int /\ s.start < s.end
      /\ stSaid[k].start <= s.start /\ s.end <= stSaid[k].end
  BY <1>1, <1>2, <1>3, <1>5 DEF StHi, StLo
<1> QED
  BY <1>1, <1>4, <1>5, <1>6

LEMMA ClipsAre ==
  ASSUME NEW s \in Clips
  PROVE  \E i \in 1..Len(Plan) : \E k \in Hears(i) : s = Clip(k, i)
BY DEF Clips

LEMMA SegmentsAre ==
  ASSUME SaidOK, NEW i \in 1..Len(Plan)
  PROVE  LET segments == StOffset(StHeardIn(i), Plan[i].start)
         IN /\ segments \in Seq(Clips) /\ DistinctIds(segments)
            /\ \A j \in 1..Len(segments) : \E k \in Hears(i) : segments[j] = Clip(k, i)
            /\ \A k \in Hears(i) : Holds(segments, Clip(k, i))
<1> PICK n \in Nat : n = Len(stSaid)
  BY LenProperties DEF SaidOK
<1> DEFINE chunk == Plan[i]
           heard == StOnly(Hears(i), StUpTo(n))
           piece == [j \in 1..Len(heard) |-> StPart(stSaid[heard[j]], heard[j], chunk)]
           segments == StOffset(StHeardIn(i), chunk.start)
<1>1. StHeardIn(i) = piece
  BY DEF StHeardIn, Hears, Plan
<1>2. /\ heard \in Seq(1..n) /\ Distinct(heard)
      /\ \A x : Holds(heard, x) <=> x \in Hears(i) /\ x \in 1..n
  <2>1. /\ StUpTo(n) \in Seq(1..n) /\ Distinct(StUpTo(n))
        /\ \A x : Holds(StUpTo(n), x) <=> x \in 1..n
    BY CountsUp
  <2> QED
    BY <2>1, OnlyKeeps
<1> HIDE DEF heard
<1> PICK m \in Nat : m = Len(heard)
  BY <1>2, LenProperties
<1>3. \A j \in 1..m : heard[j] \in Hears(i)
  BY <1>2 DEF Holds
<1> DEFINE shift(j) == [start |-> piece[j].start + chunk.start, end |-> piece[j].end + chunk.start,
                        text |-> piece[j].text, id |-> piece[j].id]
<1>4. segments = [j \in 1..m |-> shift(j)]
  BY <1>1 DEF StOffset
<1> HIDE DEF segments, piece, shift
<1>5. ASSUME NEW j \in 1..m PROVE segments[j] = Clip(heard[j], i)
  <2> PICK k \in Hears(i) : k = heard[j]
    BY <1>3
  <2>1. /\ stSaid[k].start \in Int /\ stSaid[k].end \in Int
        /\ chunk.start \in Int /\ chunk.end \in Int
    BY SaidTyped, PlanTyped DEF Hears
  <2> PICK a, b, c, d \in Int : /\ a = stSaid[k].start /\ b = stSaid[k].end
                                /\ c = chunk.start /\ d = chunk.end
    BY <2>1
  <2>2. piece[j] = [start |-> StHi(a, c) - c, end |-> StLo(b, d) - c, text |-> stSaid[k].text,
                   id |-> k]
    BY DEF StPart, piece
  <2>3. shift(j) = [start |-> (StHi(a, c) - c) + c, end |-> (StLo(b, d) - c) + c,
                    text |-> stSaid[k].text, id |-> k]
    <3>1. /\ piece[j].start = StHi(a, c) - c /\ piece[j].end = StLo(b, d) - c
          /\ piece[j].text = stSaid[k].text /\ piece[j].id = k
      BY <2>2
    <3> QED
      BY <3>1 DEF shift
  <2>5. segments[j] = shift(j)
    BY <1>4
  <2>4. (StHi(a, c) - c) + c = StHi(a, c) /\ (StLo(b, d) - c) + c = StLo(b, d)
    BY SMTT(30) DEF StHi, StLo
  <2> QED
    BY <2>3, <2>4, <2>5 DEF Clip
<1>6. Len(segments) = m
  BY <1>4
<1>7. segments \in Seq(Clips)
  <2>1. \A j \in 1..m : segments[j] \in Clips
    BY <1>3, <1>5, ClipIs
  <2>2. segments \in [1..m -> Clips]
    BY <1>4, <2>1
  <2> QED
    BY <2>2
<1>8. DistinctIds(segments)
  <2> SUFFICES ASSUME NEW a \in 1..m, NEW b \in 1..m, segments[a].id = segments[b].id
               PROVE  a = b
    BY <1>6 DEF DistinctIds
  <2>1. segments[a].id = heard[a] /\ segments[b].id = heard[b]
    BY <1>3, <1>5, ClipIs
  <2> QED
    BY <1>2, <2>1 DEF Distinct
<1>9. \A j \in 1..m : \E k \in Hears(i) : segments[j] = Clip(k, i)
  BY <1>3, <1>5
<1>10. ASSUME NEW k \in Hears(i) PROVE Holds(segments, Clip(k, i))
  <2>1. Holds(heard, k)
    BY <1>2 DEF Hears
  <2>2. PICK j \in 1..m : heard[j] = k
    BY <2>1 DEF Holds
  <2> QED
    BY <1>5, <1>6, <2>2 DEF Holds
<1> QED
  BY <1>6, <1>7, <1>8, <1>9, <1>10 DEF segments
-----------------------------------------------------------------------------
(* Merging the chunks keeps each utterance once.                             *)
\* What is in the window overlaps it.
LEMMA InWindowOverlaps ==
  ASSUME NEW s, s.start \in Int, s.end \in Int, s.start < s.end,
         NEW from \in Int, NEW to \in Int, StInWindow(s, from, to)
  PROVE  s.start < to /\ s.end > from
<1> PICK a, b \in Int : a = s.start /\ b = s.end
  OBVIOUS
<1>1. \/ 2 * from <= a + b /\ a + b <= 2 * to
      \/ a < to /\ b > from
  BY DEF StInWindow
<1> QED
  BY <1>1

\* An utterance two chunks hear is in the overlap of the later one, both times, and
\* the chunks are neighbours.
LEMMA HeardTwice ==
  ASSUME SaidOK, NEW i \in 2..Len(Plan), NEW h \in 1..(i - 1), NEW k \in Hears(h), k \in Hears(i)
  PROVE  LET from == Plan[i].start   to == from + Plan[i].overlap
         IN /\ StInWindow(Clip(k, h), from, to) /\ StInWindow(Clip(k, i), from, to)
            /\ Clip(k, h).text = Clip(k, i).text
<1>1. Len(Plan) \in Nat /\ h \in 1..Len(Plan) /\ i \in 1..Len(Plan) /\ h < Len(Plan) /\ Len(Plan) > 1
  BY PlanTyped
<1>2. /\ Plan[h].start = StAt(h) /\ Plan[h].end = StAt(h) + StChunk
      /\ Plan[i].start = StAt(i) /\ Plan[i].start \in Int /\ Plan[i].end \in Int /\ Plan[i].start < Plan[i].end
      /\ Plan[i].overlap = StOverlap
  <2>1. i > 1
    OBVIOUS
  <2> QED
    BY <1>1, <2>1, PlanPlaced DEF Placed
<1>3. /\ k \in 1..Len(stSaid)
      /\ stSaid[k].start < Plan[h].end /\ stSaid[k].end > Plan[h].start
      /\ stSaid[k].start < Plan[i].end /\ stSaid[k].end > Plan[i].start
  BY DEF Hears, StAudible
<1>4. /\ stSaid[k].start \in Int /\ stSaid[k].end \in Int
      /\ stSaid[k].start < stSaid[k].end /\ stSaid[k].end <= stSaid[k].start + StSpeech
  BY <1>3, SaidTyped
<1> PICK a, b \in Int : a = stSaid[k].start /\ b = stSaid[k].end
  BY <1>4
<1>0. /\ StAt(h) \in Nat /\ StAt(i) \in Nat /\ i \in Nat /\ h \in Nat \ {0}
      /\ (h + 1 = i => StAt(i) = StAt(h) + StChunk - StOverlap)
      /\ (h + 1 < i => StAt(h) + StChunk - StOverlap + StChunk - StOverlap <= StAt(i))
  <2>1. i \in Nat \ {0} /\ h \in Nat \ {0}
    BY <1>1
  <2> PICK m \in Nat \ {0} : m = h + 1
    BY <2>1
  <2>2. StAt(h) \in Nat /\ StAt(m) = StAt(h) + StChunk - StOverlap /\ StAt(i) \in Nat
    BY <2>1, NextStart, StartTyped
  <2>3. m < i => StAt(m) + StStep <= StAt(i)
    BY <2>1, StartsApart
  <2>4. h + 1 < i => StAt(h) + StChunk - StOverlap + StChunk - StOverlap <= StAt(i)
    <3>1. ASSUME h + 1 < i PROVE StAt(m) + StStep <= StAt(i)
      BY <2>3, <3>1
    <3> QED
      BY <2>2, <3>1, StepTyped, SizesTyped
  <2> QED
    BY <2>1, <2>2, <2>4
<1>5. h = i - 1
  <2>1. a < StAt(h) + StChunk /\ b > StAt(i) /\ b <= a + StSpeech
    BY <1>2, <1>3, <1>4
  <2>2. ~(h + 1 < i)
    BY <1>0, <2>1, SizesTyped, SMTT(30)
  <2> QED
    BY <1>0, <2>2
<1>6. /\ Clip(k, h).start = StHi(a, Plan[h].start) /\ Clip(k, h).end = StLo(b, Plan[h].end)
      /\ Clip(k, i).start = StHi(a, Plan[i].start) /\ Clip(k, i).end = StLo(b, Plan[i].end)
      /\ Clip(k, h).text = Clip(k, i).text
  BY <1>1, ClipIs
<1>7. /\ Clip(k, h).start < Plan[i].start + StOverlap /\ Clip(k, h).end > Plan[i].start
      /\ Clip(k, i).start < Plan[i].start + StOverlap /\ Clip(k, i).end > Plan[i].start
  <2>1. /\ a \in Int /\ b \in Int /\ StAt(h) \in Int /\ StAt(i) \in Int
        /\ Plan[i].end \in Int /\ StAt(i) < Plan[i].end
        /\ a < StAt(h) + StChunk /\ b > StAt(i) /\ StAt(i) = StAt(h) + StChunk - StOverlap
    BY <1>0, <1>2, <1>3, <1>5
  <2>2. StAt(i) + StOverlap = StAt(h) + StChunk /\ StAt(h) < StAt(h) + StChunk
    BY <2>1, SizesTyped, SMTT(30)
  <2>3. StHi(a, StAt(h)) < StAt(i) + StOverlap
    BY <2>1, <2>2 DEF StHi
  <2>4. StLo(b, StAt(h) + StChunk) > StAt(i)
    BY <2>1, <2>2, SizesTyped DEF StLo
  <2>5. StHi(a, StAt(i)) < StAt(i) + StOverlap
    BY <2>1, <2>2, SizesTyped DEF StHi
  <2>6. StLo(b, Plan[i].end) > StAt(i)
    BY <2>1 DEF StLo
  <2> QED
    BY <1>2, <1>6, <2>3, <2>4, <2>5, <2>6
<1> QED
  BY <1>2, <1>6, <1>7 DEF StInWindow

\* What StHeardKept allows to be missing.
Excused(k) ==
  \E o \in (1..Len(stSaid)) \ {k}, i \in 2..Len(StPlan(stLen)) :
    LET c == StPlan(stLen)[i]
        overlap == [start |-> c.start, end |-> c.start + c.overlap]
    IN /\ stSaid[o].text = stSaid[k].text /\ StHeard(o)
       /\ StAudible(stSaid[o], overlap) /\ StAudible(stSaid[k], overlap)

KeptOK(m, kept) ==
  /\ kept \in Seq(Clips) /\ DistinctIds(kept)
  /\ \A j \in 1..Len(kept) : \E i \in 1..m : \E k \in Hears(i) : kept[j] = Clip(k, i)
  /\ \A i \in 1..m : \A k \in Hears(i) :
       (\E j \in 1..Len(kept) : kept[j].id = k) \/ Excused(k)

LEMMA FreshAre ==
  ASSUME SaidOK, NEW i \in 1..Len(Plan), NEW kept, NEW from, NEW to
  PROVE  LET segments == StOffset(StHeardIn(i), Plan[i].start)
             fresh == StFresh(kept, segments, from, to)
             new(s) == \/ ~StInWindow(s, from, to)
                       \/ \A j \in 1..Len(kept) :
                            StInWindow(kept[j], from, to) => kept[j].text # s.text
         IN /\ fresh \in Seq(Clips) /\ DistinctIds(fresh)
            /\ \A j \in 1..Len(fresh) : \E k \in Hears(i) : fresh[j] = Clip(k, i) /\ new(Clip(k, i))
            /\ \A k \in Hears(i) : new(Clip(k, i)) => Holds(fresh, Clip(k, i))
<1> DEFINE segments == StOffset(StHeardIn(i), Plan[i].start)
           new(s) == \/ ~StInWindow(s, from, to)
                     \/ \A j \in 1..Len(kept) :
                          StInWindow(kept[j], from, to) => kept[j].text # s.text
           keep == {s \in Range(segments) : new(s)}
           fresh == StFresh(kept, segments, from, to)
<1>1. /\ segments \in Seq(Clips) /\ DistinctIds(segments)
      /\ \A j \in 1..Len(segments) : \E k \in Hears(i) : segments[j] = Clip(k, i)
      /\ \A k \in Hears(i) : Holds(segments, Clip(k, i))
  BY SegmentsAre
<1>2. fresh = StOnly(keep, segments)
  BY DEF StFresh
<1> HIDE DEF segments
<1>3. \A s : s \in keep <=> Holds(segments, s) /\ new(s)
  <2>1. DOMAIN segments = 1..Len(segments)
    BY <1>1, LenProperties
  <2> QED
    BY <2>1 DEF Range, Holds
<1> HIDE DEF keep, fresh, new
<1>4. Distinct(segments)
  BY <1>1 DEF Distinct, DistinctIds
<1>5. /\ fresh \in Seq(Clips) /\ Distinct(fresh)
      /\ \A s : Holds(fresh, s) <=> s \in keep /\ Holds(segments, s)
  BY <1>1, <1>2, <1>4, OnlyKeeps
<1>6. \A j \in 1..Len(fresh) : \E k \in Hears(i) : fresh[j] = Clip(k, i) /\ new(Clip(k, i))
  <2> TAKE j \in 1..Len(fresh)
  <2>1. Holds(fresh, fresh[j])
    BY DEF Holds
  <2>2. Holds(segments, fresh[j]) /\ new(fresh[j])
    BY <1>3, <1>5, <2>1
  <2>3. PICK l \in 1..Len(segments) : segments[l] = fresh[j]
    BY <2>2 DEF Holds
  <2>4. PICK k \in Hears(i) : segments[l] = Clip(k, i)
    BY <1>1
  <2> QED
    BY <2>2, <2>3, <2>4
<1>7. \A k \in Hears(i) : new(Clip(k, i)) => Holds(fresh, Clip(k, i))
  BY <1>1, <1>3, <1>5
<1>8. DistinctIds(fresh)
  <2> SUFFICES ASSUME NEW a \in 1..Len(fresh), NEW b \in 1..Len(fresh), fresh[a].id = fresh[b].id
               PROVE  a = b
    BY DEF DistinctIds
  <2>1. PICK k \in Hears(i) : fresh[a] = Clip(k, i)
    BY <1>6
  <2>2. PICK l \in Hears(i) : fresh[b] = Clip(l, i)
    BY <1>6
  <2>3. k = l
    BY <2>1, <2>2, ClipIs
  <2> QED
    BY <1>5, <2>1, <2>2, <2>3 DEF Distinct
<1> QED
  BY <1>5, <1>6, <1>7, <1>8 DEF fresh, segments, new

LEMMA Inside ==
  ASSUME SaidOK, NEW i \in 1..Len(Plan), NEW k \in Hears(i), NEW from \in Int, NEW to \in Int,
         StInWindow(Clip(k, i), from, to)
  PROVE  stSaid[k].start < to /\ stSaid[k].end > from
<1>1. Clip(k, i).start < to /\ Clip(k, i).end > from
  BY ClipIs, InWindowOverlaps
<1>2. /\ k \in 1..Len(stSaid) /\ stSaid[k].start <= Clip(k, i).start
      /\ Clip(k, i).end <= stSaid[k].end /\ Clip(k, i).start \in Int /\ Clip(k, i).end \in Int
  BY ClipIs
<1>3. stSaid[k].start \in Int /\ stSaid[k].end \in Int
  BY <1>2, SaidTyped
<1> QED
  BY <1>1, <1>2, <1>3

\* Two utterances of the same text in one overlap, which is what excuses either's loss.
LEMMA SameWords ==
  ASSUME SaidOK, NEW i \in 2..Len(Plan), NEW k \in Hears(i),
         NEW h \in 1..Len(Plan), NEW o \in Hears(h), o # k, Clip(o, h).text = Clip(k, i).text,
         StInWindow(Clip(o, h), Plan[i].start, Plan[i].start + Plan[i].overlap),
         StInWindow(Clip(k, i), Plan[i].start, Plan[i].start + Plan[i].overlap)
  PROVE  Excused(k)
<1> DEFINE overlap == [start |-> Plan[i].start, end |-> Plan[i].start + Plan[i].overlap]
<1>1. i \in 1..Len(Plan) /\ i > 1
  BY PlanTyped
<1> PICK from \in Int, to \in Int : from = Plan[i].start /\ to = Plan[i].start + Plan[i].overlap
  BY <1>1, PlanTyped
<1>2. stSaid[o].start < to /\ stSaid[o].end > from
  BY Inside
<1>3. stSaid[k].start < to /\ stSaid[k].end > from
  BY <1>1, Inside
<1>4. StAudible(stSaid[o], overlap) /\ StAudible(stSaid[k], overlap)
  BY <1>2, <1>3 DEF StAudible
<1>5. o \in (1..Len(stSaid)) \ {k} /\ stSaid[o].text = stSaid[k].text
  BY <1>1, ClipIs
<1>6. StHeard(o)
  BY DEF StHeard, Hears, Plan
<1> QED
  BY <1>4, <1>5, <1>6 DEF Excused, Plan

LEMMA KeptStep ==
  ASSUME SaidOK, NEW m \in Nat, m + 1 <= Len(Plan), NEW kept, KeptOK(m, kept)
  PROVE  KeptOK(m + 1, StHear(kept, m + 1))
<1> PICK i \in Nat : i = m + 1
  OBVIOUS
<1>0. i \in 1..Len(Plan) /\ \A h \in 1..i : h \in 1..m \/ h = i
  BY PlanTyped
<1>1. /\ kept \in Seq(Clips) /\ DistinctIds(kept)
      /\ \A j \in 1..Len(kept) : \E h \in 1..m : \E k \in Hears(h) : kept[j] = Clip(k, h)
      /\ \A h \in 1..m : \A k \in Hears(h) :
           (\E j \in 1..Len(kept) : kept[j].id = k) \/ Excused(k)
  BY DEF KeptOK
<1> PICK n \in Nat : n = Len(kept)
  BY <1>1, LenProperties
<1> DEFINE from == Plan[i].start
           to == from + Plan[i].overlap
           segments == StOffset(StHeardIn(i), from)
           added == IF i = 1 THEN segments ELSE StFresh(kept, segments, from, to)
           next == kept \o added
<1>2. StHear(kept, m + 1) = next
  BY DEF StHear, Plan
<1>3. /\ added \in Seq(Clips) /\ DistinctIds(added)
      /\ \A j \in 1..Len(added) : \E k \in Hears(i) :
           added[j] = Clip(k, i) /\ \A l \in 1..n : kept[l].id # k
      /\ \A k \in Hears(i) : \/ Holds(added, Clip(k, i))
                             \/ \E l \in 1..n : kept[l].id = k
                             \/ Excused(k)
  <2>1. CASE i = 1
    <3>1. added = segments /\ n = 0
      <4>1. ASSUME n # 0 PROVE FALSE
        <5>1. 1 \in 1..n /\ 1..m = {}
          BY <2>1, <4>1
        <5> QED
          BY <1>1, <5>1
      <4> QED
        BY <2>1, <4>1
    <3> HIDE DEF added
    <3>2. /\ segments \in Seq(Clips) /\ DistinctIds(segments)
          /\ \A j \in 1..Len(segments) : \E k \in Hears(i) : segments[j] = Clip(k, i)
          /\ \A k \in Hears(i) : Holds(segments, Clip(k, i))
      BY <1>0, SegmentsAre
    <3>3. \A l \in 1..n : FALSE
      BY <3>1
    <3> QED
      BY <3>1, <3>2, <3>3
  <2>2. CASE i # 1
    <3> DEFINE fresh == StFresh(kept, segments, from, to)
               new(s) == \/ ~StInWindow(s, from, to)
                         \/ \A j \in 1..Len(kept) :
                              StInWindow(kept[j], from, to) => kept[j].text # s.text
    <3>1. added = fresh /\ i \in 2..Len(Plan)
      BY <1>0, <2>2
    <3>2. /\ fresh \in Seq(Clips) /\ DistinctIds(fresh)
          /\ \A j \in 1..Len(fresh) : \E k \in Hears(i) :
               fresh[j] = Clip(k, i) /\ new(Clip(k, i))
          /\ \A k \in Hears(i) : new(Clip(k, i)) => Holds(fresh, Clip(k, i))
      BY <1>0, FreshAre
    <3> HIDE DEF added, fresh, segments
    <3>3. ASSUME NEW k \in Hears(i), new(Clip(k, i)), NEW l \in 1..n PROVE kept[l].id # k
      <4> SUFFICES ASSUME kept[l].id = k PROVE FALSE
        OBVIOUS
      <4>1. PICK h \in 1..m : \E o \in Hears(h) : kept[l] = Clip(o, h)
        BY <1>1
      <4>2. PICK o \in Hears(h) : kept[l] = Clip(o, h)
        BY <4>1
      <4>3. h \in 1..Len(Plan) /\ h \in 1..(i - 1)
        BY <1>0, <3>1
      <4>4. o = k
        BY <4>2, <4>3, ClipIs
      <4>5. /\ StInWindow(Clip(k, h), from, to) /\ StInWindow(Clip(k, i), from, to)
            /\ Clip(k, h).text = Clip(k, i).text
        BY <3>1, <4>3, <4>4, HeardTwice
      <4> QED
        BY <3>3, <4>2, <4>4, <4>5
    <3>4. ASSUME NEW k \in Hears(i), ~new(Clip(k, i))
          PROVE  (\E l \in 1..n : kept[l].id = k) \/ Excused(k)
      <4>1. PICK l \in 1..n : /\ StInWindow(kept[l], from, to) /\ kept[l].text = Clip(k, i).text
                              /\ StInWindow(Clip(k, i), from, to)
        BY <3>4
      <4>2. PICK h \in 1..m : \E o \in Hears(h) : kept[l] = Clip(o, h)
        BY <1>1
      <4>3. PICK o \in Hears(h) : kept[l] = Clip(o, h)
        BY <4>2
      <4>4. h \in 1..Len(Plan)
        BY <1>0
      <4> SUFFICES ASSUME o # k PROVE Excused(k)
        BY <4>3, <4>4, ClipIs
      <4> QED
        BY <3>1, <4>1, <4>3, <4>4, SameWords
    <3>5. \A k \in Hears(i) : new(Clip(k, i)) => \A l \in 1..n : kept[l].id # k
      BY <3>3
    <3>6. \A k \in Hears(i) :
            ~new(Clip(k, i)) => (\E l \in 1..n : kept[l].id = k) \/ Excused(k)
      BY <3>4
    <3> HIDE DEF new
    <3>7. \A j \in 1..Len(fresh) : \E k \in Hears(i) :
            fresh[j] = Clip(k, i) /\ \A l \in 1..n : kept[l].id # k
      BY <3>2, <3>5
    <3>8. \A k \in Hears(i) : \/ Holds(fresh, Clip(k, i))
                              \/ \E l \in 1..n : kept[l].id = k
                              \/ Excused(k)
      BY <3>2, <3>6
    <3> QED
      BY <3>1, <3>2, <3>7, <3>8
  <2> QED
    BY <2>1, <2>2
<1> HIDE DEF added
<1> PICK q \in Nat : q = Len(added)
  BY <1>3, LenProperties
<1>4. /\ next \in Seq(Clips) /\ Len(next) = n + q
      /\ \A j \in 1..(n + q) : next[j] = IF j <= n THEN kept[j] ELSE added[j - n]
  BY <1>1, <1>3, ConcatProperties
<1> HIDE DEF next
<1>5. /\ \A j \in 1..n : j \in 1..(n + q) /\ next[j] = kept[j]
      /\ \A j \in 1..q : n + j \in 1..(n + q) /\ next[n + j] = added[j]
      /\ \A j \in 1..(n + q) : j \in 1..n \/ \E l \in 1..q : j = n + l
  <2>1. \A j \in 1..n : j \in 1..(n + q) /\ next[j] = kept[j]
    BY <1>4
  <2>2. ASSUME NEW j \in 1..q PROVE n + j \in 1..(n + q) /\ next[n + j] = added[j]
    <3>1. n + j \in 1..(n + q) /\ ~(n + j <= n) /\ (n + j) - n = j
      OBVIOUS
    <3> QED
      BY <1>4, <3>1
  <2>3. ASSUME NEW j \in 1..(n + q), j \notin 1..n PROVE \E l \in 1..q : j = n + l
    <3>1. j - n \in 1..q /\ j = n + (j - n)
      BY <2>3
    <3> QED
      BY <3>1
  <2> QED
    BY <2>1, <2>2, <2>3
<1>6. DistinctIds(next)
  <2>1. ASSUME NEW a \in 1..n, NEW l \in 1..q PROVE kept[a].id # added[l].id
    <3>1. PICK k \in Hears(i) : added[l] = Clip(k, i) /\ \A x \in 1..n : kept[x].id # k
      BY <1>3
    <3> QED
      BY <1>0, <3>1, ClipIs
  <2> SUFFICES ASSUME NEW a \in 1..(n + q), NEW b \in 1..(n + q), next[a].id = next[b].id
               PROVE  a = b
    BY <1>4 DEF DistinctIds
  <2>2. CASE a \in 1..n /\ b \in 1..n
    BY <1>1, <1>5, <2>2 DEF DistinctIds
  <2>3. CASE a \in 1..n /\ b \notin 1..n
    BY <1>5, <2>1, <2>3
  <2>4. CASE a \notin 1..n /\ b \in 1..n
    <3>1. PICK l \in 1..q : a = n + l
      BY <1>5, <2>4
    <3>2. next[a].id = added[l].id /\ next[b].id = kept[b].id
      BY <1>5, <2>4, <3>1
    <3> QED
      BY <2>1, <2>4, <3>2
  <2>5. CASE a \notin 1..n /\ b \notin 1..n
    <3>1. PICK l \in 1..q : a = n + l
      BY <1>5, <2>5
    <3>2. PICK r \in 1..q : b = n + r
      BY <1>5, <2>5
    <3>3. added[l].id = added[r].id
      BY <1>5, <3>1, <3>2
    <3>4. l = r
      BY <1>3, <3>3 DEF DistinctIds
    <3> QED
      BY <3>1, <3>2, <3>4
  <2> QED
    BY <2>2, <2>3, <2>4, <2>5
<1>7. \A j \in 1..(n + q) : \E h \in 1..i : \E k \in Hears(h) : next[j] = Clip(k, h)
  <2> TAKE j \in 1..(n + q)
  <2>1. CASE j \in 1..n
    <3>1. PICK h \in 1..m : \E k \in Hears(h) : kept[j] = Clip(k, h)
      BY <1>1, <2>1
    <3>2. h \in 1..i /\ next[j] = kept[j]
      BY <1>5, <2>1
    <3> QED
      BY <3>1, <3>2
  <2>2. CASE j \notin 1..n
    <3>1. PICK l \in 1..q : j = n + l
      BY <1>5, <2>2
    <3>2. i \in 1..i /\ next[j] = added[l]
      BY <1>0, <1>5, <3>1
    <3> QED
      BY <1>3, <3>2
  <2> QED
    BY <2>1, <2>2
<1>8. \A h \in 1..i : \A k \in Hears(h) : (\E j \in 1..(n + q) : next[j].id = k) \/ Excused(k)
  <2> TAKE h \in 1..i
  <2> TAKE k \in Hears(h)
  <2>1. (\E l \in 1..n : kept[l].id = k) => \E j \in 1..(n + q) : next[j].id = k
    BY <1>5
  <2>2. CASE h \in 1..m
    BY <1>1, <2>1, <2>2
  <2>3. CASE h = i
    <3>1. ASSUME Holds(added, Clip(k, i)) PROVE \E j \in 1..(n + q) : next[j].id = k
      <4>1. PICK l \in 1..q : added[l] = Clip(k, i)
        BY <3>1 DEF Holds
      <4>2. n + l \in 1..(n + q) /\ next[n + l].id = k
        <5>1. k \in Hears(i) /\ i \in 1..Len(Plan)
          BY <1>0, <2>3
        <5>2. Clip(k, i).id = k
          BY <5>1, ClipIs
        <5> QED
          BY <1>5, <4>1, <5>2
      <4> QED
        BY <4>2
    <3> QED
      BY <1>3, <2>1, <2>3, <3>1
  <2> QED
    BY <1>0, <2>2, <2>3
<1>9. KeptOK(i, next)
  BY <1>4, <1>6, <1>7, <1>8 DEF KeptOK
<1> QED
  BY <1>2, <1>9

HearOp(p, kept, i) == StHear(kept, i)
Hear == INSTANCE FiniteInduction WITH Op <- HearOp
LEMMA HearIs ==
  ASSUME NEW seq PROVE FoldLeft(StHear, <<>>, seq) = Hear!Fold(0, <<>>, seq)
BY DEF Hear!Fold, FoldLeft, Hear!FoldLeft, MapThenFoldSet, Hear!MapThenFoldSet,
       Max, Hear!Max, HearOp

LEMMA KeptIsGood == ASSUME SaidOK PROVE KeptOK(Len(Plan), StKept)
<1> PICK N \in Nat : N = Len(Plan)
  BY PlanTyped
<1> DEFINE T == {m \in 0..N : KeptOK(m, Hear!Fold(0, <<>>, StUpTo(m)))}
<1>1. 0 \in T
  <2>1. StUpTo(0) = <<>>
    BY DEF StUpTo
  <2>2. KeptOK(0, <<>>)
    BY EmptySeq DEF KeptOK, DistinctIds
  <2>3. 0 \in 0..N
    OBVIOUS
  <2> QED
    BY <2>1, <2>2, <2>3, Hear!FoldEmpty
<1>2. ASSUME NEW m \in 0..(N - 1), m \in T PROVE m + 1 \in T
  <2>1. m \in Nat /\ m + 1 \in Nat /\ m + 1 <= N /\ m + 1 \in 0..N
    OBVIOUS
  <2>2. StUpTo(m) \in Seq(Nat) /\ StUpTo(m + 1) = Append(StUpTo(m), m + 1)
    BY <2>1, CountsOneMore
  <2>3. Hear!Fold(0, <<>>, StUpTo(m + 1)) = StHear(Hear!Fold(0, <<>>, StUpTo(m)), m + 1)
    <3> PICK seq \in Seq(Nat) : seq = StUpTo(m)
      BY <2>2
    <3>1. Hear!Fold(0, <<>>, Append(seq, m + 1)) = HearOp(0, Hear!Fold(0, <<>>, seq), m + 1)
      BY <2>1, Hear!FoldAppend
    <3> QED
      BY <2>2, <3>1 DEF HearOp
  <2>4. KeptOK(m, Hear!Fold(0, <<>>, StUpTo(m)))
    BY <1>2
  <2>5. KeptOK(m + 1, StHear(Hear!Fold(0, <<>>, StUpTo(m)), m + 1))
    BY <2>1, <2>4, KeptStep
  <2> QED
    BY <2>1, <2>3, <2>5
<1>3. \A m \in 0..N : m \in T
  <2> HIDE DEF T
  <2> QED
    BY <1>1, <1>2, Chars!CountingUp
<1>4. N \in 0..N
  OBVIOUS
<1>5. StKept = Hear!Fold(0, <<>>, StUpTo(N))
  BY HearIs DEF StKept, Plan
<1> QED
  BY <1>3, <1>4, <1>5
-----------------------------------------------------------------------------
(* Sorting puts what was kept in the order it was said in.                   *)
PutOp(p, segments, s) == StPut(segments, s)
Put == INSTANCE FiniteInduction WITH Op <- PutOp
LEMMA PutIs ==
  ASSUME NEW seq PROVE FoldLeft(StPut, <<>>, seq) = Put!Fold(0, <<>>, seq)
BY DEF Put!Fold, FoldLeft, Put!FoldLeft, MapThenFoldSet, Put!MapThenFoldSet,
       Max, Put!Max, PutOp

PushOp(p, done, s) == StPush(done, s)
Push == INSTANCE FiniteInduction WITH Op <- PushOp
LEMMA PushIs ==
  ASSUME NEW seq PROVE FoldLeft(StPush, <<>>, seq) = Push!Fold(0, <<>>, seq)
BY DEF Push!Fold, FoldLeft, Push!FoldLeft, MapThenFoldSet, Push!MapThenFoldSet,
       Max, Push!Max, PushOp

InOrder(seq) == \A a, b \in 1..Len(seq) : a < b => seq[a].id < seq[b].id
HasId(seq, k) == \E j \in 1..Len(seq) : seq[j].id = k
SameIds(s, t) == \A k : HasId(s, k) <=> HasId(t, k)

LEMMA ClipTyped ==
  ASSUME SaidOK, NEW s \in Clips
  PROVE  /\ s.id \in Nat /\ s.start \in Int /\ s.end \in Int /\ s.start < s.end
         /\ s.id \in 1..Len(stSaid)
         /\ stSaid[s.id].start <= s.start /\ s.end <= stSaid[s.id].end
<1> PICK i \in 1..Len(Plan) : \E k \in Hears(i) : s = Clip(k, i)
  BY ClipsAre
<1> PICK k \in Hears(i) : s = Clip(k, i)
  OBVIOUS
<1>1. Len(stSaid) \in Nat
  BY LenProperties DEF SaidOK
<1> QED
  BY <1>1, ClipIs

LEMMA ClipsFollow ==
  ASSUME SaidOK, NEW s \in Clips, NEW t \in Clips, s.id < t.id
  PROVE  s.end <= t.start /\ s.start < t.start
<1>1. /\ s.start \in Int /\ s.end \in Int /\ s.start < s.end /\ t.start \in Int
      /\ s.id \in 1..Len(stSaid) /\ t.id \in 1..Len(stSaid)
      /\ s.end <= stSaid[s.id].end /\ stSaid[t.id].start <= t.start
  BY ClipTyped
<1>2. stSaid[s.id].end <= stSaid[t.id].start
  BY <1>1 DEF SaidOK
<1>3. stSaid[s.id].end \in Int /\ stSaid[t.id].start \in Int
  BY <1>1, SaidTyped
<1> QED
  BY <1>1, <1>2, <1>3

\* The place StPut looks for.
LEMMA PlaceFor ==
  ASSUME SaidOK, NEW r \in Seq(Clips), InOrder(r), NEW x \in Clips,
         \A j \in 1..Len(r) : r[j].id # x.id
  PROVE  \E n \in 0..Len(r) : \A j \in 1..Len(r) : x.id < r[j].id <=> j > n
<1> PICK m \in Nat : m = Len(r)
  BY LenProperties
<1> DEFINE B == {j \in 1..m : x.id < r[j].id}
<1>1. \A j \in 1..m : r[j].id \in Nat /\ x.id \in Nat
  BY ElementOfSeq, ClipTyped
<1>2. CASE B = {}
  <2>1. m \in 0..m /\ \A j \in 1..m : ~(j > m)
    OBVIOUS
  <2>2. \A j \in 1..m : ~(x.id < r[j].id)
    BY <1>2
  <2> QED
    BY <2>1, <2>2
<1>3. CASE B # {}
  <2>1. IsFiniteSet(B) /\ \A j \in B : j \in Int
    <3>1. 1 \in Int /\ m \in Int
      OBVIOUS
    <3>2. IsFiniteSet(1..m)
      BY <3>1, FS_Interval
    <3>3. B \subseteq 1..m
      OBVIOUS
    <3>4. IsFiniteSet(B)
      BY <3>2, <3>3, FS_Subset
    <3>5. \A j \in B : j \in Int
      BY <3>3
    <3> QED
      BY <3>4, <3>5
  <2>2. PICK l \in B : \A j \in B : l <= j
    <3> HIDE DEF B
    <3> QED
      BY <1>3, <2>1, Extremes
  <2>3. l - 1 \in 0..m
    BY <2>2
  <2>4. ASSUME NEW j \in 1..m PROVE x.id < r[j].id <=> j > l - 1
    <3>1. CASE j < l
      <4>1. j \notin B
        BY <2>2, <3>1
      <4> QED
        BY <2>2, <3>1, <4>1
    <3>2. CASE j = l
      BY <2>2, <3>2
    <3>3. CASE j > l
      <4>1. r[l].id < r[j].id /\ x.id < r[l].id
        BY <2>2, <3>3 DEF InOrder
      <4>2. x.id < r[j].id
        BY <1>1, <2>2, <4>1
      <4> QED
        BY <2>2, <3>3, <4>2
    <3> QED
      BY <2>2, <3>1, <3>2, <3>3
  <2> QED
    BY <2>3, <2>4
<1> QED
  BY <1>2, <1>3

Inserted(d, r, n, x) ==
  /\ Len(d) = Len(r) + 1
  /\ \A j \in 1..(Len(r) + 1) :
       d[j] = IF j <= n THEN r[j] ELSE IF j = n + 1 THEN x ELSE r[j - 1]

LEMMA InsertIs ==
  ASSUME NEW S, NEW r \in Seq(S), NEW n \in 0..Len(r), NEW x \in S,
         NEW d, d = InsertAt(r, n + 1, x)
  PROVE  d \in Seq(S) /\ Inserted(d, r, n, x)
<1> PICK m \in Nat : m = Len(r)
  BY LenProperties
<1>0. n \in Nat /\ n <= m /\ (n + 1) - 1 = n /\ m - (n + 1) + 1 = m - n
  OBVIOUS
<1> DEFINE a == SubSeq(r, 1, n)
           b == SubSeq(r, n + 1, m)
<1>1. a \in Seq(S) /\ Len(a) = n /\ \A i \in 1..n : a[i] = r[i]
  <2>1. 1 \in Int /\ n \in Int /\ \A i \in 1..n : r[i] \in S
    BY ElementOfSeq
  <2>2. /\ SubSeq(r, 1, n) \in Seq(S)
        /\ Len(SubSeq(r, 1, n)) = (IF 1 <= n THEN n - 1 + 1 ELSE 0)
        /\ \A i \in 1..(n - 1 + 1) : SubSeq(r, 1, n)[i] = r[1 + i - 1]
    BY <2>1, SubSeqProperties
  <2>3. n - 1 + 1 = n /\ \A i \in 1..n : 1 + i - 1 = i
    OBVIOUS
  <2> QED
    BY <2>2, <2>3
<1>2. b \in Seq(S) /\ Len(b) = m - n /\ \A i \in 1..(m - n) : b[i] = r[n + i]
  <2>1. n + 1 \in Int /\ m \in Int /\ \A i \in (n + 1)..m : r[i] \in S
    BY ElementOfSeq
  <2>2. /\ SubSeq(r, n + 1, m) \in Seq(S)
        /\ Len(SubSeq(r, n + 1, m)) = (IF n + 1 <= m THEN m - (n + 1) + 1 ELSE 0)
        /\ \A i \in 1..(m - (n + 1) + 1) : SubSeq(r, n + 1, m)[i] = r[n + 1 + i - 1]
    BY <2>1, SubSeqProperties
  <2>3. \A i \in 1..(m - n) : n + 1 + i - 1 = n + i
    OBVIOUS
  <2> QED
    BY <1>0, <2>2, <2>3
<1> HIDE DEF a, b
<1>3. <<x>> \in Seq(S) /\ Len(<<x>>) = 1 /\ <<x>>[1] = x
  OBVIOUS
<1> PICK c : c = a \o <<x>>
  OBVIOUS
<1>4. c \in Seq(S) /\ Len(c) = n + 1 /\ \A i \in 1..(n + 1) : c[i] = IF i <= n THEN r[i] ELSE x
  <2> PICK e \in Seq(S) : e = <<x>>
    BY <1>3
  <2>0. a \o e \in Seq(S) /\ Len(a \o e) = Len(a) + Len(e)
        /\ \A i \in 1..(Len(a) + Len(e)) : (a \o e)[i] = IF i <= Len(a) THEN a[i] ELSE e[i - Len(a)]
    BY <1>1, ConcatProperties
  <2>1. c \in Seq(S) /\ Len(c) = n + 1
        /\ \A i \in 1..(n + 1) : c[i] = IF i <= n THEN a[i] ELSE <<x>>[i - n]
    BY <1>1, <1>3, <2>0
  <2>2. \A i \in 1..(n + 1) : ~(i <= n) => i - n = 1
    OBVIOUS
  <2> QED
    BY <1>1, <1>3, <2>1, <2>2
<1>8. d = c \o b
  <2>1. InsertAt(r, n + 1, x) = (a \o <<x>>) \o b
    BY <1>0 DEF InsertAt, a, b
  <2> QED
    BY <2>1, SMTT(30)
<1>5. d \in Seq(S) /\ Len(d) = (n + 1) + (m - n)
      /\ \A i \in 1..((n + 1) + (m - n)) : d[i] = IF i <= n + 1 THEN c[i] ELSE b[i - (n + 1)]
  <2>0. c \o b \in Seq(S) /\ Len(c \o b) = Len(c) + Len(b)
        /\ \A i \in 1..(Len(c) + Len(b)) : (c \o b)[i] = IF i <= Len(c) THEN c[i] ELSE b[i - Len(c)]
    BY <1>2, <1>4, ConcatProperties
  <2> QED
    BY <1>2, <1>4, <1>8, <2>0
<1>6. (n + 1) + (m - n) = m + 1
  OBVIOUS
<1>7. ASSUME NEW j \in 1..(m + 1)
      PROVE  d[j] = IF j <= n THEN r[j] ELSE IF j = n + 1 THEN x ELSE r[j - 1]
  <2>1. CASE j <= n + 1
    <3>0. j \in 1..(n + 1) /\ j \in 1..((n + 1) + (m - n))
      BY <1>6, <2>1
    <3>1. d[j] = c[j] /\ j \in 1..(n + 1)
      BY <1>5, <2>1, <3>0
    <3> QED
      BY <1>4, <3>1
  <2>2. CASE ~(j <= n + 1)
    <3>1. j - (n + 1) \in 1..(m - n) /\ n + (j - (n + 1)) = j - 1 /\ ~(j <= n) /\ j # n + 1
      BY <2>2
    <3>2. d[j] = b[j - (n + 1)]
      BY <1>5, <1>6, <2>2
    <3>3. b[j - (n + 1)] = r[j - 1]
      BY <1>2, <3>1
    <3> QED
      BY <3>1, <3>2, <3>3
  <2> QED
    BY <2>1, <2>2
<1>9. d \in Seq(S) /\ Len(d) = Len(r) + 1
  BY <1>5, <1>6
<1>10. \A j \in 1..(Len(r) + 1) : d[j] = IF j <= n THEN r[j] ELSE IF j = n + 1 THEN x ELSE r[j - 1]
  BY <1>7
<1> QED
  BY <1>9, <1>10 DEF Inserted

LEMMA PutStep ==
  ASSUME SaidOK, NEW r \in Seq(Clips), InOrder(r), NEW x \in Clips,
         \A j \in 1..Len(r) : r[j].id # x.id
  PROVE  /\ StPut(r, x) \in Seq(Clips) /\ InOrder(StPut(r, x))
         /\ \A k : HasId(StPut(r, x), k) <=> HasId(r, k) \/ x.id = k
<1> PICK m \in Nat : m = Len(r)
  BY LenProperties
<1>1. \A j \in 1..m : r[j] \in Clips /\ r[j].id \in Nat /\ x.id \in Nat /\ r[j].id # x.id
  BY ElementOfSeq, ClipTyped
<1> DEFINE later(o) == x.start < o.start \/ (x.start = o.start /\ x.end < o.end)
           place == CHOOSE n \in 0..m : \A j \in 1..m : later(r[j]) <=> j > n
<1>2. ASSUME NEW j \in 1..m PROVE later(r[j]) <=> x.id < r[j].id
  <2> PICK o \in Clips : o = r[j] /\ o.id \in Nat /\ x.id \in Nat /\ o.id # x.id
    BY <1>1
  <2>1. o.start \in Int /\ x.start \in Int
    BY ClipTyped
  <2>2. CASE x.id < o.id
    <3>1. x.start < o.start
      BY <2>2, ClipsFollow
    <3> QED
      BY <2>2, <3>1
  <2>3. CASE o.id < x.id
    <3>1. o.start < x.start
      BY <2>3, ClipsFollow
    <3> QED
      BY <2>1, <2>3, <3>1
  <2> QED
    BY <2>2, <2>3
<1>3. \E n \in 0..m : \A j \in 1..m : later(r[j]) <=> j > n
  <2>1. PICK n \in 0..m : \A j \in 1..m : x.id < r[j].id <=> j > n
    BY PlaceFor
  <2> HIDE DEF later
  <2> QED
    BY <1>2, <2>1
<1>4. place \in 0..m /\ \A j \in 1..m : later(r[j]) <=> j > place
  <2> HIDE DEF later
  <2> QED
    BY <1>3
<1>5. StPut(r, x) = InsertAt(r, place + 1, x)
  BY DEF StPut
<1> HIDE DEF later, place
<1> PICK n \in 0..m : n = place
  BY <1>4
<1>6. \A j \in 1..m : x.id < r[j].id <=> j > n
  BY <1>2, <1>4
<1> PICK d : d = StPut(r, x)
  OBVIOUS
<1>7. /\ d \in Seq(Clips) /\ Len(d) = m + 1
      /\ \A j \in 1..(m + 1) : d[j] = IF j <= n THEN r[j] ELSE IF j = n + 1 THEN x ELSE r[j - 1]
  <2>1. d = InsertAt(r, n + 1, x)
    BY <1>5
  <2>2. n \in 0..Len(r)
    OBVIOUS
  <2>3. d \in Seq(Clips) /\ Inserted(d, r, n, x)
    BY <2>1, <2>2, InsertIs
  <2> QED
    BY <2>3 DEF Inserted
<1>8. /\ \A j \in 1..n : j \in 1..m /\ d[j] = r[j]
      /\ n + 1 \in 1..(m + 1) /\ d[n + 1] = x
      /\ \A j \in (n + 2)..(m + 1) : j - 1 \in 1..m /\ d[j] = r[j - 1]
  <2>1. \A j \in 1..n : j \in 1..m /\ d[j] = r[j]
    BY <1>7
  <2>2. n + 1 \in 1..(m + 1) /\ d[n + 1] = x
    BY <1>7
  <2>3. ASSUME NEW j \in (n + 2)..(m + 1) PROVE j - 1 \in 1..m /\ d[j] = r[j - 1]
    <3>1. j \in 1..(m + 1) /\ ~(j <= n) /\ j # n + 1 /\ j - 1 \in 1..m
      OBVIOUS
    <3> QED
      BY <1>7, <3>1
  <2> QED
    BY <2>1, <2>2, <2>3
<1>9. \A j \in 1..(m + 1) : j \in 1..n \/ j = n + 1 \/ j \in (n + 2)..(m + 1)
  OBVIOUS
<1>10. InOrder(d)
  <2> SUFFICES ASSUME NEW a \in 1..(m + 1), NEW b \in 1..(m + 1), a < b PROVE d[a].id < d[b].id
    BY <1>7 DEF InOrder
  <2>1. CASE a \in 1..n /\ b \in 1..n
    BY <1>8, <2>1 DEF InOrder
  <2>2. CASE a \in 1..n /\ b = n + 1
    <3>1. a \in 1..m /\ ~(a > n)
      BY <2>2
    <3>2. ~(x.id < r[a].id)
      BY <1>6, <3>1
    <3>3. r[a].id < x.id
      BY <1>1, <3>1, <3>2
    <3> QED
      BY <1>8, <2>2, <3>3
  <2>3. CASE a \in 1..n /\ b \in (n + 2)..(m + 1)
    <3>1. b - 1 \in 1..m /\ a \in 1..m /\ a < b - 1
      BY <2>3
    <3>2. r[a].id < r[b - 1].id
      BY <3>1 DEF InOrder
    <3> QED
      BY <1>8, <2>3, <3>2
  <2>4. CASE a = n + 1 /\ b \in (n + 2)..(m + 1)
    <3>1. b - 1 \in 1..m /\ b - 1 > n
      BY <2>4
    <3>2. x.id < r[b - 1].id
      BY <1>6, <3>1
    <3> QED
      BY <1>8, <2>4, <3>2
  <2>5. CASE a \in (n + 2)..(m + 1) /\ b \in (n + 2)..(m + 1)
    <3>1. a - 1 \in 1..m /\ b - 1 \in 1..m /\ a - 1 < b - 1
      BY <2>5
    <3>2. r[a - 1].id < r[b - 1].id
      BY <3>1 DEF InOrder
    <3> QED
      BY <1>8, <2>5, <3>2
  <2>6. CASE a \in 1..n
    BY <1>9, <2>1, <2>2, <2>3, <2>6
  <2>7. CASE a = n + 1
    <3>1. b \in (n + 2)..(m + 1)
      BY <2>7
    <3> QED
      BY <2>4, <2>7, <3>1
  <2>8. CASE a \in (n + 2)..(m + 1)
    <3>1. b \in (n + 2)..(m + 1)
      BY <2>8
    <3> QED
      BY <2>5, <2>8, <3>1
  <2> QED
    BY <1>9, <2>6, <2>7, <2>8
<1>11. ASSUME NEW k
       PROVE  (\E j \in 1..(m + 1) : d[j].id = k) <=> (\E j \in 1..m : r[j].id = k) \/ x.id = k
  <2>1. ASSUME NEW j \in 1..(m + 1), d[j].id = k PROVE (\E l \in 1..m : r[l].id = k) \/ x.id = k
    BY <1>8, <1>9, <2>1
  <2>2. ASSUME NEW l \in 1..m, r[l].id = k PROVE \E j \in 1..(m + 1) : d[j].id = k
    <3>1. CASE l <= n
      <4>1. l \in 1..n /\ l \in 1..(m + 1)
        BY <3>1
      <4> QED
        BY <1>8, <2>2, <4>1
    <3>2. CASE l > n
      <4>1. l + 1 \in (n + 2)..(m + 1) /\ (l + 1) - 1 = l /\ l + 1 \in 1..(m + 1)
        BY <3>2
      <4>2. d[l + 1] = r[l]
        BY <1>8, <4>1
      <4> QED
        BY <2>2, <4>1, <4>2
    <3> QED
      BY <3>1, <3>2
  <2>3. x.id = k => \E j \in 1..(m + 1) : d[j].id = k
    BY <1>8
  <2> QED
    BY <2>1, <2>2, <2>3
<1>12. \A k : HasId(d, k) <=> HasId(r, k) \/ x.id = k
  BY <1>7, <1>11 DEF HasId
<1> QED
  BY <1>7, <1>10, <1>12

LEMMA AppendIds ==
  ASSUME NEW S, NEW s \in Seq(S), NEW x \in S
  PROVE  /\ \A k : HasId(Append(s, x), k) <=> HasId(s, k) \/ x.id = k
         /\ DistinctIds(Append(s, x)) => DistinctIds(s) /\ \A j \in 1..Len(s) : s[j].id # x.id
         /\ InOrder(Append(s, x)) => InOrder(s) /\ \A j \in 1..Len(s) : s[j].id < x.id
<1> PICK n \in Nat : n = Len(s)
  BY LenProperties
<1> PICK long : long = Append(s, x)
  OBVIOUS
<1>1. Len(long) = n + 1 /\ long[n + 1] = x /\ \A i \in 1..n : long[i] = s[i]
  BY AppendProperties
<1>2. \A i \in 1..(n + 1) : i \in 1..n \/ i = n + 1
  OBVIOUS
<1>3. n + 1 \in 1..(n + 1) /\ \A i \in 1..n : i \in 1..(n + 1) /\ i # n + 1 /\ i < n + 1
  OBVIOUS
<1>4. \A k : HasId(long, k) <=> HasId(s, k) \/ x.id = k
  BY <1>1, <1>2, <1>3 DEF HasId
<1>5. DistinctIds(long) => DistinctIds(s) /\ \A j \in 1..n : s[j].id # x.id
  BY <1>1, <1>3 DEF DistinctIds
<1>6. InOrder(long) => InOrder(s) /\ \A j \in 1..n : s[j].id < x.id
  BY <1>1, <1>3 DEF InOrder
<1> QED
  BY <1>4, <1>5, <1>6

LEMMA PutsInOrder ==
  ASSUME SaidOK, NEW kept \in Seq(Clips), DistinctIds(kept)
  PROVE  LET t == FoldLeft(StPut, <<>>, kept)
         IN t \in Seq(Clips) /\ InOrder(t) /\ SameIds(kept, t)
<1> DEFINE Good(s, t) == t \in Seq(Clips) /\ InOrder(t) /\ SameIds(s, t)
           T == {s \in Seq(Clips) : DistinctIds(s) => Good(s, Put!Fold(0, <<>>, s))}
<1>1. <<>> \in T
  <2>1. Good(<<>>, <<>>)
    BY EmptySeq DEF InOrder, SameIds
  <2> QED
    BY <2>1, EmptySeq, Put!FoldEmpty
<1>2. ASSUME NEW s \in Seq(Clips), NEW x \in Clips, s \in T PROVE Append(s, x) \in T
  <2> SUFFICES ASSUME DistinctIds(Append(s, x))
               PROVE  Good(Append(s, x), Put!Fold(0, <<>>, Append(s, x)))
    BY AppendProperties
  <2>1. /\ DistinctIds(s) /\ \A j \in 1..Len(s) : s[j].id # x.id
        /\ \A k : HasId(Append(s, x), k) <=> HasId(s, k) \/ x.id = k
    BY AppendIds
  <2> PICK t \in Seq(Clips) : t = Put!Fold(0, <<>>, s) /\ InOrder(t) /\ SameIds(s, t)
    BY <1>2, <2>1
  <2>2. Put!Fold(0, <<>>, Append(s, x)) = StPut(t, x)
    BY Put!FoldAppend DEF PutOp
  <2>3. \A j \in 1..Len(t) : t[j].id # x.id
    <3>1. ~HasId(s, x.id)
      BY <2>1 DEF HasId
    <3>2. ~HasId(t, x.id)
      BY <3>1 DEF SameIds
    <3> QED
      BY <3>2 DEF HasId
  <2>4. /\ StPut(t, x) \in Seq(Clips) /\ InOrder(StPut(t, x))
        /\ \A k : HasId(StPut(t, x), k) <=> HasId(t, k) \/ x.id = k
    BY <2>3, PutStep
  <2>5. SameIds(Append(s, x), StPut(t, x))
    BY <2>1, <2>4 DEF SameIds
  <2> QED
    BY <2>2, <2>4, <2>5
<1>3. kept \in T
  <2> HIDE DEF T
  <2> QED
    BY <1>1, <1>2, OneAtATime
<1> QED
  BY <1>3, PutIs

LEMMA StartsThere == ASSUME NEW x \in Clips PROVE [x EXCEPT !.start = x.start] = x
<1> PICK i \in 1..Len(Plan) : \E k \in Hears(i) : x = Clip(k, i)
  BY ClipsAre
<1> PICK k \in Hears(i) : x = Clip(k, i)
  OBVIOUS
<1> PICK a, b, c : x = [start |-> a, end |-> b, text |-> c, id |-> k]
  BY DEF Clip
<1> QED
  OBVIOUS

LEMMA PushOne ==
  ASSUME SaidOK, NEW s \in Seq(Clips), NEW x \in Clips, \A j \in 1..Len(s) : s[j].id < x.id
  PROVE  StPush(s, x) = Append(s, x)
<1> DEFINE start == IF s # <<>> THEN StHi(x.start, Last(s).end) ELSE x.start
<1>1. x.start \in Int /\ x.end \in Int /\ x.start < x.end
  BY ClipTyped
<1>2. start = x.start
  <2>1. CASE s = <<>>
    BY <2>1
  <2>2. CASE s # <<>>
    <3>1. Len(s) \in 1..Len(s)
      BY <2>2, EmptySeq, LenProperties
    <3>2. Last(s) \in Clips /\ Last(s).id < x.id
      BY <3>1, ElementOfSeq DEF Last
    <3>3. Last(s).end <= x.start /\ Last(s).end \in Int
      BY <3>2, ClipsFollow, ClipTyped
    <3> QED
      BY <1>1, <2>2, <3>3 DEF StHi
  <2> QED
    BY <2>1, <2>2
<1>3. StPush(s, x) = IF x.end < start THEN s ELSE Append(s, [x EXCEPT !.start = start])
  BY DEF StPush
<1> HIDE DEF start
<1>4. ~(x.end < start)
  BY <1>1, <1>2
<1>5. [x EXCEPT !.start = start] = x
  BY <1>2, StartsThere
<1> QED
  BY <1>3, <1>4, <1>5

LEMMA PushesAll ==
  ASSUME SaidOK, NEW t \in Seq(Clips), InOrder(t)
  PROVE  FoldLeft(StPush, <<>>, t) = t
<1> DEFINE T == {s \in Seq(Clips) : InOrder(s) => Push!Fold(0, <<>>, s) = s}
<1>1. <<>> \in T
  BY EmptySeq, Push!FoldEmpty
<1>2. ASSUME NEW s \in Seq(Clips), NEW x \in Clips, s \in T PROVE Append(s, x) \in T
  <2> SUFFICES ASSUME InOrder(Append(s, x)) PROVE Push!Fold(0, <<>>, Append(s, x)) = Append(s, x)
    BY AppendProperties
  <2>1. InOrder(s) /\ \A j \in 1..Len(s) : s[j].id < x.id
    BY AppendIds
  <2>2. Push!Fold(0, <<>>, s) = s
    BY <1>2, <2>1
  <2>3. Push!Fold(0, <<>>, Append(s, x)) = StPush(s, x)
    BY <2>2, Push!FoldAppend DEF PushOp
  <2> QED
    BY <2>1, <2>3, PushOne
<1>3. t \in T
  <2> HIDE DEF T
  <2> QED
    BY <1>1, <1>2, OneAtATime
<1> QED
  BY <1>3, PushIs

LEMMA MergedIs ==
  ASSUME SaidOK
  PROVE  InOrder(StMerged) /\ SameIds(StKept, StMerged) /\ StMerged \in Seq(Clips)
<1>1. StKept \in Seq(Clips) /\ DistinctIds(StKept)
  BY KeptIsGood DEF KeptOK
<1> PICK t : t = FoldLeft(StPut, <<>>, StKept)
  OBVIOUS
<1>2. t \in Seq(Clips) /\ InOrder(t) /\ SameIds(StKept, t)
  BY <1>1, PutsInOrder
<1>3. StMerged = t
  BY <1>2, PushesAll DEF StMerged
<1> QED
  BY <1>2, <1>3

\* The two properties of the merged transcript.
LEMMA SaidIsHeard == ASSUME SaidOK PROVE StHeardKept /\ StHeardOnce
<1>1. StMerged \in Seq(Clips) /\ Len(StMerged) \in Nat
  BY MergedIs, LenProperties
<1>2. StHeardKept
  <2> SUFFICES ASSUME NEW k \in 1..Len(stSaid), StHeard(k), ~Excused(k)
               PROVE  StInMerged(k) # {}
    BY DEF StHeardKept, Excused
  <2>1. PICK i \in 1..Len(Plan) : k \in Hears(i)
    BY DEF StHeard, Hears, Plan
  <2>2. HasId(StKept, k)
    BY <2>1, KeptIsGood DEF KeptOK, HasId
  <2>3. HasId(StMerged, k)
    BY <2>2, MergedIs DEF SameIds
  <2> QED
    BY <2>3 DEF HasId, StInMerged
<1>3. StHeardOnce
  <2> SUFFICES ASSUME NEW k \in 1..Len(stSaid) PROVE Cardinality(StInMerged(k)) <= 1
    BY DEF StHeardOnce
  <2>1. \A a, b \in StInMerged(k) : a = b
    <3> SUFFICES ASSUME NEW a \in 1..Len(StMerged), NEW b \in 1..Len(StMerged),
                        StMerged[a].id = k, StMerged[b].id = k
                 PROVE  a = b
      BY DEF StInMerged
    <3>1. StMerged[a] \in Clips /\ StMerged[b] \in Clips
      BY <1>1, ElementOfSeq
    <3>2. StMerged[a].id \in Nat /\ StMerged[b].id \in Nat
      BY <3>1, ClipTyped
    <3>3. ~(a < b) /\ ~(b < a)
      BY <3>2, MergedIs DEF InOrder
    <3> QED
      BY <1>1, <3>3
  <2>2. CASE StInMerged(k) = {}
    <3>1. Cardinality(StInMerged(k)) = 0
      BY <2>2, FS_EmptySet
    <3> QED
      BY <3>1
  <2>3. CASE StInMerged(k) # {}
    <3> PICK a : a \in StInMerged(k)
      BY <2>3
    <3>1. StInMerged(k) = {a}
      BY <2>1
    <3>2. Cardinality(StInMerged(k)) = 1
      BY <3>1, FS_Singleton
    <3> QED
      BY <3>2
  <2> QED
    BY <2>2, <2>3
<1> QED
  BY <1>2, <1>3
-----------------------------------------------------------------------------
(* What is said and what is shown: utterances and words follow each other.   *)
USE LengthsTyped

StTyped ==
  /\ stLen \in StLengths
  /\ stSaid \in Seq(StSaidOf) /\ stScript \in Seq(StWordOf) /\ Len(stScript) <= StWords
  /\ \A k \in 1..Len(stSaid) : /\ stSaid[k].start < stSaid[k].end /\ stSaid[k].end <= stLen
                               /\ stSaid[k].end <= stSaid[k].start + StSpeech
  /\ \A j, k \in 1..Len(stSaid) : j < k => stSaid[j].end <= stSaid[k].start
  /\ \A k \in 1..Len(stScript) : stScript[k].start < stScript[k].end

LEMMA StTypes == StTyped => StTypeOK
<1> SUFFICES ASSUME StTyped PROVE StTypeOK
  OBVIOUS
<1>1. \A k \in 1..Len(stSaid) : stSaid[k] \in StSaidOf
  BY DEF StTyped
<1>2. \A k \in 1..Len(stSaid) : /\ stSaid[k].text \in StTexts
                                /\ stSaid[k].missed \subseteq 1..Len(StPlan(stLen))
  BY <1>1 DEF StSaidOf
<1> QED
  BY <1>2 DEF StTyped, StTypeOK

LEMMA StTypedInitially == StInit => StTyped
<1> SUFFICES ASSUME StInit PROVE StTyped
  OBVIOUS
<1>1. stSaid \in Seq(StSaidOf) /\ stScript \in Seq(StWordOf) /\ Len(stSaid) = 0 /\ Len(stScript) = 0
  BY DEF StInit
<1> QED
  BY <1>1 DEF StInit, StTyped

\* Where the last one ended.
LEMMA StSpokenTyped ==
  ASSUME NEW S, NEW said \in Seq(S), \A u \in S : u.end \in Nat
  PROVE  StSpoken(said) \in Nat
<1>1. CASE said = <<>>
  BY <1>1 DEF StSpoken
<1>2. CASE said # <<>>
  <2>1. Len(said) \in 1..Len(said)
    BY <1>2, EmptySeq
  <2>2. said[Len(said)] \in S
    BY <2>1, ElementOfSeq
  <2> QED
    BY <1>2, <2>2 DEF StSpoken, Last
<1> QED
  BY <1>1, <1>2

\* Everything said before ended by then.
LEMMA StSpokenLast ==
  ASSUME StTyped, NEW k \in 1..Len(stSaid)
  PROVE  stSaid[k].end <= StSpoken(stSaid)
<1> PICK n \in Nat : n = Len(stSaid)
  BY LenProperties DEF StTyped
<1>1. n \in 1..n /\ (k < n \/ k = n)
  OBVIOUS
<1>2. StSpoken(stSaid) = stSaid[n].end
  <2>1. stSaid # <<>>
    BY <1>1, EmptySeq
  <2> QED
    BY <2>1 DEF StSpoken, Last
<1>3. stSaid[k] \in StSaidOf /\ stSaid[n] \in StSaidOf
  BY <1>1, ElementOfSeq DEF StTyped
<1>4. /\ stSaid[k].end \in Nat /\ stSaid[n].start \in Nat /\ stSaid[n].end \in Nat
      /\ stSaid[n].start < stSaid[n].end
  BY <1>1, <1>3 DEF StTyped, StSaidOf
<1>5. CASE k < n
  BY <1>1, <1>2, <1>4, <1>5 DEF StTyped
<1>6. CASE k = n
  BY <1>2, <1>4, <1>6
<1> QED
  BY <1>1, <1>5, <1>6

LEMMA StTypeStep == StTyped /\ [StNext]_stVars => StTyped'
<1> SUFFICES ASSUME StTyped, [StNext]_stVars PROVE StTyped'
  OBVIOUS
<1>1. CASE UNCHANGED stVars
  BY <1>1 DEF stVars, StTyped, StSaidOf
<1>2. CASE StSay
  <2>1. UNCHANGED <<stLen, stScript>> /\ stSaid \in Seq(StSaidOf) /\ stLen \in Nat
    BY <1>2 DEF StSay, StTyped
  <2>2. \A u \in StSaidOf : u.end \in Nat
    BY DEF StSaidOf
  <2>3. StSpoken(stSaid) \in Nat
    BY <2>1, <2>2, StSpokenTyped
  <2>4. PICK start \in StSpoken(stSaid)..(stLen - 1), length \in 1..StSpeech, text \in StTexts,
             missed \in SUBSET (1..Len(StPlan(stLen))) :
          /\ start + length <= stLen
          /\ stSaid' = Append(stSaid, [start |-> start, end |-> start + length, text |-> text,
                                       missed |-> missed])
    BY <1>2 DEF StSay
  <2>5. start \in Nat /\ start + length \in Nat /\ start < start + length
    BY <2>1, <2>3, <2>4, SizesTyped
  <2> DEFINE u == [start |-> start, end |-> start + length, text |-> text, missed |-> missed]
  <2>6. /\ u \in StSaidOf /\ u.start < u.end /\ u.end <= stLen
        /\ u.end <= u.start + StSpeech /\ StSpoken(stSaid) <= u.start
    <3>1. u \in StSaidOf
      BY <2>5 DEF StSaidOf
    <3>2. start < start + length /\ start + length <= stLen
      BY <2>4, <2>5
    <3>3. start + length <= start + StSpeech /\ StSpoken(stSaid) <= start
      BY <2>1, <2>3, <2>5, SizesTyped
    <3> QED
      BY <3>1, <3>2, <3>3
  <2>7. stSaid' = Append(stSaid, u)
    BY <2>4
  <2> HIDE DEF u
  <2>8. /\ stSaid' \in Seq(StSaidOf) /\ Len(stSaid') = Len(stSaid) + 1
        /\ \A k \in 1..Len(stSaid') : stSaid'[k] = IF k <= Len(stSaid) THEN stSaid[k] ELSE u
    BY <2>1, <2>6, <2>7, AppendProperties
  <2>9. StSaidOf' = StSaidOf
    BY <2>1 DEF StSaidOf
  <2>10. Len(stSaid) \in Nat
    BY <2>1
  <2>11. \A k \in 1..Len(stSaid') :
           /\ stSaid'[k].start < stSaid'[k].end /\ stSaid'[k].end <= stLen
           /\ stSaid'[k].end <= stSaid'[k].start + StSpeech
    BY <2>6, <2>8, <2>10 DEF StTyped
  <2>12. ASSUME NEW j \in 1..Len(stSaid'), NEW k \in 1..Len(stSaid'), j < k
         PROVE  stSaid'[j].end <= stSaid'[k].start
    <3>1. j \in 1..Len(stSaid) /\ stSaid'[j] = stSaid[j]
      BY <2>8, <2>10, <2>12
    <3>2. CASE k <= Len(stSaid)
      BY <2>8, <2>10, <2>12, <3>1, <3>2 DEF StTyped
    <3>3. CASE ~(k <= Len(stSaid))
      <4>1. stSaid'[k] = u
        BY <2>8, <3>3
      <4>2. stSaid[j].end <= StSpoken(stSaid)
        BY <3>1, StSpokenLast
      <4>3. stSaid[j].end \in Nat /\ u.start \in Nat
        <5>1. stSaid[j] \in StSaidOf
          BY <2>1, <3>1, ElementOfSeq
        <5> QED
          BY <2>6, <5>1 DEF StSaidOf
      <4> QED
        BY <2>3, <2>6, <3>1, <4>1, <4>2, <4>3
    <3> QED
      BY <3>2, <3>3
  <2> QED
    BY <2>1, <2>8, <2>9, <2>11, <2>12 DEF StTyped
<1>3. CASE StSpeak
  <2>1. /\ UNCHANGED <<stLen, stSaid>> /\ stScript \in Seq(StWordOf)
        /\ Len(stScript) \in Nat /\ Len(stScript) < StWords
    BY <1>3 DEF StSpeak, StTyped
  <2>2. \A w \in StWordOf : w.end \in Nat
    BY DEF StWordOf
  <2>3. StSpoken(stScript) \in Nat
    BY <2>1, <2>2, StSpokenTyped
  <2>4. PICK chars \in StSizes, pause \in StPauses, length \in StSpans,
             mark \in {"none", "stop", "title"} :
          stScript' = Append(stScript, [chars |-> chars, start |-> StSpoken(stScript) + pause,
                                        end |-> (StSpoken(stScript) + pause) + length,
                                        mark |-> mark])
    BY <1>3 DEF StSpeak
  <2>5. PICK w : w = [chars |-> chars, start |-> StSpoken(stScript) + pause,
                      end |-> (StSpoken(stScript) + pause) + length, mark |-> mark]
    OBVIOUS
  <2>6. w \in StWordOf /\ w.start < w.end
    <3> PICK a \in Nat, b \in Nat : /\ a = StSpoken(stScript) + pause /\ b = a + length
                                    /\ a < b
      BY <2>3, WordSizesTyped
    <3>1. w = [chars |-> chars, start |-> a, end |-> b, mark |-> mark]
      BY <2>5
    <3> QED
      BY <3>1 DEF StWordOf
  <2>7. /\ stScript' \in Seq(StWordOf) /\ Len(stScript') = Len(stScript) + 1
        /\ \A k \in 1..Len(stScript') : stScript'[k] = IF k <= Len(stScript) THEN stScript[k] ELSE w
    BY <2>1, <2>4, <2>5, <2>6, AppendProperties
  <2>8. \A k \in 1..Len(stScript') : stScript'[k].start < stScript'[k].end
    BY <2>1, <2>6, <2>7 DEF StTyped
  <2>9. Len(stScript') <= StWords
    BY <2>1, <2>7
  <2>10. StSaidOf' = StSaidOf
    BY <2>1 DEF StSaidOf
  <2> QED
    BY <2>1, <2>7, <2>8, <2>9, <2>10 DEF StTyped
<1> QED
  BY <1>1, <1>2, <1>3 DEF StNext

LEMMA StIsSafe == StTyped => StSafe
<1> SUFFICES ASSUME StTyped PROVE StSafe
  OBVIOUS
<1>1. SaidOK
  BY DEF StTyped, SaidOK
<1>2. stScript \in Text
  BY DEF StTyped, Text
<1> QED
  BY <1>1, <1>2, SaidIsHeard, CuesAreGood DEF StSafe, StWordsKept, StCuesApart

(* What a chunk heard is in the merged transcript, once, except when the     *)
(* same words were heard in the same overlap; and the cues show every word,  *)
(* in order, one cue at a time: for every sound, every number of utterances  *)
(* and of words, and whatever the chunks miss (plan_chunks,                  *)
(* merge_chunk_transcripts, SubtitleFormatter.format).                       *)
THEOREM SpeechIsSafe == StSpec => []StSafe
<1>1. StInit => StTyped
  BY StTypedInitially
<1>2. StTyped /\ [StNext]_stVars => StTyped'
  BY StTypeStep
<1>3. StTyped => StSafe
  BY StIsSafe
<1> QED
  BY <1>1, <1>2, <1>3, PTL DEF StSpec

(* The accounting: a request has its number, each attempt and chunk fits,    *)
(* and whatever the hook, the outbox or a fault holds is an answer.          *)
HIDE LengthsTyped
USE UsAssumption

UsReach(at) == IF at = "post" THEN UsDelays - 1 ELSE IF at = "sleep" THEN UsDelays
               ELSE IF at = "items" THEN UsItems ELSE 0
UsFitting(call) ==
  /\ call.calls \in 0..UsCalls /\ (call.at # "idle" => call.calls >= 1)
  /\ call.n \in 0..UsReach(call.at)
UsFit == \A j \in UsJobs : UsFitting(usCall[j])
UsHeldFit ==
  /\ usHook.answer \in UsAnswers \cup {<<>>} /\ usHook.kept \in Seq(UsAnswers)
  /\ usOutbox \in Seq(UsAnswers)
UsTakenFit == usLost \subseteq UsAnswers /\ usFaults \in 0..UsFaults
UsBounded == UsFit /\ UsHeldFit /\ UsTakenFit

LEMMA UsTypes == UsInv /\ UsBounded => UsTypeOK
<1> SUFFICES ASSUME UsInv, UsBounded PROVE UsTypeOK
  OBVIOUS
<1>1. ASSUME NEW j \in UsJobs
      PROVE  /\ usCall[j].at \in UsPlaces /\ usCall[j].calls \in 0..UsCalls
             /\ usCall[j].n \in 0..(UsItems + UsDelays) /\ usCall[j].late \in BOOLEAN
  <2>1. usCall[j] \in UsCallOf
    BY DEF UsInv, UsTyped
  <2>2. usCall[j].n \in 0..UsReach(usCall[j].at) /\ usCall[j].calls \in 0..UsCalls
    BY DEF UsBounded, UsFit, UsFitting
  <2>3. UsReach(usCall[j].at) \in Int /\ UsReach(usCall[j].at) <= UsItems + UsDelays
    BY DEF UsReach, UsDelays
  <2>4. usCall[j].n \in 0..(UsItems + UsDelays)
    BY <2>2, <2>3 DEF UsDelays
  <2> QED
    BY <2>1, <2>2, <2>4 DEF UsCallOf
<1>2. usRows \in [UsAnswers -> 0..2]
  <2>1. \A a \in UsAnswers : usRows[a] \in Nat /\ usRows[a] <= 1
    BY DEF UsInv, UsTyped, UsOnce
  <2>2. \A a \in UsAnswers : usRows[a] \in 0..2
    BY <2>1
  <2> QED
    BY <2>2 DEF UsInv, UsTyped
<1>3. usHook.step \in {"idle", "replay", "rewrite", "record", "queue"}
  BY DEF UsInv, UsTyped, UsHookOf
<1> QED
  BY <1>1, <1>2, <1>3 DEF UsTypeOK, UsBounded, UsHeldFit, UsTakenFit, UsPlaces

LEMMA UsBoundedInitially == UsInit => UsBounded
<1> SUFFICES ASSUME UsInit PROVE UsBounded
  OBVIOUS
<1>1. \A j \in UsJobs : usCall[j].at = "idle" /\ usCall[j].calls = 0 /\ usCall[j].n = 0
  BY DEF UsInit, UsRest
<1>2. UsFit
  <2>1. UsReach("idle") = 0 /\ 0 \in 0..UsCalls
    BY DEF UsReach
  <2> QED
    BY <1>1, <2>1 DEF UsFit, UsFitting
<1>3. usHook.answer = <<>> /\ usHook.kept = <<>>
  BY DEF UsInit, UsSilent
<1>4. <<>> \in Seq(UsAnswers)
  OBVIOUS
<1> QED
  BY <1>2, <1>3, <1>4 DEF UsInit, UsBounded, UsHeldFit, UsTakenFit

\* The coroutine of one job moves on.
LEMMA UsFitOn ==
  ASSUME UsInv, UsFit, NEW j \in UsJobs, NEW call, UsFitting(call),
         usCall' = [usCall EXCEPT ![j] = call]
  PROVE  UsFit'
<1>1. usCall'[j] = call /\ \A i \in UsJobs \ {j} : usCall'[i] = usCall[i]
  BY DEF UsInv, UsTyped
<1>2. \A i \in UsJobs : UsFitting(usCall'[i])
  BY <1>1 DEF UsFit
<1> QED
  BY <1>2 DEF UsFit, UsFitting, UsReach

LEMMA UsOverFit ==
  ASSUME UsInv, UsFit, NEW j \in UsJobs, UsOver(j) PROVE UsFit'
<1>1. PICK call : call = [UsRest EXCEPT !.calls = usCall[j].calls]
  OBVIOUS
<1>2. call.at = "idle" /\ call.calls = usCall[j].calls /\ call.n = 0
  BY <1>1 DEF UsRest
<1>3. UsFitting(call)
  BY <1>2 DEF UsFit, UsFitting, UsReach
<1> QED
  BY <1>1, <1>3, UsFitOn DEF UsOver

LEMMA UsGoFit ==
  ASSUME UsInv, UsFit, NEW j \in UsJobs, NEW at, usCall[j].at # "idle", UsGo(j, at),
         usCall[j].n \in 0..UsReach(at)
  PROVE  UsFit'
<1>1. usCall[j] \in UsCallOf
  BY DEF UsInv, UsTyped
<1>2. PICK call : call = [usCall[j] EXCEPT !.at = at]
  OBVIOUS
<1>3. call.at = at /\ call.calls = usCall[j].calls /\ call.n = usCall[j].n
  BY <1>1, <1>2 DEF UsCallOf
<1>4. UsFitting(call)
  BY <1>3 DEF UsFit, UsFitting
<1> QED
  BY <1>2, <1>4, UsFitOn DEF UsGo

\* The key of an attempt, or a chunk, that is asked for.
LEMMA UsKeyFit ==
  ASSUME UsFit, NEW j \in UsJobs, usCall[j].at # "idle", NEW kind \in {"chat", "item"},
         NEW n \in Nat \ {0}, n <= UsDelays \/ n <= UsItems
  PROVE  UsKey(j, kind, n) \in UsAnswers
<1>0. UsFitting(usCall[j])
  BY DEF UsFit
<1>1. usCall[j].calls \in 1..UsCalls
  BY <1>0 DEF UsFitting
<1>2. n \in 1..(IF UsItems > UsDelays THEN UsItems ELSE UsDelays)
  BY DEF UsDelays
<1> QED
  BY <1>1, <1>2 DEF UsKey, UsAnswers

LEMMA UsEmitFit ==
  ASSUME UsHeldFit, NEW j \in UsJobs, NEW answer \in UsAnswers \cup {<<>>}, UsEmit(j, answer),
         UNCHANGED usOutbox
  PROVE  UsHeldFit'
<1>1. usHook'.answer = answer /\ usHook'.kept = <<>>
  BY DEF UsEmit, UsSilent
<1>2. <<>> \in Seq(UsAnswers)
  OBVIOUS
<1> QED
  BY <1>1, <1>2 DEF UsHeldFit

\* The attempts of a request.
LEMMA UsChatBound ==
  ASSUME UsInv, UsBounded, NEW j \in UsJobs, UsChat(j) PROVE UsBounded'
<1>0. /\ UsFit /\ UsHeldFit /\ UsTakenFit /\ usCall[j] \in UsCallOf
      /\ usCall[j].n \in 0..UsReach(usCall[j].at)
  BY DEF UsBounded, UsInv, UsTyped, UsFit, UsFitting
<1>1. CASE UsPost(j)
  <2>1. usCall[j].at = "post" /\ UNCHANGED <<usOutbox, usLost, usFaults>>
    BY <1>1 DEF UsPost, UsAt
  <2>2. PICK n \in 1..UsDelays : n = usCall[j].n + 1
    BY <1>0, <2>1 DEF UsReach, UsDelays
  <2>3. UsOver(j) \/ usCall' = [usCall EXCEPT ![j] = [usCall[j] EXCEPT !.n = n, !.at = "sleep"]]
    BY <1>0, <1>1, <2>2 DEF UsPost, UsInv, UsTyped
  <2>4. UsFit'
    <3>1. PICK call : call = [usCall[j] EXCEPT !.n = n, !.at = "sleep"]
      OBVIOUS
    <3>2. call.at = "sleep" /\ call.n = n /\ call.calls = usCall[j].calls
      BY <1>0, <3>1 DEF UsCallOf
    <3>3. call.n \in 0..UsReach("sleep")
      BY <2>2, <3>2 DEF UsReach, UsDelays
    <3>4. call.calls \in 0..UsCalls /\ call.calls >= 1
      BY <1>0, <2>1, <3>2 DEF UsFit, UsFitting
    <3>5. UsFitting(call)
      BY <3>2, <3>3, <3>4 DEF UsFitting
    <3> QED
      BY <1>0, <2>3, <3>1, <3>5, UsFitOn, UsOverFit
  <2>5. PICK key : key = UsKey(j, "chat", n)
    OBVIOUS
  <2>6. key \in UsAnswers
    <3>1. usCall[j].at # "idle" /\ n \in Nat \ {0} /\ n <= UsDelays
      BY <2>1
    <3>2. UsKey(j, "chat", n) \in UsAnswers
      BY <1>0, <3>1, UsKeyFit
    <3> QED
      BY <2>5, <3>2
  <2>7. PICK answer \in {key, <<>>} : UsEmit(j, answer)
    BY <1>1, <2>2, <2>5 DEF UsPost
  <2>8. UsHeldFit'
    BY <1>0, <2>1, <2>6, <2>7, UsEmitFit
  <2> QED
    BY <1>0, <2>1, <2>4, <2>8 DEF UsBounded, UsTakenFit
<1>2. CASE UsSlept(j)
  <2>1. usCall[j].at = "sleep" /\ UNCHANGED <<usHook, usOutbox, usLost, usFaults>>
    BY <1>2 DEF UsSlept, UsAt
  <2>2. CASE UsOver(j)
    BY <1>0, <2>1, <2>2, UsOverFit DEF UsBounded, UsHeldFit, UsTakenFit
  <2>3. CASE usCall[j].n # UsDelays /\ UsGo(j, "post")
    <3>1. usCall[j].n \in 0..UsReach("post")
      BY <1>0, <2>1, <2>3 DEF UsReach, UsDelays
    <3>2. UsFit'
      BY <1>0, <2>1, <2>3, <3>1, UsGoFit
    <3> QED
      BY <1>0, <2>1, <3>2 DEF UsBounded, UsHeldFit, UsTakenFit
  <2> QED
    BY <1>2, <2>2, <2>3 DEF UsSlept
<1>3. CASE UsPlain(j)
  <2>1. usCall[j].at # "idle" /\ UsOver(j) /\ UNCHANGED <<usHook, usOutbox>>
    BY <1>3 DEF UsPlain, UsAt
  <2>2. PICK key : key = UsKey(j, "chat", 1)
    OBVIOUS
  <2>3. key \in UsAnswers
    <3>1. PICK n \in Nat \ {0} : n = 1
      OBVIOUS
    <3>2. n <= UsDelays
      BY <3>1 DEF UsDelays
    <3> QED
      BY <1>0, <2>1, <2>2, <3>1, <3>2, UsKeyFit
  <2>4. /\ usLost' = usLost \/ usLost' = usLost \cup {key}
        /\ usFaults' = usFaults \/ (usFaults < UsFaults /\ usFaults' = usFaults + 1)
    BY <1>3, <2>2 DEF UsPlain, UsFault
  <2>5. UsTakenFit'
    BY <1>0, <2>3, <2>4 DEF UsTakenFit
  <2> QED
    BY <1>0, <2>1, <2>5, UsOverFit DEF UsBounded, UsHeldFit
<1>4. CASE UsCatalog(j)
  <2>1. UsOver(j) /\ UsEmit(j, <<>>) /\ UNCHANGED <<usOutbox, usLost, usFaults>>
    BY <1>4 DEF UsCatalog
  <2>2. UsHeldFit'
    BY <1>0, <2>1, UsEmitFit
  <2> QED
    BY <1>0, <2>1, <2>2, UsOverFit DEF UsBounded, UsTakenFit
<1> QED
  BY <1>1, <1>2, <1>3, <1>4 DEF UsChat

\* A batch: sent, asked after, and its results read.
LEMMA UsBatchBound ==
  ASSUME UsInv, UsBounded, NEW j \in UsJobs, UsBatch(j) PROVE UsBounded'
<1>0. /\ UsFit /\ UsHeldFit /\ UsTakenFit /\ usCall[j] \in UsCallOf
      /\ usCall[j].n \in 0..UsReach(usCall[j].at)
  BY DEF UsBounded, UsInv, UsTyped, UsFit, UsFitting
<1>1. UNCHANGED <<usOutbox, usLost, usFaults>> /\ usCall[j].at # "idle"
  BY DEF UsBatch, UsSubmit, UsPoll, UsGivenUp, UsItem, UsItemsRead, UsAt
<1>2. CASE UsItem(j)
  <2>1. usCall[j].at = "items" /\ usCall[j].n < UsItems
    BY <1>2 DEF UsItem, UsAt
  <2>2. PICK n \in 1..UsItems : n = usCall[j].n + 1
    BY <1>0, <2>1 DEF UsReach
  <2>3. PICK call : call = [usCall[j] EXCEPT !.n = n]
    OBVIOUS
  <2>4. call.at = "items" /\ call.n = n /\ call.calls = usCall[j].calls
    BY <1>0, <2>1, <2>3 DEF UsCallOf
  <2>5. UsFitting(call)
    <3>1. call.n \in 0..UsReach("items")
      BY <2>2, <2>4 DEF UsReach
    <3>2. call.calls \in 0..UsCalls /\ call.calls >= 1
      BY <1>0, <2>1, <2>4 DEF UsFit, UsFitting
    <3> QED
      BY <2>4, <3>1, <3>2 DEF UsFitting
  <2>6. UsOver(j) \/ usCall' = [usCall EXCEPT ![j] = call]
    BY <1>0, <1>2, <2>2, <2>3 DEF UsItem, UsInv, UsTyped
  <2>7. UsFit'
    BY <1>0, <2>5, <2>6, UsFitOn, UsOverFit
  <2>8. PICK key : key = UsKey(j, "item", n)
    OBVIOUS
  <2>9. key \in UsAnswers
    <3>1. n \in Nat \ {0} /\ n <= UsItems
      OBVIOUS
    <3> QED
      BY <1>0, <1>1, <2>8, <3>1, UsKeyFit
  <2>10. usHook' = usHook \/ \E answer \in {key, <<>>} : UsEmit(j, answer)
    BY <1>2, <2>2, <2>8 DEF UsItem
  <2>11. UsHeldFit'
    <3>1. CASE usHook' = usHook
      BY <1>0, <1>1, <3>1 DEF UsHeldFit
    <3>2. ASSUME NEW answer \in {key, <<>>}, UsEmit(j, answer) PROVE UsHeldFit'
      BY <1>0, <1>1, <2>9, <3>2, UsEmitFit
    <3> QED
      BY <2>10, <3>1, <3>2
  <2> QED
    BY <1>0, <1>1, <2>7, <2>11 DEF UsBounded, UsTakenFit
<1>3. CASE UsSubmit(j) \/ UsPoll(j) \/ UsGivenUp(j) \/ UsItemsRead(j)
  <2>1. usHook' = usHook \/ UsEmit(j, <<>>)
    BY <1>3 DEF UsSubmit, UsPoll, UsGivenUp, UsItemsRead
  <2>2. UsHeldFit'
    <3>1. CASE usHook' = usHook
      BY <1>0, <1>1, <3>1 DEF UsHeldFit
    <3>2. CASE UsEmit(j, <<>>)
      BY <1>0, <1>1, <3>2, UsEmitFit
    <3> QED
      BY <2>1, <3>1, <3>2
  <2>3. UsFit'
    <3>1. CASE UsOver(j)
      BY <1>0, <3>1, UsOverFit
    <3>2. CASE usCall' = usCall
      BY <1>0, <3>2 DEF UsFit, UsFitting, UsReach
    <3>3. CASE UsSubmit(j) /\ UsGo(j, "poll")
      <4>1. usCall[j].n \in 0..UsReach("poll")
        BY <1>0, <3>3 DEF UsSubmit, UsAt, UsReach
      <4> QED
        BY <1>0, <1>1, <3>3, <4>1, UsGoFit
    <3>4. ASSUME NEW results, UsPoll(j),
                 usCall' = [usCall EXCEPT ![j].at = "items", ![j].results = results]
          PROVE  UsFit'
      <4>1. usCall[j].at = "poll"
        BY <3>4 DEF UsPoll, UsAt
      <4>2. PICK call : call = [usCall[j] EXCEPT !.at = "items", !.results = results]
        OBVIOUS
      <4>3. call.at = "items" /\ call.n = usCall[j].n /\ call.calls = usCall[j].calls
        BY <1>0, <4>2 DEF UsCallOf
      <4>4. call.n \in 0..UsReach("items")
        BY <1>0, <4>1, <4>3 DEF UsReach
      <4>5. UsFitting(call)
        BY <1>0, <4>1, <4>3, <4>4 DEF UsFit, UsFitting
      <4>6. usCall' = [usCall EXCEPT ![j] = call]
        BY <3>4, <4>2
      <4> QED
        BY <1>0, <4>5, <4>6, UsFitOn
    <3> QED
      BY <1>3, <3>1, <3>2, <3>3, <3>4 DEF UsSubmit, UsPoll, UsGivenUp, UsItemsRead
  <2> QED
    BY <1>0, <1>1, <2>2, <2>3 DEF UsBounded, UsTakenFit
<1> QED
  BY <1>2, <1>3 DEF UsBatch

\* A request begins, grows late or is cancelled.
LEMMA UsQuietBound ==
  ASSUME UsInv, UsBounded, NEW j \in UsJobs,
         \/ UsLate(j) \/ UsCancelled(j)
         \/ \E kind \in {"post", "plain", "catalog", "submit"} : UsCallStart(j, kind)
  PROVE  UsBounded'
<1>0. /\ UsFit /\ UsHeldFit /\ UsTakenFit /\ usCall[j] \in UsCallOf
      /\ usCall[j].n \in 0..UsReach(usCall[j].at)
  BY DEF UsBounded, UsInv, UsTyped, UsFit, UsFitting
<1>1. UNCHANGED <<usHook, usOutbox, usLost, usFaults>>
  BY DEF UsLate, UsCancelled, UsCallStart
<1>2. UsFit'
  <2>1. CASE UsCancelled(j)
    BY <1>0, <2>1, UsOverFit DEF UsCancelled
  <2>2. CASE UsLate(j)
    <3>1. PICK call : call = [usCall[j] EXCEPT !.late = TRUE]
      OBVIOUS
    <3>2. call.at = usCall[j].at /\ call.n = usCall[j].n /\ call.calls = usCall[j].calls
      BY <1>0, <3>1 DEF UsCallOf
    <3>3. UsFitting(call)
      BY <1>0, <3>2 DEF UsFit, UsFitting
    <3>4. usCall' = [usCall EXCEPT ![j] = call]
      BY <2>2, <3>1 DEF UsLate
    <3> QED
      BY <1>0, <3>3, <3>4, UsFitOn
  <2>3. ASSUME NEW kind \in {"post", "plain", "catalog", "submit"}, UsCallStart(j, kind)
        PROVE  UsFit'
    <3>1. PICK call : call = [UsRest EXCEPT !.at = kind, !.calls = usCall[j].calls + 1]
      OBVIOUS
    <3>2. call.at = kind /\ call.n = 0 /\ call.calls = usCall[j].calls + 1
      BY <3>1 DEF UsRest
    <3>3. usCall[j].calls \in 0..UsCalls /\ usCall[j].calls < UsCalls
      BY <1>0, <2>3 DEF UsCallStart, UsFit, UsFitting
    <3>4. call.n \in 0..UsReach(kind)
      BY <3>2 DEF UsReach, UsDelays
    <3>5. UsFitting(call)
      BY <3>2, <3>3, <3>4 DEF UsFitting
    <3> QED
      BY <1>0, <2>3, <3>1, <3>5, UsFitOn DEF UsCallStart
  <2> QED
    BY <2>1, <2>2, <2>3
<1> QED
  BY <1>0, <1>1, <1>2 DEF UsBounded, UsHeldFit, UsTakenFit

\* The hook handles answers only.
LEMMA UsHookBound ==
  ASSUME UsInv, UsBounded, UsHookRuns PROVE UsBounded'
<1>0. UsFit /\ UsHeldFit /\ UsTakenFit /\ usHook \in UsHookOf
  BY DEF UsBounded, UsInv, UsTyped
<1>1. UsFit'
  BY <1>0 DEF UsHookRuns, UsReplay, UsRewrite, UsRecord, UsQueue, UsFit, UsFitting, UsReach
<1>2. usFaults' = usFaults \/ (usFaults < UsFaults /\ usFaults' = usFaults + 1)
  BY DEF UsHookRuns, UsReplay, UsRewrite, UsRecord, UsQueue, UsFault
<1>3. UsSilent.answer = <<>> /\ UsSilent.kept = <<>> /\ <<>> \in Seq(UsAnswers)
  BY DEF UsSilent
<1>4. CASE UsReplay
  <2>1. UNCHANGED <<usOutbox, usLost>> /\ usHook.line <= Len(usOutbox)
    BY <1>4 DEF UsReplay
  <2>2. UsLine \in UsAnswers
    <3>1. usHook.line \in Nat \ {0}
      BY <1>0 DEF UsHookOf
    <3>2. usHook.line \in 1..Len(usOutbox)
      BY <1>0, <2>1, <3>1 DEF UsHeldFit
    <3> QED
      BY <1>0, <3>2, ElementOfSeq DEF UsLine, UsHeldFit
  <2>3. PICK kept \in {usHook.kept, Append(usHook.kept, UsLine)} : UsReplayed(kept)
    BY <1>4 DEF UsReplay
  <2>4. kept \in Seq(UsAnswers)
    <3>1. usHook.kept \in Seq(UsAnswers)
      BY <1>0 DEF UsHeldFit
    <3>2. Append(usHook.kept, UsLine) \in Seq(UsAnswers)
      BY <2>2, <3>1, AppendProperties
    <3> QED
      BY <2>3, <3>1, <3>2
  <2>5. usHook'.answer = usHook.answer /\ usHook'.kept = kept
    BY <1>0, <2>3 DEF UsReplayed, UsHookOf
  <2>6. UsHeldFit'
    BY <1>0, <2>1, <2>4, <2>5 DEF UsHeldFit
  <2> QED
    BY <1>0, <1>1, <1>2, <2>1, <2>6 DEF UsBounded, UsTakenFit
<1>5. CASE UsRewrite
  <2>1. UNCHANGED usLost /\ (usOutbox' = usOutbox \/ usOutbox' = usHook.kept)
    BY <1>5 DEF UsRewrite
  <2>2. usHook' = UsSilent \/ usHook' = [usHook EXCEPT !.step = "record"]
    BY <1>5 DEF UsRewrite
  <2>3. [usHook EXCEPT !.step = "record"].answer = usHook.answer
        /\ [usHook EXCEPT !.step = "record"].kept = usHook.kept
    BY <1>0 DEF UsHookOf
  <2>4. UsHeldFit'
    BY <1>0, <1>3, <2>1, <2>2, <2>3 DEF UsHeldFit
  <2> QED
    BY <1>0, <1>1, <1>2, <2>1, <2>4 DEF UsBounded, UsTakenFit
<1>6. CASE UsRecord
  <2>1. UNCHANGED <<usOutbox, usLost>>
    BY <1>6 DEF UsRecord
  <2>2. usHook' = UsSilent \/ usHook' = [usHook EXCEPT !.step = "queue"]
    BY <1>6 DEF UsRecord
  <2>3. [usHook EXCEPT !.step = "queue"].answer = usHook.answer
        /\ [usHook EXCEPT !.step = "queue"].kept = usHook.kept
    BY <1>0 DEF UsHookOf
  <2>4. UsHeldFit'
    BY <1>0, <1>3, <2>1, <2>2, <2>3 DEF UsHeldFit
  <2> QED
    BY <1>0, <1>1, <1>2, <2>1, <2>4 DEF UsBounded, UsTakenFit
<1>7. CASE UsQueue
  <2>1. usHook.answer \in UsAnswers
    BY <1>0, <1>7 DEF UsQueue, UsInv, UsHasAnswer, UsHeldFit
  <2>2. /\ usHook' = UsSilent
        /\ usOutbox' = usOutbox \/ usOutbox' = Append(usOutbox, usHook.answer)
        /\ usLost' = usLost \/ usLost' = usLost \cup {usHook.answer}
    BY <1>7 DEF UsQueue
  <2>3. usOutbox' \in Seq(UsAnswers)
    BY <1>0, <2>1, <2>2, AppendProperties DEF UsHeldFit
  <2>4. UsHeldFit'
    BY <1>3, <2>2, <2>3 DEF UsHeldFit
  <2> QED
    BY <1>0, <1>1, <1>2, <2>1, <2>2, <2>4 DEF UsBounded, UsTakenFit
<1> QED
  BY <1>4, <1>5, <1>6, <1>7 DEF UsHookRuns

LEMMA UsCrashBound ==
  ASSUME UsInv, UsBounded, UsCrash PROVE UsBounded'
<1>0. UsFit /\ UsHeldFit /\ UsTakenFit
  BY DEF UsBounded
<1>1. \A j \in UsJobs : /\ usCall'[j].at = "idle" /\ usCall'[j].n = 0
                        /\ usCall'[j].calls = usCall[j].calls
  BY DEF UsCrash, UsRest
<1>2. UsFit'
  BY <1>0, <1>1 DEF UsFit, UsFitting, UsReach
<1>3. UsSilent.answer = <<>> /\ UsSilent.kept = <<>> /\ <<>> \in Seq(UsAnswers)
  BY DEF UsSilent
<1>4. UsHeldFit'
  BY <1>0, <1>3 DEF UsCrash, UsHeldFit
<1>5. UsTakenFit'
  BY <1>0 DEF UsCrash, UsFault, UsTakenFit, UsHeldFit
<1> QED
  BY <1>2, <1>4, <1>5 DEF UsBounded

LEMMA UsBoundStep == UsInv /\ UsBounded /\ [UsNext]_usVars => UsBounded'
<1> SUFFICES ASSUME UsInv, UsBounded, [UsNext]_usVars PROVE UsBounded'
  OBVIOUS
<1>1. CASE UNCHANGED usVars
  BY <1>1 DEF usVars, UsBounded, UsFit, UsFitting, UsReach, UsHeldFit, UsTakenFit
<1>2. CASE UsNext
  BY <1>2, UsChatBound, UsBatchBound, UsQuietBound, UsHookBound, UsCrashBound DEF UsNext
<1> QED
  BY <1>1, <1>2

(* The pools: a priority is a place in its pool.  The models of a pool are   *)
(* no more than the priorities, for no two of them have the same one.        *)
HIDE UsAssumption
USE PoAssumption

PoKeptRows == [tier : PoTiers, prio : PoPrios, on : BOOLEAN]
PoStrategies == {"free_only", "paid_only", "free_first"}
PoSettingsOf == [model : PoModels, paidFallback : BOOLEAN, strategy : PoStrategies]

LEMMA PoPoolFits ==
  ASSUME PoInv, PoTypeOK, NEW tier \in PoTiers
  PROVE  Cardinality(PoPool(tier)) \in Nat /\ Cardinality(PoPool(tier)) <= PoMaxPrio
<1> DEFINE pool == PoPool(tier)
           place == [m \in pool |-> poPrefs[m].prio]
<1>1. \A m \in pool : m \in PoModels /\ poPrefs[m] # PoNoRow /\ poPrefs[m].prio \in PoPrios
  <2> SUFFICES ASSUME NEW m \in pool
               PROVE  m \in PoModels /\ poPrefs[m] # PoNoRow /\ poPrefs[m].prio \in PoPrios
    OBVIOUS
  <2>1. m \in PoModels /\ poPrefs[m].tier \in PoTiers
    BY DEF PoPool
  <2>2. poPrefs[m] # PoNoRow
    BY <2>1 DEF PoNoRow, PoTiers
  <2>3. poPrefs[m] \in PoKeptRows
    BY <2>1, <2>2 DEF PoTypeOK, PoRows, PoKeptRows
  <2> QED
    BY <2>1, <2>2, <2>3 DEF PoKeptRows
<1>2. \A m, n \in pool : m # n => poPrefs[m].prio # poPrefs[n].prio
  <2> SUFFICES ASSUME NEW m \in pool, NEW n \in pool, m # n
               PROVE  poPrefs[m].prio # poPrefs[n].prio
    OBVIOUS
  <2>1. m \in PoIn(poPrefs) /\ n \in PoIn(poPrefs)
    BY <1>1 DEF PoIn
  <2>2. poPrefs[m].tier = poPrefs[n].tier
    BY DEF PoPool
  <2> QED
    BY <2>1, <2>2 DEF PoInv, PoTablesAgree, PoOrderTotal
<1>3. place \in Injection(pool, PoPrios)
  <2>1. place \in [pool -> PoPrios]
    BY <1>1
  <2>2. \A m, n \in pool : place[m] = place[n] => m = n
    BY <1>2
  <2> HIDE DEF place, pool
  <2> QED
    BY <2>1, <2>2 DEF Injection, IsInjective
<1>4. IsFiniteSet(PoPrios) /\ Cardinality(PoPrios) = PoMaxPrio
  <2>1. 1 \in Int /\ PoMaxPrio \in Int
    OBVIOUS
  <2>2. IsFiniteSet(1..PoMaxPrio) /\ Cardinality(1..PoMaxPrio) = IF 1 > PoMaxPrio THEN 0 ELSE PoMaxPrio - 1 + 1
    BY <2>1, FS_Interval
  <2> QED
    BY <2>2 DEF PoPrios
<1> HIDE DEF place, pool
<1>5. IsFiniteSet(pool) /\ Cardinality(pool) <= PoMaxPrio
  BY <1>3, <1>4, FS_Injection
<1>6. Cardinality(pool) \in Nat
  BY <1>5, FS_CardinalityType
<1> QED
  BY <1>5, <1>6 DEF pool

LEMMA PoTypesInitially == PoInit => PoTypeOK
<1> SUFFICES ASSUME PoInit PROVE PoTypeOK
  OBVIOUS
<1> PICK m \in PoModels :
      LET row == [tier |-> IF m \in PoFreeNamed THEN "free" ELSE "paid", prio |-> 1, on |-> TRUE]
      IN /\ poLegacy = [PoNoRows EXCEPT ![m] = row]
         /\ poSettings = [model |-> m, paidFallback |-> FALSE,
                          strategy |-> IF row.tier = "free" THEN "free_only" ELSE "paid_only"]
  BY DEF PoInit
<1>1. PICK row : row = [tier |-> IF m \in PoFreeNamed THEN "free" ELSE "paid", prio |-> 1, on |-> TRUE]
  OBVIOUS
<1>2. row \in PoRows
  BY <1>1 DEF PoRows, PoTiers, PoPrios
<1>3. poLegacy = [PoNoRows EXCEPT ![m] = row]
  BY <1>1
<1>4. poLegacy \in [PoModels -> PoRows]
  BY <1>2, <1>3 DEF PoNoRows, PoRows
<1>5. poSettings \in PoSettingsOf
  BY DEF PoSettingsOf, PoStrategies
<1> QED
  BY <1>4, <1>5 DEF PoInit, PoTypeOK, PoSettingsOf, PoStrategies, PoPrices

LEMMA PoSyncTyped == ASSUME PoTypeOK, PoSync PROVE poSettings' \in PoSettingsOf
<1>1. poSettings \in PoSettingsOf
  BY DEF PoTypeOK, PoSettingsOf, PoStrategies
<1>2. CASE poSettings' = poSettings
  BY <1>1, <1>2
<1>3. ASSUME NEW m \in PoModels, poSettings' = [poSettings EXCEPT !.model = m]
      PROVE  poSettings' \in PoSettingsOf
  BY <1>1, <1>3 DEF PoSettingsOf
<1> QED
  BY <1>2, <1>3 DEF PoSync, PoTop

LEMMA PoSeedTyped ==
  ASSUME PoTypeOK, NEW s \in PoSettingsOf, PoSeed(s)
  PROVE  poSettings' \in PoSettingsOf /\ poLegacy' \in [PoModels -> PoRows]
<1>1. CASE PoIn(poLegacy) # {}
  BY <1>1 DEF PoSeed, PoTypeOK
<1>2. CASE PoIn(poLegacy) = {}
  <2>0. s.model \in PoModels
    BY DEF PoSettingsOf
  <2>1. PoTierOf(s.model) \in PoTiers
    BY DEF PoTierOf, PoTiers
  <2>2. PICK row : row = [tier |-> PoTierOf(s.model), prio |-> 1, on |-> TRUE]
    OBVIOUS
  <2>3. row \in PoRows
    BY <2>1, <2>2 DEF PoRows, PoPrios
  <2>4. poLegacy' = [PoNoRows EXCEPT ![s.model] = row] /\ poSettings' = PoSeedSettings(s)
    BY <1>2, <2>2 DEF PoSeed, PoSeedLegacy
  <2>5. poLegacy' \in [PoModels -> PoRows]
    BY <2>0, <2>3, <2>4 DEF PoNoRows, PoRows
  <2>6. PICK strategy \in PoStrategies :
          poSettings' = [s EXCEPT !.paidFallback = FALSE, !.strategy = strategy]
    BY <2>4 DEF PoSeedSettings, PoStrategies
  <2>7. poSettings' \in PoSettingsOf
    BY <2>6 DEF PoSettingsOf
  <2> QED
    BY <2>5, <2>7
<1> QED
  BY <1>1, <1>2

\* One row is written to both tables.
LEMMA PoRowTyped ==
  ASSUME PoTypeOK, NEW m \in PoModels, NEW row \in PoRows,
         poPrefs' = [poPrefs EXCEPT ![m] = row], PoMirror(m), PoSync, UNCHANGED <<poAudio, poPrice>>
  PROVE  PoTypeOK'
<1>1. poPrefs' \in [PoModels -> PoRows] /\ poPrefs'[m] = row
  BY DEF PoTypeOK
<1>2. poLegacy' \in [PoModels -> PoRows]
  BY <1>1 DEF PoMirror, PoTypeOK
<1> QED
  BY <1>1, <1>2, PoSyncTyped DEF PoTypeOK, PoSettingsOf, PoStrategies

LEMMA PoRowOf ==
  ASSUME PoTypeOK, NEW m \in PoModels, poPrefs[m] # PoNoRow PROVE poPrefs[m] \in PoKeptRows
BY DEF PoTypeOK, PoRows, PoKeptRows

LEMMA PoTypeStep == PoInv /\ PoTypeOK /\ [PoNext]_poVars => PoTypeOK'
<1> SUFFICES ASSUME PoInv, PoTypeOK, [PoNext]_poVars PROVE PoTypeOK'
  OBVIOUS
<1>0. poSettings \in PoSettingsOf /\ PoKeptRows \subseteq PoRows /\ PoNoRow \in PoRows
  BY DEF PoTypeOK, PoSettingsOf, PoStrategies, PoRows, PoKeptRows
<1>1. CASE PoSeeded
  <2>1. poSettings' \in PoSettingsOf /\ poLegacy' \in [PoModels -> PoRows]
    BY <1>0, <1>1, PoSeedTyped DEF PoSeeded
  <2>2. poPrefs' \in [PoModels -> PoRows]
    BY <1>1, <2>1 DEF PoSeeded, PoMigrate, PoTypeOK
  <2> QED
    BY <1>1, <2>1, <2>2 DEF PoSeeded, PoTypeOK, PoSettingsOf, PoStrategies
<1>2. CASE PoSettingsRead \/ PoSettingsSaved
  <2>1. PICK s \in PoSettingsOf : PoSeed(s) /\ UNCHANGED <<poPrefs, poAudio, poPrice>>
    BY <1>0, <1>2 DEF PoSettingsRead, PoSettingsSaved, PoSettingsOf, PoStrategies
  <2>2. poSettings' \in PoSettingsOf /\ poLegacy' \in [PoModels -> PoRows]
    BY <2>1, PoSeedTyped
  <2> QED
    BY <2>1, <2>2 DEF PoTypeOK, PoSettingsOf, PoStrategies
<1>3. ASSUME NEW m \in PoModels, NEW tier \in PoTiers, PoAdd(m, tier) PROVE PoTypeOK'
  <2>1. PICK p \in PoPrios : poPrefs' = [poPrefs EXCEPT ![m] = [tier |-> tier, prio |-> p, on |-> TRUE]]
    BY <1>3 DEF PoAdd, PoNew
  <2>2. [tier |-> tier, prio |-> p, on |-> TRUE] \in PoRows
    BY DEF PoRows
  <2> QED
    BY <1>3, <2>1, <2>2, PoRowTyped DEF PoAdd
<1>4. ASSUME NEW m \in PoModels, PoSwitch(m) PROVE PoTypeOK'
  <2>1. PICK old \in PoKeptRows : old = poPrefs[m]
    BY <1>4, PoRowOf DEF PoSwitch
  <2>2. PICK row : row = [old EXCEPT !.on = ~@]
    OBVIOUS
  <2>3. row \in PoKeptRows
    BY <2>2 DEF PoKeptRows
  <2>4. poPrefs' = [poPrefs EXCEPT ![m] = row]
    BY <1>4, <2>1, <2>2 DEF PoSwitch
  <2> QED
    BY <1>0, <1>4, <2>3, <2>4, PoRowTyped DEF PoSwitch
<1>5. ASSUME NEW m \in PoModels, NEW tier \in PoTiers, PoMove(m, tier) PROVE PoTypeOK'
  <2>1. PICK old \in PoKeptRows : old = poPrefs[m]
    BY <1>5, PoRowOf DEF PoMove
  <2>2. PICK p \in PoPrios : poPrefs' = [poPrefs EXCEPT ![m] = [old EXCEPT !.tier = tier, !.prio = p]]
    BY <1>5, <2>1 DEF PoMove, PoLast, PoTypeOK
  <2>3. PICK row : row = [old EXCEPT !.tier = tier, !.prio = p]
    OBVIOUS
  <2>4. row \in PoKeptRows
    BY <2>3 DEF PoKeptRows
  <2>5. poPrefs' = [poPrefs EXCEPT ![m] = row]
    BY <2>2, <2>3
  <2> QED
    BY <1>0, <1>5, <2>4, <2>5, PoRowTyped DEF PoMove
<1>6. ASSUME NEW m \in PoModels, PoDelete(m) PROVE PoTypeOK'
  BY <1>0, <1>6, PoRowTyped DEF PoDelete
<1>7. ASSUME NEW tier \in PoTiers, PoReorder(tier) PROVE PoTypeOK'
  <2> DEFINE pool == PoPool(tier)
  <2>1. PICK order \in [pool -> 1..Cardinality(pool)] :
          poPrefs' = [m \in PoModels |-> IF m \in pool
                                           THEN [poPrefs[m] EXCEPT !.prio = order[m]] ELSE poPrefs[m]]
    BY <1>7 DEF PoReorder
  <2>2. \A m \in pool : order[m] \in PoPrios
    <3>1. Cardinality(pool) \in Nat /\ Cardinality(pool) <= PoMaxPrio
      BY PoPoolFits
    <3> QED
      BY <2>1, <3>1 DEF PoPrios
  <2>3. \A m \in pool : m \in PoModels /\ poPrefs[m] \in PoKeptRows
    <3>1. \A m \in pool : m \in PoModels /\ poPrefs[m].tier \in PoTiers
      BY DEF PoPool
    <3>2. \A m \in pool : poPrefs[m] # PoNoRow
      BY <3>1 DEF PoNoRow, PoTiers
    <3> QED
      BY <3>1, <3>2, PoRowOf
  <2>4. \A m \in pool : [poPrefs[m] EXCEPT !.prio = order[m]] \in PoKeptRows
    BY <2>2, <2>3 DEF PoKeptRows
  <2>5. poPrefs' \in [PoModels -> PoRows]
    BY <1>0, <2>1, <2>4 DEF PoTypeOK
  <2>6. poLegacy' \in [PoModels -> PoRows]
    BY <1>7, <2>5 DEF PoReorder, PoTypeOK
  <2> QED
    BY <1>7, <2>5, <2>6, PoSyncTyped DEF PoReorder, PoTypeOK, PoSettingsOf, PoStrategies
<1>8. CASE PoAudioSet \/ PoPricesChange \/ UNCHANGED poVars
  <2>1. UNCHANGED <<poPrefs, poLegacy, poSettings>>
    BY <1>8 DEF PoAudioSet, PoPricesChange, poVars, poPools
  <2>2. poAudio' \in BOOLEAN /\ poPrice' \in [PoModels -> PoPrices]
    BY <1>8 DEF PoAudioSet, PoPricesChange, poVars, PoTypeOK
  <2> QED
    BY <2>1, <2>2 DEF PoTypeOK
<1> QED
  BY <1>1, <1>2, <1>3, <1>4, <1>5, <1>6, <1>7, <1>8 DEF PoNext, PoUser, PoSystem

(* Together.                                                                 *)
HIDE PoAssumption

UsAll == UsInv /\ UsBounded
PoAll == PoInv /\ PoTypeOK
OpAll == OpInv /\ OpBounded
EvAll == EvInv /\ EvStreamTyped
ServicesInv == UsAll /\ PoAll /\ CaInv /\ OpAll /\ StTyped /\ EvAll

LEMMA ServicesInitially == ServicesInit => ServicesInv
BY UsInitial, UsBoundedInitially, PoInitially, PoTypesInitially, CaInitial, OpInitial,
   OpBoundedInitially, StTypedInitially, EvInitial
   DEF ServicesInit, ServicesInv, UsAll, PoAll, OpAll, EvAll, EvInit, EvStreamTyped

\* A step is one of one part; the others rest.
LEMMA ServicesStep ==
  ServicesInv /\ [ServicesNext]_<<part, usVars, poVars, caVars, opVars, stVars, evVars>>
    => ServicesInv'
<1> SUFFICES ASSUME ServicesInv,
                    [ServicesNext]_<<part, usVars, poVars, caVars, opVars, stVars, evVars>>
             PROVE  ServicesInv'
  OBVIOUS
<1>1. /\ [UsNext]_usVars /\ [PoNext]_poVars /\ [CaNext]_caVars
      /\ [OpNext]_opVars /\ [StNext]_stVars /\ [EvNext]_evVars
  BY DEF ServicesNext
<1>2. UsAll'
  BY <1>1, UsStep, UsBoundStep DEF ServicesInv, UsAll
<1>3. PoAll'
  BY <1>1, PoStep, PoTypeStep DEF ServicesInv, PoAll
<1>4. CaInv'
  BY <1>1, CaStep DEF ServicesInv
<1>5. OpAll'
  BY <1>1, OpStep, OpBoundStep DEF ServicesInv, OpAll
<1>6. StTyped'
  BY <1>1, StTypeStep DEF ServicesInv
<1>7. EvAll'
  BY <1>1, EvStep, EvStreamTypeStep DEF ServicesInv, EvAll
<1> QED
  BY <1>2, <1>3, <1>4, <1>5, <1>6, <1>7 DEF ServicesInv

\* Whatever the services do, side by side, what they keep has its type: no
\* request has more attempts or chunks than there are, no lost or unbooked
\* answer was never given, no turn of the chat is beyond the last, no priority
\* is beyond the pool's end; and no browser is shown a stream with a hole.
THEOREM ServicesAreSafe == ServicesSpec => []ServicesSafe
<1>1. ServicesInv => ServicesSafe
  BY UsTypes, OpTypes, StTypes, EvTypes, EvSafeHolds
     DEF ServicesInv, UsAll, PoAll, OpAll, EvAll, CaInv, ServicesSafe, ServicesTypeOK
<1> QED
  BY ServicesInitially, ServicesStep, <1>1, PTL DEF ServicesSpec
=============================================================================
