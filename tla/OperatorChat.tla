---------------------------- MODULE OperatorChat ----------------------------
(***************************************************************************)
(* The dashboard's chat (localization/operator.py): a message is stored,    *)
(* the model is asked with the whole history, the tools it calls are run   *)
(* (localization/operator_tools.py) and their results stored, up to        *)
(* MAX_TURNS times; a tool that wants a confirmation ends the turn.  Every  *)
(* row is committed alone, and two requests may talk in one session.       *)
(***************************************************************************)
EXTENDS Naturals, Sequences

CONSTANTS
  OpRequests,   \* coroutines that may post to the session
  OpMaxTurns,   \* MAX_TURNS
  OpCalls,      \* bound on the calls of one answer
  OpPosts       \* bound on messages

ASSUME OpAssumption == OpMaxTurns \in Nat \ {0} /\ OpCalls \in Nat \ {0} /\ OpPosts \in Nat

VARIABLES
  opModel,   \* settings: a chat model is named; otherwise the pools are looked at
  opHist,    \* the stored messages: results owed to the last calls, order broken
  opReq,     \* the requests
  opPosts,   \* messages so far
  opTorn     \* requests overlapped, or the process stopped in one (history)

opVars == <<opModel, opHist, opReq, opPosts, opTorn>>

\* What a call asks for: a tool that just runs, one of CONFIRM_GATED without and
\* with "confirmed" among its arguments, and anything that yields an error.
OpTools == {"plain", "gated", "confirmed", "unknown"}
OpQuiet == [at |-> "idle", turn |-> 0, calls |-> <<>>, pending |-> FALSE]

OpTypeOK ==
  /\ opModel \in BOOLEAN /\ opTorn \in BOOLEAN
  /\ opHist \in [owed : 0..OpCalls, broken : BOOLEAN]
  /\ \A r \in OpRequests :
       /\ opReq[r].at \in {"idle", "confirm", "resolve", "ask", "tool"}
       /\ opReq[r].turn \in 0..OpMaxTurns /\ opReq[r].pending \in BOOLEAN
       /\ opReq[r].calls \in Seq(OpTools)
  /\ opPosts \in 0..OpPosts

OpInit ==
  /\ opModel = FALSE
  /\ opHist = [owed |-> 0, broken |-> FALSE] /\ opReq = [r \in OpRequests |-> OpQuiet]
  /\ opPosts = 0 /\ opTorn = FALSE
-----------------------------------------------------------------------------
\* A result goes to the calls before it; any other row ends them.
OpResult(hist) == [owed |-> IF hist.owed = 0 THEN 0 ELSE hist.owed - 1,
                   broken |-> hist.broken \/ hist.owed = 0]
OpOther(hist, calls) == [owed |-> calls, broken |-> hist.broken \/ hist.owed # 0]
OpSays == opHist' = OpOther(opHist, 0)
OpGo(r, at) == opReq' = [opReq EXCEPT ![r].at = at]
OpOver(r) == opReq' = [opReq EXCEPT ![r] = OpQuiet]
OpFrame == UNCHANGED <<opModel, opPosts, opTorn>>

OpPost(r) ==   \* text, or a tool the user confirms
  /\ opReq[r].at = "idle" /\ opPosts < OpPosts
  /\ opPosts' = opPosts + 1
  /\ \/ OpSays /\ OpGo(r, "resolve")
     \/ UNCHANGED opHist /\ OpGo(r, "confirm")
  /\ opTorn' = (opTorn \/ \E s \in OpRequests : opReq[s].at # "idle")
  /\ UNCHANGED opModel

\* The tool runs; its result answers a call "confirmed" nobody made, and a
\* message of the user tells the model what happened.
OpConfirm(r) ==
  /\ opReq[r].at = "confirm"
  /\ OpSays /\ OpGo(r, "resolve")
  /\ OpFrame

\* resolve_operator_model_id: the configured model, tools or not, which may lack
\* its provider; without one the code calls a method that
\* ModelPreferenceService does not have.
OpResolve(r) ==
  /\ opReq[r].at = "resolve"
  /\ (opModel /\ OpGo(r, "ask")) \/ OpOver(r)
  /\ UNCHANGED opHist /\ OpFrame

OpAsked(r) ==
  /\ \/ OpSays /\ OpOver(r)
     \/ UNCHANGED opHist /\ OpOver(r)      \* the provider's error is the caller's
     \/ \E n \in 1..OpCalls : \E calls \in [1..n -> OpTools] :
          /\ opHist' = OpOther(opHist, n)
          /\ opReq' = [opReq EXCEPT ![r].at = "tool", ![r].calls = calls]
  /\ OpFrame

OpAnswer(r) == opReq[r].at = "ask" /\ opReq[r].turn < OpMaxTurns /\ OpAsked(r)

OpEndsOnCall(r, stops) ==   \* the last call of the answer, or one the loop stops at
  Len(opReq[r].calls) = 1 \/ (stops /\ Head(opReq[r].calls) = "gated")
OpPending(r) == opReq[r].pending \/ Head(opReq[r].calls) = "gated"

OpToolRuns(r, stops) ==
  /\ opReq[r].at = "tool"
  /\ IF ~OpEndsOnCall(r, stops)
       THEN /\ opHist' = OpResult(opHist)
            /\ opReq' = [opReq EXCEPT ![r].calls = Tail(@), ![r].pending = OpPending(r)]
     ELSE IF OpPending(r) THEN opHist' = OpOther(OpResult(opHist), 0) /\ OpOver(r)
     ELSE /\ opHist' = OpResult(opHist)
          /\ opReq' = [opReq EXCEPT ![r].calls = <<>>, ![r].at = "ask", ![r].turn = @ + 1]
  /\ OpFrame

\* Mutant: the calls after one that waits for the user are not run.
OpToolStops(r) == OpToolRuns(r, TRUE)
\* call_tool answers every call of the answer: a result, an error, or a preview.
OpTool(r) == OpToolRuns(r, FALSE)

OpLimit(r) ==
  /\ opReq[r].at = "ask" /\ opReq[r].turn = OpMaxTurns
  /\ OpSays /\ OpOver(r)
  /\ OpFrame

OpCrash ==
  /\ \E r \in OpRequests : opReq[r].at # "idle"
  /\ opReq' = [r \in OpRequests |-> OpQuiet] /\ opTorn' = TRUE
  /\ UNCHANGED <<opModel, opHist, opPosts>>

OpSettings ==
  /\ opModel' \in BOOLEAN
  /\ UNCHANGED <<opHist, opReq, opPosts, opTorn>>
-----------------------------------------------------------------------------
OpRuns(r) == OpConfirm(r) \/ OpResolve(r) \/ OpAnswer(r) \/ OpTool(r) \/ OpLimit(r)
OpNext == OpSettings \/ OpCrash \/ \E r \in OpRequests : OpPost(r) \/ OpRuns(r)
OpSpec == OpInit /\ [][OpNext]_opVars
-----------------------------------------------------------------------------
\* What a provider requires of a history: the results of an assistant's calls
\* come right after it, one for each.  Every history the model is asked with is
\* so, whatever it called before and however a turn ended, while requests do not
\* overlap and the process does not stop in one.
OpHistoryWhole ==
  ~opTorn /\ (\E r \in OpRequests : opReq[r].at = "ask") => opHist.owed = 0 /\ ~opHist.broken

=============================================================================
