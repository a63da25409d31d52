---------------------------- MODULE ProviderUsage ----------------------------
(***************************************************************************)
(* What the program asks of OpenRouter and what it books for it: the HTTP  *)
(* client's retries and batches (translation/openrouter/client.py), the    *)
(* usage hook each attempt calls, the rows it writes and the outbox file   *)
(* that keeps what the database refused (services/ai_usage.py).  Coroutines*)
(* interleave at awaits only: a hook, and the results of a batch, are      *)
(* handled without one, but a crash may come between any two writes.       *)
(***************************************************************************)
EXTENDS Integers, Sequences, FiniteSets

CONSTANTS
  UsJobs,    \* jobs with a coroutine each: positive numbers
  UsCalls,   \* bound on the requests of one job: 1..n
  UsItems,   \* chunks of a batch: 1..n, asked for as chunk-1, chunk-2, ...
  UsFaults   \* bound on refused or uncertain writes and crashes

ASSUME UsAssumption ==
  /\ UsJobs \subseteq Nat \ {0} /\ UsCalls \in Nat \ {0} /\ UsItems \in Nat \ {0}
  /\ UsFaults \in Nat

VARIABLES
  usCall,    \* the coroutine of each job
  usHook,    \* the usage hook that runs, if any
  usRows,    \* how many rows of ai_usage_records each answer has
  usOutbox,  \* the lines of the outbox file
  usLost,    \* answers a crash or a full disk took, or a plain provider's
  usFaults   \* faults so far

usVars == <<usCall, usHook, usRows, usOutbox, usLost, usFaults>>

UsDelays == 3     \* delays = [0, 2, 5]: attempts of one request
UsNo == 0
\* An answer with tokens: the n-th attempt of a chat request, or the n-th
\* chunk of a batch.
UsAnswers == [job : UsJobs, call : 1..UsCalls, kind : {"chat", "item"},
              n : 1..(IF UsItems > UsDelays THEN UsItems ELSE UsDelays)]
UsRest == [at |-> "idle", calls |-> 0, n |-> 0, late |-> FALSE, results |-> <<>>]
UsSilent == [job |-> UsNo, step |-> "idle", answer |-> <<>>, line |-> 1, kept |-> <<>>]

UsTypeOK ==
  /\ \A j \in UsJobs :
       /\ usCall[j].at \in {"idle", "post", "sleep", "plain", "catalog", "submit",
                            "poll", "items"}
       /\ usCall[j].calls \in 0..UsCalls /\ usCall[j].n \in 0..(UsItems + UsDelays)
       /\ usCall[j].late \in BOOLEAN
  /\ usHook.step \in {"idle", "replay", "rewrite", "record", "queue"}
  /\ usRows \in [UsAnswers -> 0..2] /\ usOutbox \in Seq(UsAnswers)
  /\ usLost \subseteq UsAnswers /\ usFaults \in 0..UsFaults

UsInit ==
  /\ usCall = [j \in UsJobs |-> UsRest] /\ usHook = UsSilent
  /\ usRows = [a \in UsAnswers |-> 0] /\ usOutbox = <<>>
  /\ usLost = {} /\ usFaults = 0
-----------------------------------------------------------------------------
UsAt(j, at) == usCall[j].at = at
\* No other coroutine is between two awaits.
UsTurn(j) == usHook = UsSilent /\ \A i \in UsJobs \ {j} : ~UsAt(i, "items")
UsGo(j, at) == usCall' = [usCall EXCEPT ![j].at = at]
UsOver(j) == usCall' = [usCall EXCEPT ![j] = [UsRest EXCEPT !.calls = usCall[j].calls]]
UsFault == usFaults < UsFaults /\ usFaults' = usFaults + 1
UsKey(j, kind, n) == [job |-> j, call |-> usCall[j].calls, kind |-> kind, n |-> n]
UsBook(a) == usRows' = [usRows EXCEPT ![a] = @ + 1]

\* Emitting an event runs the hook, which first replays the outbox; `answer`
\* is <<>> for an event without tokens, whose row no budget counts.
UsEmit(j, answer) == usHook' = [UsSilent EXCEPT !.job = j, !.step = "replay", !.answer = answer]

UsCallStart(j, kind) ==
  /\ UsTurn(j) /\ UsAt(j, "idle") /\ usCall[j].calls < UsCalls
  /\ usCall' = [usCall EXCEPT ![j] = [UsRest EXCEPT !.at = kind, !.calls = usCall[j].calls + 1]]
  /\ UNCHANGED <<usHook, usRows, usOutbox, usLost, usFaults>>

\* One attempt of chat_completion and its outcome: an answer; a refusal that
\* ends the request (401, 404, other 4xx); 408, 429, 5xx, or no answer, to be
\* tried again; an unreadable answer, which has tokens all the same.
UsPost(j) ==
  /\ UsTurn(j) /\ UsAt(j, "post")
  /\ LET n == usCall[j].n + 1
         last == n = UsDelays
     IN \E outcome \in {"answer", "refused", "again", "malformed"} :
          /\ UsEmit(j, IF outcome \in {"answer", "malformed"} THEN UsKey(j, "chat", n) ELSE <<>>)
          /\ IF outcome \in {"answer", "refused"} \/ (outcome = "malformed" /\ last)
               THEN UsOver(j)
               ELSE usCall' = [usCall EXCEPT ![j].n = n, ![j].at = "sleep"]
  /\ UNCHANGED <<usRows, usOutbox, usLost, usFaults>>

\* The delay before the next attempt, and Retry-After, which is slept even
\* after the last one.
UsSlept(j) ==
  /\ UsTurn(j) /\ UsAt(j, "sleep")
  /\ IF usCall[j].n = UsDelays THEN UsOver(j) ELSE UsGo(j, "post")
  /\ UNCHANGED <<usHook, usRows, usOutbox, usLost, usFaults>>

\* A provider without a usage hook: its answer is recorded by the wrapper, with
\* no outbox, and an error of the database is the caller's.
UsPlain(j) ==
  /\ UsTurn(j) /\ UsAt(j, "plain")
  /\ UsOver(j)
  /\ LET a == UsKey(j, "chat", 1)
     IN \/ UsBook(a) /\ UNCHANGED <<usLost, usFaults>>
        \/ usLost' = usLost \cup {a} /\ UsFault /\ UNCHANGED usRows
        \/ UNCHANGED <<usRows, usLost, usFaults>>      \* it answered nothing
  /\ UNCHANGED <<usHook, usOutbox>>

\* list_models asks once: an error is the caller's.
UsCatalog(j) ==
  /\ UsTurn(j) /\ UsAt(j, "catalog")
  /\ UsEmit(j, <<>>) /\ UsOver(j)
  /\ UNCHANGED <<usRows, usOutbox, usLost, usFaults>>

(* Batches: submit once, then poll; any error of a poll gives the batch up. *)
UsSubmit(j) ==
  /\ UsTurn(j) /\ UsAt(j, "submit")
  /\ UsEmit(j, <<>>)
  /\ UsGo(j, "poll") \/ UsOver(j)
  /\ UNCHANGED <<usRows, usOutbox, usLost, usFaults>>

UsPoll(j) ==
  /\ UsTurn(j) /\ UsAt(j, "poll") /\ ~usCall[j].late
  /\ UsEmit(j, <<>>)
  /\ \/ UNCHANGED usCall
     \/ UsOver(j)                \* an HTTP error, or it failed, expired, was cancelled
     \/ \E results \in [1..UsItems -> {"good", "failed", "absent"}] :
          usCall' = [usCall EXCEPT ![j].at = "items", ![j].results = results]
  /\ UNCHANGED <<usRows, usOutbox, usLost, usFaults>>

UsLate(j) ==   \* six hours have passed
  /\ UsAt(j, "poll") /\ ~usCall[j].late
  /\ usCall' = [usCall EXCEPT ![j].late = TRUE]
  /\ UNCHANGED <<usHook, usRows, usOutbox, usLost, usFaults>>

UsGivenUp(j) ==
  /\ UsTurn(j) /\ UsAt(j, "poll") /\ usCall[j].late
  /\ UsOver(j)
  /\ UNCHANGED <<usHook, usRows, usOutbox, usLost, usFaults>>

\* The next result of a completed batch: emitted, then read; the first one that
\* failed raises, and the results after it are not emitted.
UsItem(j) ==
  /\ UsTurn(j) /\ UsAt(j, "items") /\ usCall[j].n < UsItems
  /\ LET n == usCall[j].n + 1
         result == usCall[j].results[n]
     IN /\ IF result = "absent" THEN UNCHANGED usHook
           ELSE UsEmit(j, IF result = "good" THEN UsKey(j, "item", n) ELSE <<>>)
        /\ IF result = "failed" THEN UsOver(j)
           ELSE usCall' = [usCall EXCEPT ![j].n = n]
  /\ UNCHANGED <<usRows, usOutbox, usLost, usFaults>>

UsItemsRead(j) ==   \* absent results are emitted without tokens, and an error
  /\ UsTurn(j) /\ UsAt(j, "items") /\ usCall[j].n = UsItems
  /\ UsOver(j)
  /\ IF \E n \in 1..UsItems : usCall[j].results[n] = "absent" THEN UsEmit(j, <<>>)
     ELSE UNCHANGED usHook
  /\ UNCHANGED <<usRows, usOutbox, usLost, usFaults>>

\* The worker cancels the coroutine in an await: nothing is emitted for an
\* attempt under way.
UsCancelled(j) ==
  /\ UsTurn(j) /\ usCall[j].at \notin {"idle", "items"}
  /\ UsOver(j)
  /\ UNCHANGED <<usHook, usRows, usOutbox, usLost, usFaults>>
-----------------------------------------------------------------------------
(* The hook: AiUsageService.record_http_attempt.                            *)
UsLine == usOutbox[usHook.line]

\* Mutant: a line is replayed whatever rows there are.
UsSameNever(a, b) == a # a

\* What the code takes for the same attempt: provider, request id, attempt
\* number and operation, but not the job.  A chat request has an id of its own;
\* chunk n of a batch has the same id in every batch, and the attempt number is
\* that of the model in the list of candidates.
UsSame(a, b) == \/ a = b
                \/ a.kind = "item" /\ b.kind = "item" /\ a.n = b.n

UsKnown(a) == \E b \in UsAnswers : UsSame(a, b) /\ usRows[b] > 0
UsReplayed(kept) == usHook' = [usHook EXCEPT !.line = @ + 1, !.kept = kept]

UsReplay ==
  /\ usHook.step = "replay" /\ usHook.line <= Len(usOutbox)
  /\ \/ UsKnown(UsLine) /\ UsReplayed(usHook.kept) /\ UNCHANGED <<usRows, usFaults>>
     \/ ~UsKnown(UsLine) /\ UsBook(UsLine) /\ UsReplayed(usHook.kept) /\ UNCHANGED usFaults
     \/ \* the database refuses, or commits and reports an error
        /\ UsReplayed(Append(usHook.kept, UsLine)) /\ UsFault
        /\ (UNCHANGED usRows) \/ (~UsKnown(UsLine) /\ UsBook(UsLine))
  /\ UNCHANGED <<usCall, usOutbox, usLost>>

UsRewrite ==   \* the lines that are left; an error of the disk is only logged
  /\ usHook.step = "replay" /\ usHook.line = Len(usOutbox) + 1
  /\ \/ usOutbox' = usHook.kept /\ UNCHANGED usFaults
     \/ UsFault /\ usOutbox # <<>> /\ UNCHANGED usOutbox
  /\ usHook' = IF usHook.answer = <<>> THEN UsSilent ELSE [usHook EXCEPT !.step = "record"]
  /\ UNCHANGED <<usCall, usRows, usLost>>

\* Mutant: a row the database refuses is only logged.
UsRecordOrLog ==
  /\ usHook.step = "record"
  /\ usHook' = UsSilent
  /\ \/ UsBook(usHook.answer) /\ UNCHANGED usFaults
     \/ UsFault /\ UNCHANGED usRows
  /\ UNCHANGED <<usCall, usOutbox, usLost>>

UsRecord ==
  /\ usHook.step = "record"
  /\ \/ UsBook(usHook.answer) /\ usHook' = UsSilent /\ UNCHANGED usFaults
     \/ /\ UsFault /\ usHook' = [usHook EXCEPT !.step = "queue"]
        /\ (UNCHANGED usRows) \/ UsBook(usHook.answer)
  /\ UNCHANGED <<usCall, usOutbox, usLost>>

UsQueue ==   \* appended and synced; _emit swallows an error of the disk
  /\ usHook.step = "queue"
  /\ usHook' = UsSilent
  /\ \/ usOutbox' = Append(usOutbox, usHook.answer) /\ UNCHANGED <<usLost, usFaults>>
     \/ UsFault /\ usLost' = usLost \cup {usHook.answer} /\ UNCHANGED usOutbox
  /\ UNCHANGED <<usCall, usRows>>

UsCrash ==
  /\ UsFault
  /\ usCall' = [j \in UsJobs |-> [UsRest EXCEPT !.calls = usCall[j].calls]]
  /\ usHook' = UsSilent
  /\ usLost' = usLost \cup (IF usHook.answer = <<>> THEN {} ELSE {usHook.answer})
  /\ UNCHANGED <<usRows, usOutbox>>
-----------------------------------------------------------------------------
UsChat(j) == UsPost(j) \/ UsSlept(j) \/ UsPlain(j) \/ UsCatalog(j)
UsBatch(j) == \/ UsSubmit(j) \/ UsPoll(j) \/ UsGivenUp(j) \/ UsItem(j) \/ UsItemsRead(j)
UsHookRuns == UsReplay \/ UsRewrite \/ UsRecord \/ UsQueue
UsNext ==
  \/ \E j \in UsJobs : \/ UsChat(j) \/ UsBatch(j) \/ UsLate(j) \/ UsCancelled(j)
                       \/ \E kind \in {"post", "plain", "catalog", "submit"} : UsCallStart(j, kind)
  \/ UsHookRuns \/ UsCrash

UsSpec == UsInit /\ [][UsNext]_usVars
-----------------------------------------------------------------------------
\* An answer is never booked twice, however uncertain the commits and wherever
\* the process dies between a commit and the rewriting of the outbox.
UsOnce == \A a \in UsAnswers : usRows[a] <= 1

UsHeld(a) == \/ usRows[a] > 0 \/ a \in usLost
             \/ usHook.answer = a
             \/ \E i \in DOMAIN usOutbox : usOutbox[i] = a

\* "Losing its accounting makes the dashboard permanently under-report usage, so
\* a small metadata-only outbox is safer" (record_http_attempt): a chat answer
\* that was booked or set aside stays so until it has its row.
UsChatKept ==
  [][\A a \in UsAnswers : a.kind = "chat" /\ UsHeld(a) => UsHeld(a)']_usVars

\* The same of every chunk of a batch.
UsItemKept ==
  [][\A a \in UsAnswers : a.kind = "item" /\ UsHeld(a) => UsHeld(a)']_usVars

\* "Record a semantic outcome for every returned batch item" (client.py,
\* _emit_batch_item_result): once its results are read, each good one is held.
UsItemsEmitted ==
  [][\A j \in UsJobs : UsAt(j, "items") /\ ~UsAt(j, "items")' /\ usFaults' = usFaults =>
       \A n \in 1..UsItems : usCall[j].results[n] = "good" => UsHeld(UsKey(j, "item", n))]_usVars
=============================================================================
