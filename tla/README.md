# Subtitle AI: a TLA+ verification project

Subtitle AI finds media without subtitles in a wanted language, and extracts,
requests, transcribes, translates or dubs until the language is there. The
backend (`src/backend/app`) is one Python process: a FastAPI application, one
asyncio event loop, SQLite through SQLAlchemy. Everything that must not be lost
is a row of the database; everything that runs is a coroutine of the loop, a
request handler in a threadpool thread, or a thread that a coroutine waits for
(OCR, Whisper, Chatterbox) and cannot stop.

This directory models the parts whose correctness depends on the order of
steps of several actors, and two algorithms. `PROJECT.json` maps every definition to the lines it
stands for, lists the runs, the mutants that show what each property excludes,
the hazards, the findings and the theorems. Paths below are relative to `src/backend/app`.

## 1. Inventory

| Component | State | Operations | What is hard, and what makes it correct |
|---|---|---|---|
| Job queue `jobs/queue.py` | rows of `jobs`: status, kind, trigger, task | claim, fail, cancel, pause, resume, recovery | reads and writes in separate statements, by the loop and by threads; a finished job stays finished |
| Worker `jobs/worker.py`, `jobs/kinds.py` | `_inflight` (slots by kind), `_tasks_by_job`, start times | the tick: prune, cancel, watchdog, replan, recover, claim, spawn; stop | a job runs once at a time, slots are honoured, a hang does not stop the queue, nothing is left in processing |
| Job service `jobs/service.py` | the job row being processed, progress | create and deduplicate, process each kind, retry, clear | awaits between read and write; a cancel at any of them |
| Budget `services/ai_budget.py` | reservations | reserve, release, status | concurrent jobs must not overspend; holds must end with their attempt |
| Usage `services/ai_usage.py` | usage rows, the outbox file | record, replay, rewrite | a paid answer is booked once, whatever is refused or crashes |
| Routing and pools `services/model_router.py`, `model_preferences.py`, `ai/migration.py` | preference rows, a legacy copy, settings | candidates in order; add, move, switch, delete, seed | two tables that must agree; seeding at every access must not undo the user's choices |
| Catalogue `services/model_catalog.py` | the cached list, a lock per provider | get, refresh | the decision to refresh is older than the lock |
| Task state machine `localization/state.py`, `service.py` | rows of `localization_tasks` | ensure, transition, cancel, retry, attach | a cancelled task stays cancelled, an active one advances |
| Planner `localization/planner.py` | metadata and attempts in the task row | plan one task, plan all, on job end | idempotent over restarts; awaits Bazarr in the middle |
| Chunked translation `translation/service.py` | batch, checkpoint | translate, repair, split, validate, resume | no cue lost or paid for twice, whichever request fails |
| Provider client `translation/openrouter/client.py` | the request in flight | post with retries, submit, poll, read results | retried, abandoned and cancelled requests |
| Fallback scanner `services/fallback.py`, `candidates.py`, `jobs/scanner.py` | observed candidates, attempts | scan, grace period, next action, chain | a candidate several awaits old; retry limits over leaving and coming back |
| Bazarr synchronisation `jobs/bazarr_sync.py`, request jobs | polling state of a request | request, poll, expire, rescan | timeout against a late answer; eventual consistency |
| Extraction `subtitles/embedded.py`, `ocr.py`, `media/process_runner.py` | child process, work directory, OCR thread | run, cancel, time out, replace | a cancel races completion; a thread outlives its job |
| Separation `localization/audio/` | working directories, two stems | select, prepare, run Demucs, verify | refused, cancelled or interrupted results must not be taken for good ones |
| Transcription `localization/transcription/` | Whisper thread per chunk, cancel flag | probe, extract, hear, merge, write | a thread told to stop returns less; overlapping chunks |
| Dubbing `localization/dubbing/` | cue cache, one model per process, its voice conditions | speak, shape, mix, place, verify | threads of several runs share one model; resume from the cache |
| Voice library `localization/dubbing/voice_library/` | characters, references, an episode's cast | analyse, assign, adopt, approve, bind | an analysis over several commits; SQLite's single writer |
| Operator chat `localization/operator.py` | stored messages | post, confirm, ask, run tools | every row committed alone |
| Live events `core/events.py` | one bounded queue per stream | publish, subscribe, leave | threads and a full queue |
| Subtitles `subtitles/`, languages, media catalogue, settings, credentials, frontend | rows, configuration | | sequential or pure |

How they interact: an API handler, the scanner or the planner creates a job row;
the worker claims it and creates a coroutine; the coroutine runs the kind's
processor, which for a translation routes, reserves budget, calls the provider,
records usage, releases, writes the subtitle, asks Bazarr to rescan, and
finally lets the planner look at the task again; the planner creates the next
job. Extract, transcribe and dub jobs run child processes and threads instead.
Users cancel, pause and retry at any time from threadpool threads; those
writes reach the coroutine only when it reads its row again, or through
`worker.cancel_job`, which asks the loop to cancel the asyncio task.

## 2. Modules

| Module | What it is |
|---|---|
| `JobQueue` | abstract specification: what the queue promises about one job |
| `JobWorker` | the rows, the worker loop, its coroutines, the threads, the process |
| `AiBudget` | reservations and usage as the translation attempts use them |
| `TaskPlanner` | one subtitle task: its state machine, the planner, the jobs it creates, users |
| `AudioTask` | the audio tasks of one title, their dub rows, `_plan_audio`, users |
| `TranslateDocument` | one call of `translate_document`: batches, repairs, splits, the asynchronous batch |
| `TranslateJob` | one translate job around it: candidates, checkpoint, write, commit, verification |
| `Fallback` | the scanner, the users and the request, extract and translate jobs of one title |
| `Extraction` | an extract job with its child process and its OCR thread |
| `Separation` | one call of `AudioSeparationService.separate` |
| `TranscribeJob` | transcribe rows, their coroutines, watchers and Whisper threads |
| `DubJob` | dub rows, their coroutines, the cue cache, the shared Chatterbox model |
| `VoiceLibrary` | characters, the cast of an episode, analyses, the bindings of a dub |
| `ProviderUsage` | OpenRouter requests and batches, the usage hook, the outbox |
| `ModelPools` | preference rows, their legacy copy, seeding, settings |
| `Catalogue` | the refresh of the cached model list |
| `OperatorChat` | the chat's stored history under turns, tools and confirmations |
| `SpeechText` | chunking and merging of transcripts, forming of cues: pure algorithms |
| `EventBus` | queues of the event streams under publishing threads |
| `MCJobWorker`, `MCAiBudget`, `MCTaskPlanner`, `MCTranslateJob`, `MCFallback` | small instances of one module |
| `MCPlanners` | `TaskPlanner` and `AudioTask`, one run for both |
| `MCMedia` | `Extraction`, `Separation`, `DubJob`, `TranscribeJob`, `VoiceLibrary`, one run for all |
| `MCServices` | `ProviderUsage`, `ModelPools`, `Catalogue`, `OperatorChat`, `SpeechText`, `EventBus`, one run for all |
| `JobWorkerProofs`, `AiBudgetProofs`, `TaskPlannerProofs` (with `AudioTask`), `TranslateJobProofs`, `FallbackProofs`, `MediaProofs`, `ServicesProofs` | theorems |
| `FiniteInduction` | lemmas: induction over finite sets, sequences and folds, sums, greatest members |

The models meet at the rows. `JobWorker` takes the job rows as given and says how
they are run; `TaskPlanner`, `AudioTask` and `Fallback` create the rows and abstract their execution to what
`JobWorker` shows of it (a pending job starts, a job in processing ends once, a job of a
cancelled task is cancelled when it is claimed); `AiBudget`, `TranslateJob`, `Extraction`, `TranscribeJob` and
`DubJob` hold what a job of a kind does between its start and its end. `VoiceLibrary` ends at the
bindings with which `DubJob` begins; `ProviderUsage` is the inside of one `Request` of `AiBudget`;
`SpeechText` is what the chunks of `TranscribeJob` hold.

A run that combines modules (`MCPlanners`, `MCMedia`, `MCServices`) lets a behaviour be one of one module, chosen in
the initial state, while the others rest: their components share no state but the rows they each
own, and the combination saves runs, not interleavings.

Operators whose comment says "Mutant" are not part of the system: each one is a
plausible bug, and replacing the definition named beside it must break the
property listed with it in `PROJECT.json`.

### JobWorker

State and code: `status` is the column of each `jobs` row; `phase`, `job`,
`cancelReq` and `late` describe the asyncio tasks (`cancelReq = "soon"` is a
`call_soon_threadsafe(task.cancel)` not yet run); `tasksByJob` and `inflight`
are the worker's two dictionaries, which differ while a coroutine unwinds:
`_process` pops its job id in `finally`, but the slot is given back only by
`_prune_inflight`. `tick`, `todo` and `pick` are the position of `_tick`.

Atomicity. Between two awaits the loop runs one coroutine only, but threads run
beside it. So every step of the loop that rests on an earlier read of a row is
split at the write: a `draft` is the decided, uncommitted write of the loop, and
only threads move while there is one. A handler (`ApiRead`, `ApiWrite`,
`ApiSignal`) is three steps, as the code has a read, an UPDATE by primary
key and a call of `worker.cancel_job`. The claim is the exception that the code makes:
its UPDATE repeats the condition (`ClaimUpdate`). The recovery statements are
single transactions.

Abstracted: what a processor does. `completed` stands for `skipped` too. From `working` it may finish, fail, raise,
or stay for ever; it re-reads its row before it writes the outcome. Progress
updates, logging and publishing are left out. A pause of a running job is not
reflected in a processor. A new job row may appear at any await of the loop.
Rows are never deleted here; `clear_jobs` and ids used again are in `Fallback`.

### AiBudget

`rows` are the unreleased reservations, `bill` the usage records summed by job
and month. A translate job routes (`Route`: paid models beyond the remaining
budget are dropped), then tries the candidates in order: `Reserve` or
`ReserveBlocked`, `Try`, any number of `Request`s, and `Succeed`, `FallBack` or
`Fail`, each of which releases; `Interrupt` is `CancelledError` at the await,
which no handler of the attempt catches, and `Crash` a restart of the process.
`turn` is the coroutine holding the loop: between two candidates nothing else
runs, while the provider works everything else may.

Assumption: an attempt is billed at most its conservative estimate (`Cost` and
`Estimate` are equal in the configurations). The estimate is made by
`ai_cost.py` from token counts with a margin; whether it is conservative is a
matter of prices, not of ordering. A price of 0 in `Estimate` is an unknown
price, which the code turns into a reservation of 0.

### TaskPlanner

The module is about one task, the subtitles of one language for one media item,
and every call of `plan()` that may be under way for it.

State and code:

| Variables | Code |
|---|---|
| `given` | what the media and the settings allow, fixed in a behaviour: an embedded stream, a search by Bazarr, transcription, an identical translation made before, a manual origin |
| `status`, `verifies`, `due`, `enqueues` | the row of `localization_tasks` and its metadata: verification attempts, whether the next one is due, failed enqueues of a source |
| `jobs`, `cooling` | the job rows of the candidate (kind, status, whether bound to the task) and the cooldown after a search that found nothing |
| `srt`, `target`, `bazarr` | a source file and the target file beside the media, and what Bazarr lists |
| `at`, `snap` | where each call of `plan()` is suspended, and the source snapshot it took, which is old when it is used |
| `turn`, `draft` | the call that holds the event loop, and the transition it has decided but not committed |
| `cancelling`, `retries` | the thread inside `cancel()` with what it has read, and how often users retried |

Actions: one for each stretch of `plan()` between two awaits. `Begin` and `Look` are its
head, `Check` its verification branch with `Rescan` and `Recheck` (`_advance_verify`),
`Resolve` and `Decide` the snapshot and the decision, `CreateTranslate`, `CreateExtract`,
`CreateRequest` and `CreateTranscribe` the `create_*` methods of `jobs/service.py`,
which await the list of candidates or the probe before they insert. `Revive` looks at a failed or blocked task.
`Finish` removes the extracted source after a verified target.

Atomicity. A call holds the loop between two awaits (`turn`). Its only interference
is a thread in `cancel()`, so a transition is split in the check against
`ALLOWED_TRANSITIONS` (`Transition`) and the commit (`Write`), between which
`CancelWrite` may come. A refused transition is an exception: the callers of `plan()` log it
and the call ends, unless it is inside the `try` around `create_job`
(`snap.enqueuing`), which then tries to fail the task.

Left out: paused jobs, a media item
without any reference, a transcription directly in the target language, falling
back from a request to an extraction, and several subtitle tasks of one media item. Audio tasks are in
`AudioTask`.
Verification attempts are counted up to one above `VerifyMax`. A cancelled
job or a search that failed makes the planner create another one, without a limit in the code: `MaxFutile`
bounds how often that happens, `MaxRetries` the retries, `MaxJobs` the rows.

### TranslateDocument and TranslateJob

`TranslateDocument` holds the state of one call and its steps; `TranslateJob` extends it with
the job, so that the variables of the call are idle while no call is under way.

State and code:

| Variables | Code |
|---|---|
| `stage` | the await at which `translate_document` is, or how it ended |
| `text`, `batch` | `translated_by_id`, `completed_batches` |
| `pos` | how many batches are applied to `text`; ahead of `batch` while the chunks of an asynchronous batch are used one by one |
| `now`, `rest`, `got`, `asked`, `tries`, `sent` | the recursion of `_translate_batch`, flattened: the payload in hand, the right halves that wait, the mappings so far, the ids the request names, the repairs made, whether an answer is awaited |
| `error` | the class of the exception the call has ended in |
| `status`, `target`, `content`, `source` | the job row, what is at the target path, and whether the source is still there |
| `at`, `cand`, `checkpoint`, `checks` | the coroutine of `_process_translate_job`: its place, the index of the candidate, `TranslationCheckpoint`, the verifications made |
| `calls`, `applied`, `faults` | history: requests for the batch in hand, cues of applied batches, failures that made another model take over |

An answer is any function from the cues asked for to "missing" (left out or blank), "fit" and "long" (over
the reading limits); cues that were not asked for are dropped by `_filter_mapping`, so an answer
does not list them. Every request may instead fail: "transient" stands for a timeout, 429 or 5xx, "technical" for what
`is_technical_failure` accepts and is not retryable, "refused" for the rest. `BudgetBlocked` is the refusal of
`AiBudget`'s `Reserve`, here at any time.

Atomicity. The coroutine is one of many on the loop, and users act from threads, so its steps
are cut at each await and at each place where another writer can be seen: the check and
the rename of `write_srt_atomic`, the last read of the row and the commit (`Decide` to
`CommitCompleted`, `Failing` to `CommitFailed`). `Cancel` is one step here; the window
inside the handler is `JobWorker`'s.

Left out: token usage, warnings and prompts; the rounds of hard validation in `translate_document`, which
a mapping that `validate_batch_mapping` accepts does not reach; the naming of
sidecars after the write; the translation cache, which only `create_job` reads.

### AudioTask

`apTask` and `apRow` are the tasks and dub rows of one title and language, in the order of their
creation; `apLoop` is the handler that has the event loop: a plan, a start by hand or a retry, and
how far it is between its commits. Nothing is awaited from a look at the task to the row's insertion, so there is one
such handler; cancels (`ApCancelTask`, `ApCancelJob`) are threads and come between any two
of its commits, a crash (`ApRestart`) too. At most one task is under way, which a unique index guarantees
(`ApActive`). What a dub does is reduced to its end; `DubJob` has the rest.

### Fallback

One title that Bazarr may want. `scan` is the scanner with the candidate it has in hand, `observed` its row in
`observed_candidates`, `jobs` and `run` the rows and their coroutines, `disk` and `title` what is outside. Each action is the
code between two awaits: the candidate of `ScanBuild` is old when `ScanEnqueue` decides on it, that of
`ChainStart` when `ChainEnd` inserts. `next_action`, `_can_retry_failed` and the dedup of each
`create_*` are operators of their own. Rows are deleted by `UserClear`, by kind and status, and the id of
the newest deleted row is given again, as SQLite does; since a row's place is its id, only deletions of the
newest rows are taken. Time is `Tick`: the age of an observation up to the
grace period, and the cooldown of a request that found nothing. Reason codes are grouped by what the
two sets of codes make of them. Left out: several titles, the candidate cache, dub and transcribe jobs.

### Extraction

`exAt` is the coroutine with its place in `run_process` (`poll`, `grace`, `reap`), `exProc` the ffmpeg process, which
may ignore a termination and, while the kernel holds it, a kill; `exTemp` its output in the
work directory; `exThread` the OCR thread of each attempt with its flag, `exOut` the subtitle beside the media.
A cancel is the worker's `task.cancel()`, again at each tick; a second one during the
grace period cuts `_stop_process` off (`exLeft`). Two OCR threads share the name of their temporary file.
`ExAttempts` bounds the runs of the row, `ExCues` the images. Left out: which track is
chosen, the images.

### Separation

One call: `sepAt` is its stage, `sepDirs` the temporary directories, `sepStem` the two stems with what
the verification can tell of them (good, empty, silent, short). `sepStop` is the answer of `is_cancelled()`,
which the code asks at its own points; `SepUnwound` is a `CancelledError` at any await. The inputs are a WAV or a
container, a window or the whole, and a stream that is none, missing or found.

### TranscribeJob

`trRun` is the coroutine with the chunk it is at and those heard; `trFlag` the flag that its watcher (once a second) and every
end of the run set, `trThread` the Whisper thread, which asks for the flag before each segment, and that a
time limit or a cancel leaves behind. The write replaces whatever is there. Left out: the remote providers, the audio selector.

### DubJob

`dubRun` is the pipeline's coroutine, `dubThread` the thread that speaks one cue for it, `dubLoaded` the one model
of the process and `dubConds` the voice each model object is conditioned for; `dubLock` is
`_COND_PREP_LOCK`, which covers the preparation and the generation. A bound cue's voice is named by the cue, so that a clip in a
wrong voice can be told. The cache is indexed by the bindings, as its key is. The copy of the finished file is
synchronous, so nothing else runs on the loop meanwhile (`DubLoopFree`). `DubRecycles` are values of the setting
`chatterbox_recycle_cues`. Left out: timing, cloud voices, the mix's filters.

### VoiceLibrary

`vlCast` are the committed rows of an episode's cast, `vlRun` the requests that analyse or start a
dub, with the rows they have flushed and not committed, `vlLock` the request that holds SQLite's write lock. An analysis deletes the
rows, awaits a clip per cue, and every character it creates commits what there is so far. `vlTorn` says that the last analysis was
interrupted, overlapped, or was not the only source of rows.

### ProviderUsage

`usCall` is the request or batch of each job; a request is tried three times, a batch polled until it has results or is given
up. `usHook` is the usage hook under way with the answer it is to record: it replays the outbox line by line
(`UsReplay`), rewrites the file (`UsRewrite`), inserts (`UsRecord`) or appends to the outbox (`UsQueue`). A commit may be refused, or take
effect and be reported as failed. `UsFaults` bounds refusals and crashes. `usLost` is what no code could have kept:
a crash before the first write, a full disk, a provider without outbox.

### ModelPools

Two tables with a row per model, the settings row and the catalogue's prices. `PoSeeded` is the seeding and migration that
every start, listing and settings access runs; the users' operations mirror their row into the legacy table.
Priorities are bounded by `PoMaxPrio`, other providers and purposes reduced to whether an audio-analysis row exists.

### Catalogue, OperatorChat, EventBus

`Catalogue`: the age of the cache, whether the last success is less than five minutes ago, and where each caller of
`get_models` is. `OperatorChat`: of the stored messages only how many results are owed to the last calls and whether
the order a provider requires was broken. `EventBus`: the look at a queue and the append are two steps of a publisher,
since `put_nowait` is called from threads; a stream may be closed, or be gone before its generator ever ran.

### SpeechText

The plan of overlapping chunks, what is heard of an utterance in each, the merge, the grouping of words into cues and
their timing, as operators. The inputs are grown by the behaviour, one utterance or one word at a time, so that TLC goes
through all of them up to the bounds. Two texts are similar when they are the same; `StSpeech` bounds an utterance, as Whisper's
segments are shorter than a chunk less its overlaps. The sizes of chunks, cues and words are constants: `Services.cfg` gives small ones, with
which utterances are cut in overlaps and cues crowd each other, and the theorems hold of all.

## 3. Runs

Worker:

- `JobWorker_cancel` (two jobs, two coroutines, one thread that cancels, one
  restart; the scheduling order has a manual and an automatic job):
  `NoDoubleRun`, `FinishedStaysFinished` and the refinement of
  `JobQueue`. Two coroutines are what a double run needs; two jobs what a
  wrongly attributed pop or cancel needs; one restart reaches every recovery.
- `JobWorker_slots` (one job, three coroutines, limit 2, all handlers):
  `SlotLimit`. With pause and resume the row can be
  re-queued while its coroutine lives (section 5), so one job suffices
  to need a third coroutine, which is one more than the limit.
- `JobWorker_live` (fairness): `EveryRunEnds`, `EveryJobServed`
  with one coroutine and two jobs, so that a hung job blocks the other.

Budget:

- `AiBudget`: `BudgetRespected` and `HoldKept`, with two automatic jobs, a manual one
  that bypasses the budget, a change of month and a crash. The limit is 2 and the models cost 2 and 1, so
  that one attempt leaves room for a cheap one or for none. `BudgetRespected` is about what a month's
  own reservations cover; see the observations for what crosses the month.

Planner:

- `TaskPlanner_safety`: two calls of `plan()` for one task, a thread that cancels the task or its jobs, cooldowns
  that end, one retry and three job rows, for a source inside the media and for one that has to be searched for or transcribed:
  `OneOpenJobPerKind`, `CompletedIsListed`, `NothingRedone`, `CancelledStays`. Two
  calls are what a stale snapshot needs: one awaits, the other one's job
  writes the file. Three rows are an extraction or request, a translation and the
  row that would be one too many.
- `TaskPlanner_live` (fairness): `TasksAdvance` (of subtitle tasks `ProcessingAdvances`, of audio tasks
  `ApAdvances`) and `ApRowsFollowTasks`. Of subtitles one call at a time, and all that
  happens around it: files appear, the cooldown ends, jobs are cancelled, searches come
  to nothing (twice), a retry; the eight rows are as many as these bounds allow
  to be created, so that no insertion is blocked by the bound. Of audio two tasks, so that one can be started
  for another that is over, and two dub rows.
- `TaskPlanner_unattached` (violation): see the findings.

Translation:

- `TranslateJob_resume`: three cues in batches of two, three candidates of which the second is an
  asynchronous one, so that a checkpoint passes from single requests to an asynchronous batch and back,
  with a last batch that is shorter than the others. A batch of two can be split, and its halves cannot, and two repairs
  come before each. One foreign file, one cancel, the watchdog, one restart, a write or a commit
  that is refused. It checks `WrittenComplete`,
  `CompletedDelivered`, `ResumeSkipsDone`, `RequestsBounded`, `CancelRespected` and, under fairness,
  `JobEnds`.
- `TranslateJob_resend` (violation): see the findings.

Scanner:

- `Fallback_scan`: `FallbackSafe` (types, one open job of a kind, no more fruitless translations in a wanted
  period than the retries allow), `NoFutileTranslation`, and under fairness `Settles`. It starts from a title with
  no source, with one on disk, and with an embedded track whose text was translated before. Three rows are a
  request or extraction, a translation and a second attempt; one call of a user and one event
  outside suffice to make each decision stale at each await. Two polls tell an answer in time from a late one.

Media:

- `Media_jobs`: `ExSafe` and `ExGivenUpIsQuiet` with two attempts and a bitmap track of two images, so
  that an abandoned OCR thread meets the retry's; `SepSafe` for every input; `DubSafe` and
  `DubDelivers` with two rows and two cues, so that a thread left by one run speaks beside the other's, with and
  without voices, and with a recycling after every cue or never; `TrSafe` with two rows, two chunks and two
  segments; `VlDubCovered` with one character, two requests and three cues of which the middle
  one is labelled, so that one clip is awaited under the write lock and one with a cast partly committed; and
  `MediaEnds`, under fairness: every job, thread and analysis comes to an end. `MediaTypeOK` is the type
  invariant of all five.

Services:

- `Services`: `ServicesSafe` (types, and `EvSafe`: a stream that missed an event is no subscriber any more), with two
  streams, two publishers and queues of two; `UsOnce` and `UsChatKept` with two jobs, a batch of two items and two faults, so that
  one refused write can meet a crash during its replay; `PoTablesAgree` and `PoStrategyKept` with two models,
  one of which is named as a free one, and any prices; `CaFetchedOnce` with two callers; `OpHistoryWhole` with two requests,
  two turns and two calls a turn; `StSafe` for every sound of one or two chunks with up to two utterances, and
  every text of up to three words.

Bounds. The constants that the code does not have are `Runs`, `MaxRestarts` (`JobWorker`, `TranslateJob`), `MaxRows`, `LastMonth`,
`MaxCrashes` (`AiBudget`), `MaxJobs`, `MaxFutile`, `MaxRetries` (`TaskPlanner`), `ApTasks`, `ApJobs`, `MaxRows`, `MaxCalls`, `MaxEvents`
(`Fallback`, whose `MaxRetries` is a setting), `ExAttempts`, `DubRuns`, `TrJobs`, `VlRefs`, `VlRuns`, `UsCalls`, `UsFaults`, `PoMaxPrio`, `OpCalls`,
`OpPosts`, `StUtterances`, `StWords`, and what `StSizes`, `StPauses` and `StSpans` leave out of the words.
`MaxRows` of `AiBudget` exceeds what the jobs of a run can hold, leaked reservations included. Symmetry is used for coroutines, calls and automatic
jobs only, and in no run with a liveness property.

Deadlock is not checked: a system in which all jobs are terminal, the task is
completed or the bounds are used up stops.

### Fairness

`JobWorker`: `FairSpec` assumes that the worker loop keeps ticking (WF), which it does as
every tick catches its exceptions and sleeps for a bounded time; that a
coroutine that is ready is resumed (SF: asyncio's ready queue is FIFO, but the
coroutine is not enabled while another one runs); that a runtime passes its
limit (`RunLate`); that a commit is not refused for ever; and that a handler
that has read its row ends. A processor is assumed nothing: it may hang. Nor are
users: every liveness property holds whether or not they cancel.

`TranslateJob`: weak fairness of the coroutine as a whole, which never has to choose the
better branch: it only has to move. The requests time out (httpx), the asynchronous batch is polled up to a
limit, the worker claims what is pending (`JobWorker_live`). And of `RecoverOrphan`, which is part of
each tick.

`TaskPlanner`: weak fairness of `Plan(p)`, as the worker's tick plans every active task
again and again and the clients that a call awaits time out; of `Work(i)`,
which `JobWorker_live` shows of the worker; and of `VerifyDue`, which is
the passing of time.

`AudioTask`: weak fairness of the handler that has the loop; strong fairness of `ApReplan(t)`, as the
tick replans every active task every 30 seconds, though not while another handler has the loop; and the process does not
crash for ever.

`Fallback`: weak fairness of the scanner's steps (it sleeps for a bounded time), of a user's call that awaits the candidate, of
each job's coroutine and of the clock.

`Extraction`: weak fairness of the runner, of its caller and of each thread; none of the ffmpeg process, which may never
obey. `TranscribeJob`: of each coroutine and each thread, which hears a finite number of segments. `DubJob`: of each coroutine while the loop is
free, and of each thread. `VoiceLibrary`: strong fairness of an analysis' next step, as a clip is cut or times out after 30 seconds, though
another coroutine that waits for the write lock may hold up the loop in between. `Separation` and `MCServices` have only safety
properties.

Users, other writers, cancels, the watchdog, restarts and Bazarr's own scans are assumed nothing anywhere, but that
`ApRestart` does not go on for ever.

## 4. Proofs

Every safety invariant and every action property that a passing run checks is also a theorem, and so is the refinement of
`JobQueue`. All theorems are checked by tlapm, for every value of the constants that satisfies the `ASSUME` of the
module (`JobWorkerAssumption`, `AiBudgetAssumption`, `TaskPlannerAssumption` with `NoneAssumption`: None is none of the values it
stands beside, and so on). An invariant that is not inductive is strengthened; where nothing else is said, the theorem's name in brackets
follows from the strengthened invariant, and its action properties from the same.

`JobWorkerProofs`:

- `TypeCorrect`: `TypeOK` together with `DraftInv`, which says where the loop is and
  whose coroutine lives while a write is uncommitted. `TypeOK` alone is not
  inductive: after the commit the coroutine named by the draft moves on.
- `LimitRespected` (`SlotLimit`): the inductive invariant is `SlotIInv`. Living
  coroutines are a subset of `inflight`, whose part for a kind is bounded by the
  limit, strictly so between a selection and the creation of the coroutine. It
  does not mention `tasksByJob`, and holds for all handlers.
- `OneRunPerJob` (`NoDoubleRun`): the inductive invariant is `OwnIInv`. Every living
  coroutine is the one `tasksByJob` names for its job, so two of one job are
  one; this survives a claim because a claimable job has no living coroutine,
  which is what orphan recovery looks at `tasksByJob` for. The invariant needs
  that nothing is paused: the theorem assumes `Ops` is a subset of
  `{"cancel", "cancelTask"}`, as a resumed row that was paused under its coroutine
  is claimed again. That is an observation below, not a gap of the proof.
- `OnlyAbandonedRequeued` (`RequeueOnlyAbandoned`) and `FinishedNeverReopened`
  (`FinishedStaysFinished`) are action properties that follow from the same invariant.
- `WorkerImplementsQueue` (`ImplementsJobQueue`): the refinement of `JobQueue`, under the same
  assumption on `Ops`. It needs `PlaceInv` besides: what the loop is about to write is a row in the state in which it was read or one
  that a thread has finished meanwhile, and a coroutine that leaves its processor leaves the job whose
  outcome it wrote. Each step then maps to a step of `JobQueue` or to a stutter.

`AiBudgetProofs`: `ReservationKept` (`HoldKept`) and `HoldReleased` (`NormalEndReleases`): `HoldIInv` adds
that ids of active rows are distinct and that a hold in hand is an active row of
its own job; with it, no other job's release can remove it.
`MonthWithinLimit` (`BudgetRespected`): `FitsInv` says of each month that what was billed under its reservations, together with what the open attempts may
still be billed of theirs, is within the limit, and that an attempt under way has used no more than it costs. A reservation is made
only when it fits beside that sum, a request moves a part of it from one side to the other, a release or a crash only lowers it. The theorem assumes
`EstimatesConservative`, that a reserved attempt costs at most its estimate, since nothing in the code stops an attempt that
costs more.

`TaskPlannerProofs`:

- `TypeCorrect` (`TypeOK`) and `CompletedListed`
  (`CompletedIsListed`): the inductive invariant is `ListedIInv`. A completed task is one
  whose transition was decided earlier, so what must be invariant is that a
  decided completion, and a call that is removing the extracted source before it
  completes, find the target listed. `Moved` says what any step of a call
  leaves, and the lemmas about the shared branches of `plan()` (`TransitionMoved`,
  `GiveUpMoved`, `RequestSourceMoved`...) establish it once for all actions.
- `CancelledForGood` (`CancelledStays`): follows from `Moved`, as the table allows no
  transition out of `cancelled` and a decided transition is one the table allows.
- `OneOpenJob` (`OneOpenJobPerKind`): inductive together with `TypeOK`. Every step
  closes jobs, binds one, or appends one row (`PlanJobs`, `OthersClose`), and a row
  that is open is appended only when no row of its kind is.
- `DoneOnce` (`NothingRedone`) from the same classification of the rows that are written.

- `RowsFollowTasks` (`ApRowsFollowTasks`), of `AudioTask`. The property alone is not inductive: a plan whose row is
  refused makes its task failed, which is sound only because the plan that came to insert saw no open row of its task
  and none was bound to it since (`ApNoneWhilePlanning`).

`TranslateJobProofs`:

- `InvariantHolds` (`TranslateIInv`), `FileComplete` (`WrittenComplete`) and `Delivered`
  (`CompletedDelivered`): the file is complete because the text is filled up to the last
  applied batch (`DocInv`), which a checkpoint must preserve for its own count, and because
  what is in hand, waiting or mapped is always the whole batch (`InBatch`), whatever is
  repaired or split. The proof goes along the modules: a step of the call preserves `DocOK` and `DocResume`
  whatever the job does, the job's steps preserve the rest.
- `DoneIsSkipped` (`ResumeSkipsDone`): as long as only requests of batches have failed, and for a transient
  reason, all that was applied is behind the place of the resume (`ResumeInv`). The theorem is for the failures the
  checkpoint is made for; the finding below is about the others.
- `RequestsAreBounded` (`RequestsBounded`): a payload of n cues may still take 6n - 3 requests, three for itself and those of its halves; `RequestInv` says
  that the requests made, together with what the payload in hand and the waiting halves may still take, stay within what the batch
  could take at its start. The halves are disjoint, so what they may take is counted by their union.
- `CancelStops` (`CancelRespected`): an action property, which needs no invariant: each action that leads to the
  write reads the row first.

`FallbackProofs`: `OneJobOfAKind` (the part `OneOpenPerKind` of `FallbackSafe`), `NothingFutile`
(`NoFutileTranslation`) and `RetriesAreBounded` (`FallbackSafe`). Every step of the scanner, of a job, of a user or of the clock updates rows without opening any
(`Updated`), cuts the newest off (`Cut`) or adds one (`Added`) that is sound: none of its kind is open, and a translation has its
source and no target. The bound on retries (`RetryInv`) needs that no more was started than `automatic_attempts` counts, which the scanner looks at when the
last translation came to nothing; that the newest translation leaves one start to spare if it was completed (`Spare`), as
the scanner does not look then; and that a completed row stays so.

`MediaProofs`:

- `MediaTyped` (`MediaTypeOK`): the types of the five modules, with the bounds of their counters: the attempts, cues, chunks and segments a run has gone
  through, the references of a character.
- `SeparationSafe` (`SepSafe`): by stage, which stems have been heard to be good; the result is the last stage.
- `TranscriptSafe` (`TrSafe`): a coroutine at chunk n has heard 1..n-1, and a thread that is "ok" has
  heard every segment, since one that was told to stop ends as stopped.
- `ExtractionSafe` (`ExSafe`) and `GivenUpIsQuiet` (`ExGivenUpIsQuiet`): what the runner knows of its process and its file at
  each of its awaits (`ExRunnerInv`), and that a thread whose coroutine is gone has its flag set unless it is writing (`ExThreadInv`).
- `DubbingSafe` (`DubSafe`) and `DubbingDelivers` (`DubDelivers`): `DubInv` has the rows, and for each stage of a run which cues are
  on the timeline and whose file is in the directory; that a thread between preparation and generation holds the lock
  and its model is conditioned for its voice; and that a slow cue is in the cache before the run gives up. That a new
  model object is always there in the bounded model is a count (`DubFreeThere`): at most two per run and one loaded.
- `EveryCueHasItsVoice` (`VlDubCovered`): the cues an analysis has gone through have a row, flushed or committed; one that runs beside
  another leaves the cast suspect; a cast that is not is whole or absent. A ready cast that is whole binds every cue.

`ServicesProofs`:

- `FetchedOnce` (`CaFetchedOnce`): mutual exclusion of the fetch, and that nobody who fetches unasked has had a success
  since its look behind the lock.
- `HistoryWhole` (`OpHistoryWhole`): while no request overlapped or was cut off, the one request that runs owes exactly the
  results of the calls it has in hand.
- `TablesAgree` (`PoTablesAgree`) and `StrategyKept` (`PoStrategyKept`): the legacy table has every row of the other, and at most one
  more, the seeded one; so it is never empty while a model is configured, and seeding has nothing to do.
- `BookedOnce` (`UsOnce`) and `ChatKept` (`UsChatKept`): an answer that is to come has left no trace; what the hook is to record has neither
  a row nor a line; the lines that are kept for the rewrite are lines of the outbox; and each chat line gone through has
  been kept or has its row, so that a rewrite drops nothing.
- `EventsWhole` (the part `EvSafe` of `ServicesSafe`): an idle publisher holds nothing; a queue that missed an event is
  known as stale to a publisher that is about to drop it; the events in a queue and the puts under way fit together.
- `ServicesAreSafe` (`ServicesSafe`): `EvSafe` with the types of the six modules and the bounds of their counters. That a priority is within the pool is a
  pigeonhole: the priorities of a pool are distinct.
- `SpeechIsSafe` (`StSafe`): a function of the inputs, so the invariant is about them only: utterances and words follow each other and an utterance
  is shorter than `StSpeech`. The rest is induction over the folds the two algorithms consist of. Of the merge: two chunks that both hear an utterance are
  neighbours, and both parts of it lie in their overlap (`HeardTwice`); each fold of `StHear` keeps an utterance at most once and loses it
  only to the same words in one overlap (`KeptStep`); sorting by start is sorting by utterance, as one ends before the next begins (`PutStep`); so no
  segment starts before the one before it ends, and the last pass changes nothing (`PushesAll`). Of the formatter: a group of several
  words fits its lines, so wrapping drops nothing of it (`WholeIsShown`), which grouping, absorbing and merging preserve; and each step of the
  timing leaves the gap (`CueStep`). The sizes of a chunk, an overlap, a line, a cue and a word are constants too, so this holds
  of the 20 minutes and 20 seconds and of the `FormatterConfig` of the code, in ticks of any fineness. `StAssumption` asks of them that an
  overlap, the shortest and the longest cue are not nothing, and that a chunk is longer than two overlaps and an utterance: else
  one utterance could be heard by three chunks, and the third would compare it with what is not in its overlap.
- `PlanCoversTheSound`: every moment of the sound is in a chunk, and each chunk ends where the next one's overlap does. `CHOOSE` finds the last
  chunk, since among the chunks that reach the end there is a first (`PlanOfLong`).

`FiniteInduction` makes the inductions possible. The library's induction theorems take an operator as a parameter, which the provers
cannot instantiate; here they are stated of sets instead (`SubsetInduction`, `AppendInduction`, `CountingUp`: a set that is closed under the step has them all),
and a fold is unfolded with an operator that is a constant of the module, instantiated once for each fold (`Fold`, `FoldAppend`). Sums over a set
(`SumFunctionOnSet`) are unfolded in the same way.

The inductive invariants were model-checked before they were proved: `BudgetIInv` on `AiBudget`, `FallbackIInv` on `Fallback_scan`, `RequestInv` on
`TranslateJob_resume`, the others on their runs; `StSafe` also on sounds of three chunks with three utterances and texts of five words.

Only model-checked: the liveness properties `EveryRunEnds`, `EveryJobServed`, `TasksAdvance`, `JobEnds`, `Settles` and `MediaEnds`, as fairness and
ENABLED are out of the prover's reach.

## 5. Findings

- `TaskPlanner_unattached`: a task cancelled while its next job is being created gets the job all the same,
  unattached, and the worker executes it (docs/localization-tasks.md:79).
- `TranslateJob_resend`: a transient failure of the request that shortens the crowded cues, which is
  outside the `try` that attaches the checkpoint, makes the next model translate the whole document again; so does
  one of a repair within an asynchronous batch, whose chunks count as completed only all together
  (docs/translation-pipeline.md:34).

### Properties that fail

These are defined in the modules, checked by no listed run, and TLC violates them when they are added to the configuration
named; each states what a doc or a comment says, or what a reader might expect.

| Property | Where | What the code does |
|---|---|---|
| `PauseOnlyPending` | `JobWorker_slots` | `pause_job_row` (`jobs/queue.py:173`) may pause a running job, against its own check: it writes from a thread what it decided before the claim. A resume then has the job run twice. The same window exists for cancel |
| `HoldsInFlight` | `AiBudget` | an attempt that is cut off (`CancelledError`) never gives its reservation back, as the last handler is `except Exception` |
| `RescanNotRefused` | `TaskPlanner_safety` with `Events = {"target"}` | a task that waits for a source when its target appears cannot be set to `verifying`, and every `plan()` raises (`planner.py:686`) |
| `VerificationBounded` | `TaskPlanner_live` | after the last failed verification `verifying` to `blocked` is refused by the table (`localization/state.py:56`); the exception is logged, and verification repeats for ever (`planner.py:645`; "Persist bounded exponential retry state", `planner.py:621`) |
| `OnlyRunJobsComplete` | `Fallback_scan` | `clear_jobs` deletes rows that are being processed, SQLite gives their ids again, and the old coroutine completes a row nobody claimed |
| `FailedExtractIsFinal` | `Fallback_scan` | a failed extraction is enqueued again at every scan; attempts count translations only |
| `ExPartialsDeleted` | `Media_jobs` | a second `task.cancel()` during the two seconds of grace cuts `_stop_process` and the removal of partial outputs off |
| `ExForeignKept`, `TrForeignKept` | `Media_jobs` | a subtitle that appears while a track is extracted, or while speech is transcribed, is replaced |
| `VlNotPinned` | `Media_jobs` | an analysis holds SQLite's write lock over its awaited clips ("so SQLite is not pinned across awaits", `db/__init__.py:64`) |
| `UsItemKept` | `Services` | the outbox's key leaves the job out, so that a chunk of one job's batch passes for another's |
| `UsItemsEmitted` | `Services` | results after the first failed one of a batch are never booked ("for every returned batch item", `client.py:883`) |
| `PoFreePoolUnpriced` | `Services` | `update` moves a model with a catalogue price into the free pool, which `add` refuses (docs/ai-model-routing.md:18) |
| `StCueLasts` | `Services` | a cue that is pushed later keeps its own end, and may be shown for less than the minimum |

`CancelOnlyOpen` of `JobWorker` is in no run either: the refinement implies it.

### Observations

Read in the code and in the models' behaviours.

Budget and translation:

- A reservation is filed under the month of its creation, so an attempt that is billed in the next month is covered by no
  reservation there, and concurrent jobs can exceed the new month's limit (`ai_budget.py:171`; docs/ai-model-routing.md:68). The model counts
  such costs apart. A model of unknown price reserves nothing (`service.py:3107`).
- A translate job that dies between the write of its file and the commit of its row is queued again, translates and
  pays again, and ends failed because its target exists. When the commit is refused, that counts as a failure of the rescan, and the
  coroutine ends with its row in processing (`CommitRefused`).
- `write_srt_atomic` looks for the target before it writes its temporary file; a file that appears in between is
  replaced although `overwrite` is false (`TargetAppears` between `CheckTarget` and `ReplaceTarget`).
- After a technical failure that is not retryable (a malformed answer, a context overflow) the next model starts from the
  checkpoint before, not from what the failed one had translated.

Provider and usage:

- Retry-After is slept uncapped, and even after the last attempt; a cancelled or timed-out request's usage is never recorded; one
  error while polling abandons a paid batch; the hook commits or rolls back its caller's session; providers other than
  OpenRouter have no outbox, and a database error fails the paid call.

Tasks:

- A task cancelled between the check and the commit of a transition is re-opened by
  that one transition: `CancelledStays` speaks of the time after it.
- When an identical translation exists, `create_job` inserts a skipped row and the task stays in
  processing (`service.py:1140`). A request job that fails by an exception starts no cooldown; the planner requests again each time (`planner.py:363`).
- A retried audio task whose last dub failed stays in planning (`planner.py:805` inserts a row only where there never was one); a task whose dub
  is cancelled by itself stays in processing; `ApOwed` leaves both out, as no move is owed. A dub inserted for a task that is
  cancelled meanwhile is unattached and executed. docs/architecture.md:137 says "Dubbing is **not** auto-enqueued by TaskPlanner", and
  `_plan_audio` enqueues one.

Scanner:

- Attempts and grace are reset when a title leaves Bazarr's list and comes back, and `RetriesBounded` is per such period; clearing the history
  lets a title be tried again without bound. A cache hit counts as final. `maybe_chain_translate` looks at the automation switch before it
  awaits the candidate.

Media:

- Two OCR threads, an abandoned one and the retry's, share one temporary name.
- A cancel at the start of `_verify_result` leaves both stems although the trace says they were removed. A full disk or a
  cancel leaves `dialogue.wav` and Demucs' directory behind.
- `unload_chatterbox_model` (`chatterbox.py:386`) pops tuples and deletes their first item: a TypeError at every recycling and
  slow cue, which fails the job (README.md:180 of the repository describes the recycling). `DubUnload` has the exception.
- A retried dub has neither overrides nor bindings, so its cache is another one. A crash between the replace of the output and the commit makes the
  next run fail on "Output dub already exists"; an unverified output still completes its row. The finished dub is copied synchronously on the event loop.
- `retry_job` has no branch for transcriptions, and makes a translate job of one. There is no look at a cancel between the last segment and the
  write. Whisper threads outlive their jobs until their next segment.
- Of an utterance cut by a chunk's end only the head may be kept; of a line said twice in one overlap, heard once by the earlier chunk, one
  is dropped; the language of the last chunk wins.

Voices:

- Each character an analysis creates commits the cast so far. An interrupted or overlapped analysis leaves a partial cast which counts as ready, and
  the dub fails at its first cue without a voice; `VlDubCovered` excludes these casts (`vlTorn`), as it does one that a user's assignment begins.
- `add_reference_from_path` with `make_canonical` takes the place of an approved voice; two approvals at a time may leave two canonical references.

Shared services:

- A stream whose queue was full is dropped silently, and stays open with keepalives; the queue of a request whose generator never
  starts is a subscriber until it is full.
- `ModelPreferenceService(db).list_preferences` (`localization/operator.py:83`) does not exist: without a named chat model
  every message fails (docs/ai-model-routing.md:96).
- The model's own arguments may say `confirmed` (docs/localization-tasks.md:42 calls these tools confirm-gated). Overlapping posts, or a crash,
  leave calls without results, and later requests are malformed; `OpHistoryWhole` excludes both (`opTorn`).
- Deleting the last model is undone by the seeding at the next access to settings, which also resets the strategy.
- The catalogue's minimum interval does not apply after failures.

## 6. Not modelled, and why

Parsing of subtitles, image decoding, language tables, the choice of sources and tracks, ranking scores and cost estimates, cue timing, credentials,
schema migrations and the web interface keep no state that several actors
share, or are arithmetic without control. HTTP, ffmpeg, Whisper, Demucs and Chatterbox are external: their outcomes are
choices of the models. Checkpoints, logs and events about jobs are written and shown, and decide nothing. `PROJECT.json` lists every component with its status.

Between the modules, what one takes of another is stated in section 2 and not checked: a combined instance of the worker with the inside of a job is out of
TLC's reach.

## 7. Plan

Written, checked and proved: all modules of section 2, but for what section 4 lists as only model-checked. Left, in the order of importance:

1. An abstract specification of the translation (cues become translated, in any order, each
   once while nothing but transient failures happens) that `TranslateDocument` and `TranslateJob` implement.
2. The bound on retries of `Fallback` as a theorem: a count of rows against the attempts of the observed row.
3. The same outbox in `AiBudget`, where a deferred row lets the next reservation see too little.
4. Ranking and cost as pure operators, checked against an order of their own.
5. Source resolution and the candidate cache.
