------------------------------ MODULE AiBudget ------------------------------
(***************************************************************************)
(* The monthly AI budget (backend/app/services/ai_budget.py) as the        *)
(* translation jobs use it (JobService._process_translate_job): a job       *)
(* selects candidate models (ModelRouter.select_models) and tries them in   *)
(* order, reserving budget before each paid one.                           *)
(*                                                                         *)
(* The jobs are coroutines of one event loop.  Between two awaits a job    *)
(* holds the loop (`turn`); it gives it up while the provider works on its *)
(* request (at = "trying").  Users cancel from threadpool threads.         *)
(* Reservations and usage are rows of SQLite and survive a crash.          *)
(***************************************************************************)
EXTENDS Integers, FiniteSets, FiniteSetsExt, Functions

CONSTANTS
  Jobs,        \* translation jobs
  Manual,      \* those with trigger_type "manual"
  Override,    \* settings.allow_manual_budget_override
  Models,      \* (provider, model) pairs
  Rank,        \* their order under the routing strategy
  Paid,        \* the models of the paid pool
  Estimate,    \* conservative cost of one job with a model; 0: unknown price
  Cost,        \* what the requests of one attempt are billed at most
  Limit,       \* settings.monthly_budget_amount_micro_usd
  LastMonth,   \* UTC months 1..LastMonth pass
  MaxRows,     \* bound on the reservations active at one time
  MaxCrashes,  \* bound on the number of process restarts
  None         \* Python's None

ASSUME AiBudgetAssumption ==
  /\ Manual \subseteq Jobs /\ Override \in BOOLEAN
  /\ Rank \in [Models -> Nat] /\ Paid \subseteq Models
  /\ Estimate \in [Models -> Nat] /\ Cost \in [Models -> Nat]
  /\ Limit \in Nat /\ LastMonth \in Nat \ {0}
  /\ MaxRows \in Nat /\ MaxCrashes \in Nat
  /\ None \notin Models /\ None \notin Nat

VARIABLES
  \* persistent
  rows,       \* ai_budget_reservations with released_at IS NULL
  bill,       \* ai_usage_records: what was billed in each month, by its cover
  cancelled,  \* jobs whose row a user has cancelled
  month, crashes,
  \* memory of the job coroutines
  at,         \* where each coroutine is
  left,       \* the candidates not yet tried
  model,      \* candidate
  hold,       \* reservation (its id), or None
  used,       \* what the current attempt has been billed
  turn        \* the job holding the event loop, or None

dbVars  == <<rows, bill, cancelled, month, crashes>>
jobVars == <<at, left, model, hold, used>>
vars == <<dbVars, jobVars, turn>>
-----------------------------------------------------------------------------
Ids == 1..MaxRows
Months == 1..LastMonth
Places == {"queued", "choosing", "reserved", "trying", "completed", "failed", "stopped"}
\* A request is billed under a reservation of the month it is billed in, under
\* one of an earlier month, or under none.
Covers == {"held", "carried", "unheld"}

TypeOK ==
  /\ rows \subseteq [id : Ids, job : Jobs, month : Months, amount : Nat]
  /\ bill \in [Covers -> [Months -> Nat]]
  /\ cancelled \subseteq Jobs
  /\ month \in Months /\ crashes \in 0..MaxCrashes
  /\ at \in [Jobs -> Places]
  /\ left \in [Jobs -> SUBSET Models]
  /\ model \in [Jobs -> Models \cup {None}]
  /\ hold \in [Jobs -> Ids \cup {None}]
  /\ used \in [Jobs -> Nat]
  /\ turn \in Jobs \cup {None}
  /\ \A j \in Jobs : at[j] \in {"reserved", "trying"} => model[j] \in Models

\* spent_micro_usd: usage records of the month; reserved_micro_usd: active rows.
RowsOf(m) == {r \in rows : r.month = m}
Spent(m) == SumFunctionOnSet([c \in Covers |-> bill[c][m]], Covers)
Reserved(m) == SumFunctionOnSet([r \in rows |-> r.amount], RowsOf(m))
\* Mutant: only what has been billed counts.
Unspent == Limit - Spent(month)
Remaining == Limit - Spent(month) - Reserved(month)

CanBypass(j) == j \in Manual /\ Override

\* The id of a new row: one that no active row has.
FreeIds == {id \in Ids : \A r \in rows : r.id # id}
\* Mutant: ids are handed out by counting the active rows.
NextByCount == Cardinality(rows) + 1
NewId == CHOOSE id \in FreeIds : TRUE

\* reserve inserts a row, or refuses, only for a known price of a paid model.
NeedsHold(j, m) == m \in Paid /\ Estimate[m] > 0 /\ ~CanBypass(j)

Init ==
  /\ rows = {} /\ cancelled = {} /\ month = 1 /\ crashes = 0
  /\ bill = [c \in Covers |-> [m \in Months |-> 0]]
  /\ at = [j \in Jobs |-> "queued"]
  /\ left = [j \in Jobs |-> {}]
  /\ model = [j \in Jobs |-> None]
  /\ hold = [j \in Jobs |-> None]
  /\ used = [j \in Jobs |-> 0]
  /\ turn = None

\* What the coroutine of j keeps of its attempt is gone.
Forget(j) ==
  /\ model' = [model EXCEPT ![j] = None]
  /\ hold' = [hold EXCEPT ![j] = None]
  /\ used' = [used EXCEPT ![j] = 0]

\* The coroutine of j ends at `place`.
End(j, place) ==
  /\ at' = [at EXCEPT ![j] = place]
  /\ left' = [left EXCEPT ![j] = {}]
  /\ Forget(j)
  /\ turn' = None
-----------------------------------------------------------------------------
(* ModelRouter.select_models: paid models beyond the remaining budget are   *)
(* dropped, unless this job may bypass it.                                 *)
Affordable(j) ==
  {m \in Models : NeedsHold(j, m) => Estimate[m] <= Max({0, Remaining})}

\* for candidate in routing.candidates
NextCandidate(j, m) == m \in left[j] /\ \A n \in left[j] : Rank[m] <= Rank[n]

Route(j) ==
  /\ turn = None /\ at[j] = "queued"
  /\ IF j \in cancelled THEN End(j, "stopped")
     ELSE IF Affordable(j) = {} THEN End(j, "failed")   \* blocked_by_cost_policy
     ELSE /\ at' = [at EXCEPT ![j] = "choosing"]
          /\ left' = [left EXCEPT ![j] = Affordable(j)]
          /\ turn' = j
          /\ UNCHANGED <<model, hold, used>>
  /\ UNCHANGED dbVars

\* The source subtitle is unreadable or invalid.
RejectSource(j) ==
  /\ turn = None /\ at[j] = "queued" /\ j \notin cancelled
  /\ End(j, "failed")
  /\ UNCHANGED dbVars

(* AiBudgetService.reserve for the next candidate, under _BUDGET_LOCK.     *)
Reserve(j, m) ==
  /\ turn = j /\ at[j] = "choosing" /\ NextCandidate(j, m) /\ j \notin cancelled
  /\ NeedsHold(j, m) => Estimate[m] <= Remaining
  /\ IF NeedsHold(j, m)
       THEN /\ FreeIds # {}
            /\ rows' = rows \cup {[id |-> NewId, job |-> j, month |-> month,
                                   amount |-> Estimate[m]]}
            /\ hold' = [hold EXCEPT ![j] = NewId]
       ELSE UNCHANGED rows /\ hold' = [hold EXCEPT ![j] = None]
  /\ at' = [at EXCEPT ![j] = "reserved"]
  /\ left' = [left EXCEPT ![j] = @ \ {m}]
  /\ model' = [model EXCEPT ![j] = m]
  /\ used' = [used EXCEPT ![j] = 0]
  /\ UNCHANGED <<bill, cancelled, month, crashes, turn>>

\* BudgetBlockedError: the next candidate is tried; it decides the outcome.
ReserveBlocked(j, m) ==
  /\ turn = j /\ at[j] = "choosing" /\ NextCandidate(j, m) /\ j \notin cancelled
  /\ NeedsHold(j, m) /\ Estimate[m] > Remaining
  /\ IF left[j] = {m} THEN End(j, "failed")             \* blocked_by_cost_policy
     ELSE left' = [left EXCEPT ![j] = @ \ {m}] /\ UNCHANGED <<at, turn, model, hold, used>>
  /\ UNCHANGED dbVars

\* release: idempotent, and nothing to do for None.
Release(j) == rows' = {r \in rows : r.id # hold[j]}

\* A user's cancel is seen when the row is read again: before or after reserve.
SeeCancelled(j) ==
  /\ turn = j /\ j \in cancelled /\ at[j] \in {"choosing", "reserved"}
  /\ IF at[j] = "reserved" THEN Release(j) ELSE UNCHANGED rows
  /\ End(j, "stopped")
  /\ UNCHANGED <<bill, cancelled, month, crashes>>

\* await service.translate_document(...)
Try(j) ==
  /\ turn = j /\ at[j] = "reserved" /\ j \notin cancelled
  /\ at' = [at EXCEPT ![j] = "trying"]
  /\ turn' = None
  /\ UNCHANGED <<dbVars, left, model, hold, used>>
-----------------------------------------------------------------------------
(* record_http_attempt: every HTTP attempt, paid or failed, is recorded and *)
(* committed at once, in the month it ends in.                             *)
Cover(j) == IF ~NeedsHold(j, model[j]) THEN "unheld"
            ELSE IF \E r \in rows : r.id = hold[j] /\ r.month = month THEN "held" ELSE "carried"

Request(j) ==
  /\ turn = None /\ at[j] = "trying"
  /\ \E cost \in 0..(Cost[model[j]] - used[j]) :
       /\ used' = [used EXCEPT ![j] = @ + cost]
       /\ bill' = [bill EXCEPT ![Cover(j)][month] = @ + cost]
  /\ UNCHANGED <<rows, cancelled, month, crashes, at, left, model, hold, turn>>

Succeed(j) ==
  /\ turn = None /\ at[j] = "trying"
  /\ Release(j)
  /\ End(j, IF j \in cancelled THEN "stopped" ELSE "completed")
  /\ UNCHANGED <<bill, cancelled, month, crashes>>

\* RetryableTranslationError, or a technical AIProviderError: the loop goes on.
FallBack(j) ==
  /\ turn = None /\ at[j] = "trying" /\ left[j] # {}
  /\ Release(j) /\ Forget(j)
  /\ at' = [at EXCEPT ![j] = "choosing"] /\ turn' = j
  /\ UNCHANGED <<bill, cancelled, month, crashes, left>>

\* Any other exception, "Job cancelled" from the progress callback included,
\* and any exception of the last candidate.
Fail(j) ==
  /\ turn = None /\ at[j] = "trying"
  /\ Release(j)
  /\ End(j, IF j \in cancelled THEN "stopped" ELSE "failed")
  /\ UNCHANGED <<bill, cancelled, month, crashes>>

(* CancelledError at the await, from cancel_job or the overdue watchdog: no *)
(* handler of the attempt catches it.                                      *)
Interrupt(j) ==
  /\ turn = None /\ at[j] = "trying"
  /\ End(j, "stopped")
  /\ UNCHANGED dbVars
-----------------------------------------------------------------------------
CancelJob(j) ==
  /\ at[j] \notin {"completed", "failed", "stopped"} /\ j \notin cancelled
  /\ cancelled' = cancelled \cup {j}
  /\ UNCHANGED <<rows, bill, month, crashes, jobVars, turn>>

MonthEnds ==
  /\ month < LastMonth
  /\ month' = month + 1
  /\ UNCHANGED <<rows, bill, cancelled, crashes, jobVars, turn>>

(* The process dies and restarts: recover_interrupted_jobs queues again     *)
(* every job that was processing; reservation rows stay as they are.       *)
Crash ==
  /\ crashes < MaxCrashes /\ crashes' = crashes + 1
  /\ at' = [j \in Jobs |-> IF at[j] \notin {"choosing", "reserved", "trying"} THEN at[j]
                            ELSE IF j \in cancelled THEN "stopped" ELSE "queued"]
  /\ left' = [j \in Jobs |-> {}]
  /\ model' = [j \in Jobs |-> None]
  /\ hold' = [j \in Jobs |-> None]
  /\ used' = [j \in Jobs |-> 0]
  /\ turn' = None
  /\ UNCHANGED <<rows, bill, cancelled, month>>

Next ==
  \/ \E j \in Jobs :
       \/ RejectSource(j) \/ Route(j)
       \/ \E m \in Models : Reserve(j, m) \/ ReserveBlocked(j, m)
       \/ SeeCancelled(j) \/ Try(j) \/ Request(j) \/ Succeed(j) \/ FallBack(j)
       \/ Fail(j) \/ Interrupt(j) \/ CancelJob(j)
  \/ MonthEnds \/ Crash

Spec == Init /\ [][Next]_vars
-----------------------------------------------------------------------------
(* Properties.                                                             *)

\* Attempts under a reservation of the month are never billed more than the
\* limit in it, whatever jobs without one and attempts of the month before
\* spend, however many run at once, and whichever are cut off with their
\* reservation held (reserve).
BudgetRespected == \A m \in Months : bill["held"][m] <= Limit

\* An attempt that ends, well or badly, gives its hold back; only a coroutine
\* cut off at its await or by a crash takes it along (_process_translate_job).
NormalEndReleases ==
  [][\A j \in Jobs :
       at[j] = "trying" /\ at'[j] \in {"choosing", "completed", "failed"}
         => \A r \in rows' : r.id # hold[j]]_vars

\* What a job has reserved stays reserved for as long as its attempt lasts,
\* whatever other jobs release, and however crashed ones left their holds.
HoldKept ==
  \A j \in Jobs : at[j] \in {"reserved", "trying"} /\ NeedsHold(j, model[j]) =>
    \E r \in rows : r.id = hold[j] /\ r.job = j /\ r.amount = Estimate[model[j]]

\* The inductive part: rows are told apart by their ids, and a reservation a
\* coroutine has in hand is an active row of its own job.
RowInv ==
  /\ \A r, s \in rows : r.id = s.id => r = s
  /\ \A j \in Jobs : hold[j] # None => \E r \in rows : r.id = hold[j] /\ r.job = j
HoldIInv == TypeOK /\ RowInv /\ HoldKept

\* Why the limit holds: what the reservations of a month may still be billed for
\* fits beside what has been billed under reservations of it.  A row nobody has in
\* hand is billed for nothing any more, and a job without a hold holds nothing.
Open(r) == IF hold[r.job] = r.id /\ used[r.job] < r.amount THEN r.amount - used[r.job] ELSE 0
OpenSum(m) == SumFunctionOnSet([r \in rows |-> Open(r)], RowsOf(m))
FitsInv ==
  /\ \A m \in Months : bill["held"][m] + OpenSum(m) <= Limit
  /\ \A j \in Jobs : at[j] \in {"reserved", "trying"} =>
       /\ used[j] <= Cost[model[j]]
       /\ hold[j] # None <=> NeedsHold(j, model[j])
BudgetIInv == HoldIInv /\ FitsInv

\* What makes an estimate conservative (estimate_conservative_job_cost_micro): no
\* attempt is billed more.
EstimatesConservative == \A m \in Paid : Estimate[m] > 0 => Cost[m] <= Estimate[m]

\* Reservations are in-flight holds: each belongs to an attempt under way.
HoldsInFlight ==
  \A r \in rows : at[r.job] \in {"reserved", "trying"} /\ hold[r.job] = r.id
=============================================================================
