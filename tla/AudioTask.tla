------------------------------ MODULE AudioTask ------------------------------
(***************************************************************************)
(* Audio localization of one title in one language: its tasks, the dub     *)
(* rows, the planner that moves the tasks (TaskPlanner._plan_audio), the   *)
(* requests that start, retry and cancel, and the worker's runs, of which  *)
(* DubJob models the inside.  Coroutines share the event loop and await    *)
(* nothing between a plan and the row it inserts; cancels come from        *)
(* threads, between any two of their commits.                              *)
(***************************************************************************)
EXTENDS Naturals, FiniteSets

CONSTANTS
  ApTasks,   \* bound on the tasks: 1..n, in the order of their creation
  ApJobs     \* bound on the dub rows: 1..n

ASSUME ApAssumption == ApTasks \in Nat \ {0} /\ ApJobs \in Nat \ {0}

VARIABLES
  apTask,  \* status of each task
  apRow,   \* dub rows: status and task, 0 for none
  apRun,   \* rows whose coroutine is under way
  apSrt,   \* the target subtitle is beside the media
  apDub,   \* so is a dub
  apLoop   \* the handler that has the event loop, and how far it is

apVars == <<apTask, apRow, apRun, apSrt, apDub, apLoop>>

ApIds == 1..ApTasks
ApRows == 1..ApJobs
ApWorking == {"requested", "planning", "processing"}
ApHandler == [at : {"idle", "plan", "insert", "bind", "tell"}, task : {0} \cup ApIds,
              row : {0} \cup ApRows, by : {"plan", "start", "retry"}, replace : BOOLEAN]
ApIdle == [at |-> "idle", task |-> 0, row |-> 0, by |-> "plan", replace |-> FALSE]

ApTypeOK ==
  /\ apTask \in [ApIds -> ApWorking \cup {"none", "blocked", "failed", "completed", "cancelled"}]
  /\ apRow \in [ApRows -> [status : {"none", "pending", "processing", "completed", "failed",
                                     "cancelled"}, task : {0} \cup ApIds]]
  /\ apRun \subseteq ApRows /\ apSrt \in BOOLEAN /\ apDub \in BOOLEAN
  /\ apLoop \in ApHandler

ApInit ==
  /\ apTask = [t \in ApIds |-> "none"]
  /\ apRow = [j \in ApRows |-> [status |-> "none", task |-> 0]]
  /\ apRun = {} /\ apSrt = TRUE /\ apDub = FALSE
  /\ apLoop = ApIdle
-----------------------------------------------------------------------------
ApActive == {t \in ApIds : apTask[t] \in ApWorking}     \* at most one: a unique index
ApOpen == {j \in ApRows : apRow[j].status \in {"pending", "processing"}}
ApOpenOf(t) == {j \in ApOpen : apRow[j].task = t}
ApOf(t) == {j \in ApRows : apRow[j].status # "none" /\ apRow[j].task = t}
ApLatestFailed(t) ==
  \E j \in ApOf(t) : apRow[j].status = "failed" /\ \A o \in ApOf(t) : o <= j
ApNew(used, all) == {n \in all \ used : \A m \in all : m < n => m \in used}
ApNewRow == ApNew({j \in ApRows : apRow[j].status # "none"}, ApRows)
ApNewTask == ApNew({t \in ApIds : apTask[t] # "none"}, ApIds)

ApSet(t, status) == apTask' = [apTask EXCEPT ![t] = status]
ApReturns == apLoop' = ApIdle
ApFree == apLoop.at = "idle"
ApPlans(t) == apLoop' = [ApIdle EXCEPT !.at = "plan", !.task = t]
ApFiles == UNCHANGED <<apRun, apSrt, apDub>>
-----------------------------------------------------------------------------
(* TaskPlanner.plan and _plan_audio.                                        *)
ApBegin(t) ==
  /\ apLoop.at = "plan" /\ apLoop.task = t /\ apTask[t] = "requested"
  /\ ApSet(t, "planning")
  /\ UNCHANGED <<apRow, apLoop>> /\ ApFiles

ApOver(t) ==   \* a failed or blocked task is completed by a dub that is there
  /\ apLoop.at = "plan" /\ apLoop.task = t /\ apTask[t] \notin ApWorking
  /\ ApReturns
  /\ IF apTask[t] \in {"failed", "blocked"} /\ apDub THEN ApSet(t, "completed")
     ELSE UNCHANGED apTask
  /\ UNCHANGED apRow /\ ApFiles

\* What a look at the rows and the disk decides.  From processing there is no
\* transition to blocked: it is refused, and the error logged.
ApLook(t) ==
  /\ apLoop.at = "plan" /\ apLoop.task = t /\ apTask[t] \in {"planning", "processing"}
  /\ LET failed == ApLatestFailed(t) /\ apTask[t] = "processing"
         then == CASE ApOpenOf(t) # {} -> "processing"
                   [] ApOpenOf(t) = {} /\ apDub -> "completed"
                   [] ApOpenOf(t) = {} /\ ~apDub /\ failed -> "failed"
                   [] ApOpenOf(t) = {} /\ ~apDub /\ ~failed /\ ~apSrt ->
                        IF apTask[t] = "planning" THEN "blocked" ELSE apTask[t]
                   [] OTHER -> IF ApOf(t) = {} THEN "insert" ELSE apTask[t]
     IN IF then = "insert"
          THEN ApSet(t, "processing") /\ apLoop' = [apLoop EXCEPT !.at = "insert"]
          ELSE ApSet(t, then) /\ ApReturns
  /\ UNCHANGED apRow /\ ApFiles

ApReplan(t) ==   \* plan_all_active, every 30 seconds
  /\ ApFree /\ t \in ApActive
  /\ ApPlans(t)
  /\ UNCHANGED <<apTask, apRow>> /\ ApFiles
-----------------------------------------------------------------------------
(* create_dub_job.                                                          *)
ApRefused ==   \* (also when the bound on the rows is reached)
  ApOpen # {} \/ ~apSrt \/ (apDub /\ ~apLoop.replace) \/ ApNewRow = {}

ApInsert ==   \* a plan makes its task failed when it is refused, if it may
  /\ apLoop.at = "insert"
  /\ IF ApRefused
       THEN /\ ApReturns
            /\ IF apLoop.by = "plan" /\ apTask[apLoop.task] = "processing"
                 THEN ApSet(apLoop.task, "failed") ELSE UNCHANGED apTask
            /\ UNCHANGED <<apRow, apDub>>
       ELSE \E j \in ApNewRow :
            /\ apRow' = [apRow EXCEPT ![j] = [status |-> "pending", task |-> 0]]
            /\ apLoop' = [apLoop EXCEPT !.at = "bind", !.row = j]
            /\ apDub' = FALSE /\ UNCHANGED apTask
  /\ UNCHANGED <<apRun, apSrt>>

\* Mutant: the row is given its task whatever has become of that.
BindAnyway ==
  /\ apLoop.at = "bind"
  /\ apRow' = IF apLoop.task # 0 THEN [apRow EXCEPT ![apLoop.row].task = apLoop.task] ELSE apRow
  /\ apLoop' = IF apLoop.by = "start" THEN [apLoop EXCEPT !.at = "tell"] ELSE ApIdle
  /\ UNCHANGED apTask /\ ApFiles

ApBind ==   \* _bind_task_id
  /\ apLoop.at = "bind"
  /\ apRow' = IF apLoop.task \in ApActive
                THEN [apRow EXCEPT ![apLoop.row].task = apLoop.task] ELSE apRow
  /\ apLoop' = IF apLoop.by = "start" THEN [apLoop EXCEPT !.at = "tell"] ELSE ApIdle
  /\ UNCHANGED apTask /\ ApFiles

ApTell ==   \* start_manual_dub: the task follows its row
  /\ apLoop.at = "tell"
  /\ apTask' = IF apLoop.task \in ApActive THEN [apTask EXCEPT ![apLoop.task] = "processing"]
               ELSE apTask
  /\ ApReturns
  /\ UNCHANGED apRow /\ ApFiles
-----------------------------------------------------------------------------
(* Requests on the loop.                                                    *)
ApStart ==   \* start_manual_dub: its gate, then the active task or a new one
  /\ ApFree /\ apSrt /\ ApOpen = {}
  /\ \E replace \in BOOLEAN, t \in IF ApActive # {} THEN ApActive ELSE ApNewTask :
       /\ replace \/ ~apDub
       /\ apTask' = IF t \in ApActive THEN apTask ELSE [apTask EXCEPT ![t] = "requested"]
       /\ apLoop' = [ApIdle EXCEPT !.at = "insert", !.task = t, !.by = "start", !.replace = replace]
  /\ UNCHANGED apRow /\ ApFiles

ApCreate ==   \* POST localization-tasks with capability=audio
  /\ ApFree /\ ApActive = {}
  /\ \E t \in ApNewTask : ApSet(t, "requested") /\ ApPlans(t)
  /\ UNCHANGED apRow /\ ApFiles

ApRetryTask(t) ==   \* prepare_retry, then plan
  /\ ApFree
  /\ \/ t \in ApActive /\ UNCHANGED apTask
     \/ apTask[t] \in {"failed", "blocked", "cancelled"} /\ ApActive = {} /\ ApSet(t, "planning")
  /\ ApPlans(t)
  /\ UNCHANGED apRow /\ ApFiles

ApRetryJob(j) ==   \* the row's task, if it is still active, has the new row
  /\ ApFree /\ apRow[j].status # "none"
  /\ apLoop' = [ApIdle EXCEPT !.at = "insert", !.task = apRow[j].task, !.by = "retry",
                              !.replace = TRUE]
  /\ UNCHANGED <<apTask, apRow>> /\ ApFiles
-----------------------------------------------------------------------------
(* Requests in threads.                                                     *)
ApCancelTask(t) ==   \* its open rows, and the title's rows without a task
  /\ apTask[t] \in ApWorking \cup {"cancelled"}
  /\ ApSet(t, "cancelled")
  /\ apRow' = [j \in ApRows |-> IF j \in ApOpen /\ apRow[j].task \in {0, t}
                                  THEN [apRow[j] EXCEPT !.status = "cancelled"] ELSE apRow[j]]
  /\ UNCHANGED apLoop /\ ApFiles

ApCancelJob(j) ==
  /\ j \in ApOpen
  /\ apRow' = [apRow EXCEPT ![j].status = "cancelled"]
  /\ UNCHANGED <<apTask, apLoop>> /\ ApFiles
-----------------------------------------------------------------------------
(* The worker, and the rest of the world.                                   *)
ApClaim(j) ==   \* the row of a cancelled task is cancelled instead
  /\ ApFree /\ apRow[j].status = "pending"
  /\ IF apRow[j].task # 0 /\ apTask[apRow[j].task] = "cancelled"
       THEN apRow' = [apRow EXCEPT ![j].status = "cancelled"] /\ UNCHANGED apRun
       ELSE apRow' = [apRow EXCEPT ![j].status = "processing"] /\ apRun' = apRun \cup {j}
  /\ UNCHANGED <<apTask, apSrt, apDub, apLoop>>

\* A run ends and has its task planned.  One that is cancelled, or fails when it
\* looks at its work again, may have placed its dub all the same; one that finds
\* a dub fails.
ApRunEnds(j) ==
  /\ ApFree /\ j \in apRun
  /\ apRun' = apRun \ {j}
  /\ \/ /\ apRow[j].status = "processing" /\ ~apDub
        /\ apRow' = [apRow EXCEPT ![j].status = "completed"] /\ apDub' = TRUE
     \/ /\ apRow[j].status = "processing"
        /\ apRow' = [apRow EXCEPT ![j].status = "failed"] /\ apDub' \in {apDub, TRUE}
     \/ /\ apRow[j].status = "cancelled"
        /\ UNCHANGED apRow /\ apDub' \in {apDub, TRUE}
  /\ IF apRow[j].task = 0 THEN ApReturns ELSE ApPlans(apRow[j].task)
  /\ UNCHANGED <<apTask, apSrt>>

ApRestart ==   \* between any two commits; processing rows are queued again
  /\ apRow' = [j \in ApRows |-> IF apRow[j].status = "processing"
                                  THEN [apRow[j] EXCEPT !.status = "pending"] ELSE apRow[j]]
  /\ apRun' = {} /\ ApReturns
  /\ UNCHANGED <<apTask, apSrt, apDub>>

ApSubtitle ==   \* the subtitle appears, or is removed to be localized again
  /\ apSrt' = ~apSrt
  /\ UNCHANGED <<apTask, apRow, apRun, apDub, apLoop>>
-----------------------------------------------------------------------------
ApPlan(t) == ApBegin(t) \/ ApOver(t) \/ ApLook(t)
ApHandled == ApInsert \/ ApBind \/ ApTell \/ \E t \in ApIds : ApPlan(t)
ApNext ==
  \/ ApHandled \/ ApStart \/ ApCreate \/ ApRestart \/ ApSubtitle
  \/ \E t \in ApIds : ApReplan(t) \/ ApRetryTask(t) \/ ApCancelTask(t)
  \/ \E j \in ApRows : ApRetryJob(j) \/ ApCancelJob(j) \/ ApClaim(j) \/ ApRunEnds(j)

\* A handler that has the loop goes on, the tick replans every active task, and
\* the process does not crash for ever.
ApFair == /\ WF_apVars(ApHandled) /\ \A t \in ApIds : SF_apVars(ApReplan(t))
          /\ <>[][~ApRestart]_apVars
ApSpec == ApInit /\ [][ApNext]_apVars /\ ApFair
-----------------------------------------------------------------------------
\* An open row that belongs to a task belongs to one that is under way, whatever
\* a thread cancels between the row's insertion and its binding: no dub goes on
\* for a task that the user sees cancelled, failed or completed.
ApRowsFollowTasks == \A j \in ApOpen : apRow[j].task # 0 => apRow[j].task \in ApActive

\* The planner owes a task a move: nothing of its own is open, and there is a
\* dub, or its last dub failed, or it has had none and could.
ApOwed(t) ==
  /\ t \in ApActive /\ ApOpenOf(t) = {}
  /\ \/ apDub
     \/ apTask[t] = "processing" /\ ApLatestFailed(t)
     \/ ApOf(t) = {} /\ apSrt

\* No audio task stays "processing" for ever beside a dub that is there or has
\* failed, and none waits for a row that nobody inserts, crashes included.
ApAdvances == \A t \in ApIds : ApOwed(t) ~> ~ApOwed(t)
=============================================================================
