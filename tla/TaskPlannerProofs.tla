------------------------- MODULE TaskPlannerProofs -------------------------
(* Proofs about the audio tasks, for any number of tasks and rows, and about *)
(* one localization task, for any number of calls of plan(), of job rows, of *)
(* retries, and for every kind of media.                                     *)
EXTENDS TaskPlanner, AudioTask, TLAPS

(* Open dubs belong to tasks that are under way, for any number of tasks   *)
(* and rows, and whatever is retried, cancelled or cut off by a crash.     *)

USE ApAssumption

\* ApRowsFollowTasks alone is not inductive: create_dub_job makes the task of a
\* refused plan failed, which is sound only because the plan that came to insert
\* saw no open row of its task, and none was bound to it since.
ApNoneWhilePlanning ==
  apLoop.at = "insert" /\ apLoop.by = "plan" => ApOpenOf(apLoop.task) = {}

ApInv == ApTypeOK /\ ApRowsFollowTasks /\ ApNoneWhilePlanning

LEMMA ApInitial == ApInit => ApInv
<1> SUFFICES ASSUME ApInit PROVE ApInv
  OBVIOUS
<1> USE DEF ApInit, ApIdle
<1>1. ApTypeOK
  BY DEF ApTypeOK, ApHandler, ApWorking
<1>2. ApOpen = {}
  BY DEF ApOpen
<1> QED
  BY <1>1, <1>2 DEF ApInv, ApRowsFollowTasks, ApNoneWhilePlanning, ApOpenOf

\* What a handler leaves in apLoop is well typed.
LEMMA ApLoopTyped ==
  /\ ApIdle \in ApHandler
  /\ \A t \in ApIds : [ApIdle EXCEPT !.at = "plan", !.task = t] \in ApHandler
  /\ \A l \in ApHandler : [l EXCEPT !.at = "insert"] \in ApHandler
BY DEF ApIdle, ApHandler

LEMMA ApTypeStep == ApTypeOK /\ [ApNext]_apVars => ApTypeOK'
<1> SUFFICES ASSUME ApTypeOK, [ApNext]_apVars PROVE ApTypeOK'
  OBVIOUS
<1> USE DEF ApTypeOK, ApFiles, ApReturns, ApHandler, ApIdle, ApWorking, ApSet, ApPlans
<1>1. ASSUME NEW t \in ApIds, ApPlan(t) PROVE ApTypeOK'
  <2>1. CASE ApBegin(t)
    BY <2>1 DEF ApBegin
  <2>2. CASE ApOver(t)
    BY <2>2 DEF ApOver
  <2>3. CASE ApLook(t)
    <3>1. /\ \E s \in ApWorking \cup {"blocked", "failed", "completed"} :
                apTask' = [apTask EXCEPT ![t] = s]
          /\ apLoop' \in {ApIdle, [apLoop EXCEPT !.at = "insert"]}
      BY <2>3 DEF ApLook
    <3>2. UNCHANGED <<apRow, apRun, apSrt, apDub>>
      BY <2>3 DEF ApLook
    <3>3. apTask' \in [ApIds -> ApWorking \cup {"none", "blocked", "failed", "completed",
                                               "cancelled"}]
      BY <3>1
    <3>4. apLoop' \in ApHandler
      <4> HIDE DEF ApHandler, ApIdle
      <4> QED
        BY <3>1, ApLoopTyped
    <3> QED
      BY <3>2, <3>3, <3>4
  <2> QED
    BY <1>1, <2>1, <2>2, <2>3 DEF ApPlan
<1>2. CASE ApInsert
  <2>1. CASE ApRefused
    <3>1. apTask' \in {apTask, [apTask EXCEPT ![apLoop.task] = "failed"]}
      BY <1>2, <2>1 DEF ApInsert
    <3>2. apLoop' = ApIdle /\ UNCHANGED <<apRow, apRun, apSrt, apDub>>
      BY <1>2, <2>1 DEF ApInsert
    <3> QED
      BY <3>1, <3>2
  <2>2. CASE ~ApRefused
    <3> PICK j \in ApRows :
               /\ apRow' = [apRow EXCEPT ![j] = [status |-> "pending", task |-> 0]]
               /\ apLoop' = [apLoop EXCEPT !.at = "bind", !.row = j]
      BY <1>2, <2>2 DEF ApInsert, ApNewRow, ApNew
    <3>1. apDub' = FALSE /\ UNCHANGED <<apTask, apRun, apSrt>>
      BY <1>2, <2>2 DEF ApInsert
    <3> QED
      BY <3>1
  <2> QED
    BY <2>1, <2>2
<1>3. CASE ApBind
  BY <1>3 DEF ApBind
<1>4. CASE ApTell
  BY <1>4 DEF ApTell
<1>5. CASE ApStart
  <2> PICK replace \in BOOLEAN, t \in ApIds :
             /\ apTask' \in {apTask, [apTask EXCEPT ![t] = "requested"]}
             /\ apLoop' = [ApIdle EXCEPT !.at = "insert", !.task = t, !.by = "start",
                                         !.replace = replace]
    BY <1>5 DEF ApStart, ApActive, ApNewTask, ApNew
  <2>1. UNCHANGED <<apRow, apRun, apSrt, apDub>>
    BY <1>5 DEF ApStart
  <2>2. apLoop' \in ApHandler
    OBVIOUS
  <2> QED
    BY <2>1, <2>2
<1>6. CASE ApCreate
  BY <1>6, ZenonT(40) DEF ApCreate, ApNewTask, ApNew
<1>7. ASSUME NEW t \in ApIds, ApReplan(t) \/ ApRetryTask(t) \/ ApCancelTask(t) PROVE ApTypeOK'
  <2>1. CASE ApReplan(t)
    BY <2>1 DEF ApReplan
  <2>2. CASE ApRetryTask(t)
    <3>1. apTask' \in {apTask, [apTask EXCEPT ![t] = "planning"]}
      BY <2>2 DEF ApRetryTask
    <3>2. apLoop' = [ApIdle EXCEPT !.at = "plan", !.task = t]
      BY <2>2 DEF ApRetryTask
    <3>3. apLoop' \in ApHandler
      BY <3>2
    <3>4. apTask' \in [ApIds -> ApWorking \cup {"none", "blocked", "failed", "completed",
                                               "cancelled"}]
      BY <3>1
    <3>5. UNCHANGED <<apRow, apRun, apSrt, apDub>>
      BY <2>2 DEF ApRetryTask
    <3> QED
      BY <3>3, <3>4, <3>5
  <2>3. CASE ApCancelTask(t)
    <3>1. apRow' \in [ApRows -> [status : {"none", "pending", "processing", "completed",
                                          "failed", "cancelled"}, task : {0} \cup ApIds]]
      BY <2>3 DEF ApCancelTask
    <3> QED
      BY <2>3, <3>1 DEF ApCancelTask
  <2> QED
    BY <1>7, <2>1, <2>2, <2>3
<1>8. ASSUME NEW j \in ApRows, ApRetryJob(j) \/ ApCancelJob(j) \/ ApClaim(j) PROVE ApTypeOK'
  <2>1. CASE ApRetryJob(j)
    BY <2>1 DEF ApRetryJob
  <2>2. CASE ApCancelJob(j)
    BY <2>2 DEF ApCancelJob
  <2>3. CASE ApClaim(j)
    <3>1. \E s \in {"cancelled", "processing"} :
            apRow' = [apRow EXCEPT ![j].status = s]
      BY <2>3 DEF ApClaim
    <3>2. apRun' \in {apRun, apRun \cup {j}} /\ UNCHANGED <<apTask, apSrt, apDub, apLoop>>
      BY <2>3 DEF ApClaim
    <3> QED
      BY <3>1, <3>2
  <2> QED
    BY <1>8, <2>1, <2>2, <2>3
<1>9. ASSUME NEW j \in ApRows, ApRunEnds(j) PROVE ApTypeOK'
  <2>1. apRow' = apRow \/ \E s \in {"completed", "failed"} :
                              apRow' = [apRow EXCEPT ![j].status = s]
    BY <1>9 DEF ApRunEnds
  <2>2. apDub' \in BOOLEAN
    BY <1>9, Zenon DEF ApRunEnds
  <2>3. apLoop' = ApIdle \/ (apRow[j].task \in ApIds
                             /\ apLoop' = [ApIdle EXCEPT !.at = "plan", !.task = apRow[j].task])
    BY <1>9 DEF ApRunEnds
  <2>4. apRun' = apRun \ {j} /\ UNCHANGED <<apTask, apSrt>>
    BY <1>9 DEF ApRunEnds
  <2>5. apLoop' \in ApHandler
    <3> HIDE DEF ApHandler, ApIdle
    <3> QED
      BY <2>3, ApLoopTyped
  <2>6. apRow' \in [ApRows -> [status : {"none", "pending", "processing", "completed", "failed",
                                        "cancelled"}, task : {0} \cup ApIds]]
    BY <2>1
  <2> QED
    BY <2>2, <2>4, <2>5, <2>6
<1>10. CASE ApRestart
  BY <1>10 DEF ApRestart
<1>11. CASE ApSubtitle \/ UNCHANGED apVars
  BY <1>11 DEF ApSubtitle, apVars
<1> QED
  BY <1>1, <1>2, <1>3, <1>4, <1>5, <1>6, <1>7, <1>8, <1>9, <1>10, <1>11 DEF ApNext, ApHandled

LEMMA ApStep == ApInv /\ [ApNext]_apVars => ApInv'
<1> SUFFICES ASSUME ApInv, [ApNext]_apVars PROVE (ApRowsFollowTasks /\ ApNoneWhilePlanning)'
  BY ApTypeStep DEF ApInv
<1> DEFINE Goal == (ApRowsFollowTasks /\ ApNoneWhilePlanning)'
<1> USE DEF ApInv, ApTypeOK, ApRowsFollowTasks, ApNoneWhilePlanning, ApOpenOf, ApOpen, ApActive,
            ApFiles, ApReturns, ApIdle, ApSet, ApPlans, ApHandler, ApWorking
<1>1. ASSUME NEW t \in ApIds, ApPlan(t) PROVE Goal
  <2>1. CASE ApBegin(t)
    BY <2>1 DEF ApBegin
  <2>2. CASE ApOver(t)
    BY <2>2 DEF ApOver
  <2>3. CASE ApLook(t)
    BY <2>3 DEF ApLook
  <2> QED
    BY <1>1, <2>1, <2>2, <2>3 DEF ApPlan
<1>2. CASE ApInsert
  <2>1. CASE ApRefused
    BY <1>2, <2>1 DEF ApInsert
  <2>2. CASE ~ApRefused
    <3> PICK j \in ApRows :
               /\ apRow' = [apRow EXCEPT ![j] = [status |-> "pending", task |-> 0]]
               /\ apLoop' = [apLoop EXCEPT !.at = "bind", !.row = j]
      BY <1>2, <2>2 DEF ApInsert, ApNewRow, ApNew
    <3>1. apTask' = apTask
      BY <1>2, <2>2 DEF ApInsert
    <3> QED
      BY <3>1
  <2> QED
    BY <2>1, <2>2
<1>3. CASE ApBind
  BY <1>3 DEF ApBind
<1>4. CASE ApTell
  BY <1>4 DEF ApTell
<1>5. CASE ApStart
  BY <1>5 DEF ApStart, ApNewTask, ApNew
<1>6. CASE ApCreate
  BY <1>6 DEF ApCreate, ApNewTask, ApNew
<1>7. ASSUME NEW t \in ApIds, ApReplan(t) \/ ApRetryTask(t) PROVE Goal
  <2>1. /\ apTask' = apTask \/ apTask' = [apTask EXCEPT ![t] = "planning"]
        /\ apRow' = apRow
    BY <1>7 DEF ApReplan, ApRetryTask
  <2>2. apLoop' = [ApIdle EXCEPT !.at = "plan", !.task = t]
    BY <1>7 DEF ApReplan, ApRetryTask
  <2>3. apLoop'.at = "plan"
    BY <2>2
  <2> QED
    BY <2>1, <2>3
<1>8. ASSUME NEW t \in ApIds, ApCancelTask(t) PROVE Goal
  BY <1>8 DEF ApCancelTask
<1>9. ASSUME NEW j \in ApRows, ApRetryJob(j) \/ ApCancelJob(j) PROVE Goal
  <2>1. CASE ApRetryJob(j)
    <3>1. apLoop'.by = "retry" /\ UNCHANGED <<apTask, apRow>>
      BY <2>1 DEF ApRetryJob
    <3> QED
      BY <3>1
  <2>2. CASE ApCancelJob(j)
    BY <2>2 DEF ApCancelJob
  <2> QED
    BY <1>9, <2>1, <2>2
<1>10. ASSUME NEW j \in ApRows, ApClaim(j) PROVE Goal
  <2>1. \E s \in {"cancelled", "processing"} :
          apRow' = [apRow EXCEPT ![j].status = s]
    BY <1>10 DEF ApClaim
  <2>2. apLoop.at = "idle" /\ apRow[j].status = "pending" /\ UNCHANGED <<apTask, apLoop>>
    BY <1>10 DEF ApClaim, ApFree
  <2> QED
    BY <2>1, <2>2
<1>11. ASSUME NEW j \in ApRows, ApRunEnds(j) PROVE Goal
  <2>1. \/ apRow' = apRow
        \/ \E s \in {"completed", "failed"} :
             apRow' = [apRow EXCEPT ![j].status = s]
    BY <1>11 DEF ApRunEnds
  <2>2. apTask' = apTask
    BY <1>11 DEF ApRunEnds
  <2>3. apLoop' = ApIdle \/ apLoop' = [ApIdle EXCEPT !.at = "plan", !.task = apRow[j].task]
    BY <1>11 DEF ApRunEnds
  <2>4. apLoop'.at # "insert"
    <3>1. CASE apLoop' = ApIdle
      BY <3>1
    <3>2. CASE apLoop' = [ApIdle EXCEPT !.at = "plan", !.task = apRow[j].task]
      BY <3>2
    <3> QED
      BY <2>3, <3>1, <3>2
  <2> QED
    BY <2>1, <2>2, <2>4
<1>12. CASE ApRestart
  BY <1>12 DEF ApRestart
<1>13. CASE ApSubtitle \/ UNCHANGED apVars
  BY <1>13 DEF ApSubtitle, apVars
<1> QED
  BY <1>1, <1>2, <1>3, <1>4, <1>5, <1>6, <1>7, <1>8, <1>9, <1>10, <1>11, <1>12, <1>13
     DEF ApNext, ApHandled

\* No dub stays open for a task that is cancelled, failed or completed, however
\* threads cancel between the commits of a handler.
THEOREM RowsFollowTasks == ApSpec => []ApRowsFollowTasks
<1>1. ApInv => ApRowsFollowTasks
  BY DEF ApInv
<1> QED
  BY ApInitial, ApStep, <1>1, PTL DEF ApSpec
-----------------------------------------------------------------------------
(* One localization task.                                                  *)

USE TaskPlannerAssumption, NoneAssumption
-----------------------------------------------------------------------------
(* How a call of plan() goes on.                                          *)

LEMMA GoWithOK ==
  ASSUME CallsOK, NEW p \in Planners, turn \in {None, p},
         NEW place \in Places \ {"write"}, NEW s \in Snapshots, GoWith(p, place, s)
  PROVE  CallsOK'
<1> USE DEF CallsOK, GoWith
<1>1. at' \in [Planners -> Places] /\ snap' \in [Planners -> Snapshots]
  OBVIOUS
<1>2. turn' \in Planners \cup {None} /\ draft' = None
  OBVIOUS
<1>3. \A q \in Planners : at'[q] \in Holding <=> turn' = q
  <2> TAKE q \in Planners
  <2>1. CASE q = p
    BY <2>1
  <2>2. CASE q # p
    BY <2>2
  <2> QED
    BY <2>1, <2>2
<1>4. \A q \in Planners : at'[q] # "write"
  <2> TAKE q \in Planners
  <2>1. CASE q = p
    BY <2>1
  <2>2. CASE q # p
    BY <2>2 DEF Holding
  <2> QED
    BY <2>1, <2>2
<1> QED
  BY <1>1, <1>2, <1>3, <1>4

LEMMA GoOK ==
  ASSUME CallsOK, NEW p \in Planners, turn \in {None, p},
         NEW place \in Places \ {"write"}, Go(p, place)
  PROVE  CallsOK' /\ draft' = None /\ at' = [at EXCEPT ![p] = place]
<1>1. NoSnapshot \in Snapshots
  BY DEF NoSnapshot, Snapshots
<1>2. snap[p] \in Snapshots
  BY DEF CallsOK
<1>3. (IF place = "idle" THEN NoSnapshot ELSE snap[p]) \in Snapshots
  BY <1>1, <1>2
<1>4. GoWith(p, place, IF place = "idle" THEN NoSnapshot ELSE snap[p])
  BY DEF Go
<1>5. CallsOK'
  BY <1>3, <1>4, GoWithOK
<1> QED
  BY <1>4, <1>5 DEF GoWith

LEMMA DecidedOK ==
  ASSUME CallsOK, NEW p \in Planners, turn \in {None, p},
         NEW to \in TaskStatuses, NEW then \in Places \ {"write"}, Decided(p, to, then)
  PROVE  CallsOK' /\ draft'.to = to /\ at' = [at EXCEPT ![p] = "write"]
<1> USE DEF CallsOK, Decided
<1>1. "write" \in Places /\ "write" \in Holding
  BY DEF Places, Holding
<1>2. at' \in [Planners -> Places] /\ snap' \in [Planners -> Snapshots]
  BY <1>1
<1>3. draft' \in Drafts
  BY DEF Drafts
<1>4. \A q \in Planners : at'[q] \in Holding <=> turn' = q
  <2> TAKE q \in Planners
  <2>1. CASE q = p
    BY <1>1, <2>1
  <2>2. CASE q # p
    BY <2>2
  <2> QED
    BY <2>1, <2>2
<1>5. at'[p] = "write"
  BY <1>1
<1> QED
  BY <1>2, <1>3, <1>4, <1>5

(* What every step of a call of plan() leaves: a decided transition is one the *)
(* table allows, and a task is completed, or its extracted source discarded, *)
(* only when Bazarr lists the target.                                     *)
Moved(p) ==
  /\ CallsOK'
  /\ \E place \in Places : /\ at' = [at EXCEPT ![p] = place]
                           /\ place = "finishing" => bazarr
  /\ draft' # None => /\ draft'.to \in Allowed[status]
                      /\ draft'.to = "completed" => bazarr
                      /\ draft'.then = "finishing" => bazarr

LEMMA GoMoved ==
  ASSUME CallsOK, NEW p \in Planners, turn \in {None, p},
         NEW place \in Places \ {"write"}, Go(p, place), place = "finishing" => bazarr
  PROVE  Moved(p)
BY GoOK DEF Moved

LEMMA DecidedMoved ==
  ASSUME CallsOK, NEW p \in Planners, turn \in {None, p},
         NEW to \in TaskStatuses, NEW then \in Places \ {"write"}, Decided(p, to, then),
         to \in Allowed[status], to = "completed" => bazarr, then = "finishing" => bazarr
  PROVE  Moved(p)
<1>1. "write" \in Places /\ "write" # "finishing"
  BY DEF Places, Holding
<1>2. draft' = [to |-> to, then |-> then]
  BY DEF Decided
<1> QED
  BY <1>1, <1>2, DecidedOK DEF Moved

LEMMA TransitionMoved ==
  ASSUME CallsOK, NEW p \in Planners, turn \in {None, p},
         NEW to \in TaskStatuses, NEW then \in Places \ {"write"}, Transition(p, to, then),
         to = "completed" => bazarr, then = "finishing" => bazarr
  PROVE  Moved(p)
<1>0. /\ "idle" \in Places \ {"write"} /\ "idle" # "finishing"
      /\ "failed" \in TaskStatuses /\ "failed" # "completed"
  BY DEF Places, Awaits, Holding, TaskStatuses
<1>1. CASE status = to
  <2>1. Go(p, then)
    BY <1>1 DEF Transition
  <2> QED
    BY <2>1, GoMoved
<1>2. CASE status # to /\ to \in Allowed[status]
  <2>1. Decided(p, to, then)
    BY <1>2 DEF Transition
  <2> QED
    BY <1>2, <2>1, DecidedMoved
<1>3. CASE status # to /\ to \notin Allowed[status]
  <2>1. Raise(p)
    BY <1>3 DEF Transition
  <2>2. CASE snap[p].enqueuing /\ "failed" \in Allowed[status]
    <3>1. Decided(p, "failed", "idle")
      BY <2>1, <2>2 DEF Raise
    <3> QED
      BY <1>0, <2>2, <3>1, DecidedMoved
  <2>3. CASE ~(snap[p].enqueuing /\ "failed" \in Allowed[status])
    <3>1. Go(p, "idle")
      BY <2>1, <2>3 DEF Raise
    <3> QED
      BY <1>0, <3>1, GoMoved
  <2> QED
    BY <2>2, <2>3
<1> QED
  BY <1>1, <1>2, <1>3

(* The states and places that the code names.                              *)
LEMMA Named ==
  /\ {"planning", "waiting_for_source", "processing", "verifying", "completed", "failed",
      "blocked", "cancelled"} \subseteq TaskStatuses
  /\ Awaits \cup {"idle", "look", "translate"} \subseteq Places \ {"write"}
  /\ "finishing" \in Awaits
BY DEF TaskStatuses, Active, Places, Awaits, Holding

LEMMA SyncMoved ==
  ASSUME CallsOK, NEW p \in Planners, turn \in {None, p}, SyncStatusFromJob(p)
  PROVE  Moved(p)
<1>1. CASE status \in Active
  <2>1. Transition(p, "processing", "idle")
    BY <1>1 DEF SyncStatusFromJob
  <2> QED
    BY <2>1, Named, TransitionMoved
<1>2. CASE status \notin Active
  <2>1. Go(p, "idle")
    BY <1>2 DEF SyncStatusFromJob
  <2> QED
    BY <2>1, Named, GoMoved
<1> QED
  BY <1>1, <1>2

LEMMA GiveUpMoved ==
  ASSUME CallsOK, NEW p \in Planners, turn \in {None, p}, GiveUp(p)
  PROVE  Moved(p)
<1> DEFINE to == IF given.manual /\ status # "planning" THEN "failed" ELSE "waiting_for_source"
<1>1. to \in TaskStatuses /\ to # "completed"
  BY Named
<1>2. Transition(p, to, "idle")
  BY DEF GiveUp
<1> HIDE DEF to
<1> QED
  BY <1>1, <1>2, Named, TransitionMoved

LEMMA AfterSourceNotFoundMoved ==
  ASSUME CallsOK, NEW p \in Planners, turn \in {None, p}, AfterSourceNotFound(p)
  PROVE  Moved(p)
<1> DEFINE free == given.transcribable /\ ~given.embedded /\ ~srt /\ ~target
           place == IF free THEN "gate" ELSE "denied"
<1>1. SyncStatusFromJob(p) \/ GiveUp(p) \/ Go(p, place)
  BY DEF AfterSourceNotFound
<1>2. place \in Places \ {"write"} /\ place # "finishing"
  BY Named DEF Awaits
<1> HIDE DEF place
<1> QED
  BY <1>1, <1>2, SyncMoved, GiveUpMoved, GoMoved

LEMMA RequestSourceMoved ==
  ASSUME CallsOK, NEW p \in Planners, turn \in {None, p}, RequestSource(p)
  PROVE  Moved(p)
<1>1. \/ AfterSourceNotFound(p)
      \/ Transition(p, "waiting_for_source", "idle")
      \/ Transition(p, "processing", "request")
  BY DEF RequestSource, NoSource
<1>2. "request" \in Places \ {"write"} /\ "request" # "finishing"
  BY Named DEF Awaits
<1> QED
  BY <1>1, <1>2, Named, AfterSourceNotFoundMoved, TransitionMoved
-----------------------------------------------------------------------------
(* The job rows.                                                          *)

LEMMA JobsFacts ==
  ASSUME TaskOK, JobsOK
  PROVE  /\ jobs \in Seq(JobRows)
         /\ \A i \in DOMAIN jobs : jobs[i] \in JobRows
         /\ \A k \in Kinds, s \in JobStatuses : NewJob(k, s) \in JobRows
         /\ {"pending", "processing", "completed", "failed", "cancelled", "skipped",
             "not_found"} \subseteq JobStatuses
<1>1. jobs \in Seq(JobRows)
  BY DEF JobsOK
<1>2. \A i \in DOMAIN jobs : jobs[i] \in JobRows
  BY <1>1
<1>3. ASSUME NEW k \in Kinds, NEW s \in JobStatuses PROVE NewJob(k, s) \in JobRows
  <2>1. (status \in Active) \in BOOLEAN
    OBVIOUS
  <2> QED
    BY <2>1 DEF JobRows, NewJob
<1>4. {"pending", "processing", "completed", "failed", "cancelled", "skipped",
       "not_found"} \subseteq JobStatuses
  BY DEF JobStatuses, OpenStatuses
<1> QED
  BY <1>1, <1>2, <1>3, <1>4

LEMMA BindOK ==
  ASSUME TaskOK, JobsOK, NEW i \in OpenJobs, Bind(i)
  PROVE  jobs' \in Seq(JobRows) /\ Len(jobs') = Len(jobs)
<1>1. i \in DOMAIN jobs
  BY DEF OpenJobs
<1>2. jobs[i] \in JobRows
  BY <1>1, JobsFacts
<1>3. [jobs[i] EXCEPT !.attached = @ \/ status \in Active] \in JobRows
  BY <1>2 DEF JobRows
<1>4. jobs' = [jobs EXCEPT ![i] = [jobs[i] EXCEPT !.attached = @ \/ status \in Active]]
  BY <1>1, <1>2 DEF Bind
<1> QED
  BY <1>1, <1>3, <1>4, JobsFacts

LEMMA CreateJobOK ==
  ASSUME TaskOK, JobsOK, NEW k \in Kinds, CreateJob(k)
  PROVE  jobs' \in Seq(JobRows) /\ Len(jobs') <= MaxJobs
<1>1. CASE OpenOf(k) # {}
  <2>1. PICK i \in OpenOf(k) : Bind(i)
    BY <1>1 DEF CreateJob
  <2>2. i \in OpenJobs
    BY <2>1 DEF OpenOf
  <2> QED
    BY <2>1, <2>2, BindOK DEF JobsOK
<1>2. CASE OpenOf(k) = {}
  <2>1. Len(jobs) < MaxJobs /\ jobs' = Append(jobs, NewJob(k, "pending"))
    BY <1>2 DEF CreateJob
  <2> QED
    BY <2>1, JobsFacts
<1> QED
  BY <1>1, <1>2

LEMMA SkipOK ==
  ASSUME TaskOK, JobsOK, NEW k \in Kinds, Skip(k)
  PROVE  jobs' \in Seq(JobRows) /\ Len(jobs') <= MaxJobs
<1>1. CASE UNCHANGED jobs
  BY <1>1 DEF JobsOK
<1>2. CASE Len(jobs) < MaxJobs /\ jobs' = Append(jobs, NewJob(k, "skipped"))
  BY <1>2, JobsFacts
<1> QED
  BY <1>1, <1>2 DEF Skip

LEMMA EndJobOK ==
  ASSUME TaskOK, JobsOK, NEW i \in DOMAIN jobs, NEW s \in JobStatuses, EndJob(i, s)
  PROVE  jobs' \in Seq(JobRows) /\ Len(jobs') <= MaxJobs
<1>1. jobs[i] \in JobRows
  BY JobsFacts
<1>2. [jobs[i] EXCEPT !.status = s] \in JobRows
  BY <1>1 DEF JobRows
<1>3. jobs' = [jobs EXCEPT ![i] = [jobs[i] EXCEPT !.status = s]]
  BY DEF EndJob
<1> QED
  BY <1>2, <1>3, JobsFacts DEF JobsOK

LEMMA CancelledRowsOK ==
  ASSUME TaskOK, JobsOK, CancelWrite
  PROVE  jobs' \in Seq(JobRows) /\ Len(jobs') = Len(jobs)
<1> DEFINE row(i) == IF i \in cancelling.jobs THEN [jobs[i] EXCEPT !.status = "cancelled"]
                                              ELSE jobs[i]
<1>1. jobs' = [i \in 1..Len(jobs) |-> row(i)]
  BY JobsFacts DEF CancelWrite
<1>2. \A i \in 1..Len(jobs) : row(i) \in JobRows
  BY JobsFacts DEF JobRows
<1> HIDE DEF row
<1> QED
  BY <1>1, <1>2, JobsFacts
-----------------------------------------------------------------------------
(* The compound steps of a call of plan().                                *)

LEMMA RecordVerifyFailureOK ==
  ASSUME TypeOK, NEW p \in Planners, turn \in {None, p}, RecordVerifyFailure(p)
  PROVE  Moved(p) /\ verifies' \in 0..(VerifyMax + 1) /\ due' \in BOOLEAN
<1> DEFINE to == IF verifies + 1 >= VerifyMax THEN "blocked" ELSE "verifying"
<1>1. to \in TaskStatuses /\ to # "completed"
  BY Named
<1>2. Transition(p, to, "idle")
  BY DEF RecordVerifyFailure
<1>3. Moved(p)
  <2> HIDE DEF to
  <2> QED
    BY <1>1, <1>2, Named, TransitionMoved DEF TypeOK
<1>4. verifies \in 0..(VerifyMax + 1) /\ VerifyMax \in Nat
  BY DEF TypeOK, TaskOK
<1>5. /\ verifies' = IF verifies + 1 > VerifyMax + 1 THEN verifies ELSE verifies + 1
      /\ due' = FALSE
  BY DEF RecordVerifyFailure
<1>6. verifies' \in 0..(VerifyMax + 1)
  BY <1>4, <1>5
<1>7. due' \in BOOLEAN
  BY <1>5
<1> QED
  BY <1>3, <1>6, <1>7

LEMMA AdvanceVerifyMoved ==
  ASSUME CallsOK, NEW p \in Planners, turn \in {None, p}, AdvanceVerify(p)
  PROVE  Moved(p)
<1>1. "rescan" \in Places \ {"write"} /\ "rescan" # "finishing"
  BY Named DEF Awaits
<1> QED
  BY <1>1, Named, TransitionMoved DEF AdvanceVerify

LEMMA CompleteOK ==
  ASSUME TypeOK, NEW p \in Planners, turn \in {None, p}, NEW discard, Complete(p, discard), bazarr
  PROVE  Moved(p) /\ verifies' \in 0..(VerifyMax + 1) /\ due' \in BOOLEAN /\ srt' \in BOOLEAN
<1>1. Go(p, "finishing") \/ Transition(p, "completed", "idle")
  BY DEF Complete
<1>2. srt' \in BOOLEAN
  BY DEF Complete, TypeOK, WorldOK
<1>3. verifies' = 0 /\ due' = TRUE
  BY DEF Complete
<1>4. Moved(p)
  BY <1>1, Named, GoMoved, TransitionMoved DEF TypeOK
<1> QED
  BY <1>2, <1>3, <1>4

LEMMA TranslateRowOK ==
  ASSUME TypeOK, NEW p \in Planners, turn \in {None, p}, TranslateRow(p)
  PROVE  Moved(p) /\ jobs' \in Seq(JobRows) /\ Len(jobs') <= MaxJobs
<1>1. "translate" \in Kinds
  BY DEF Kinds
<1>2. CASE target
  <2> DEFINE s == [snap[p] EXCEPT !.enqueuing = TRUE]
  <2>1. Skip("translate") /\ GoWith(p, "exists", s)
    BY <1>2 DEF TranslateRow
  <2>2. s \in Snapshots
    BY DEF TypeOK, CallsOK, Snapshots
  <2>3. "exists" \in Places \ {"write"} /\ "exists" # "finishing"
    BY Named DEF Awaits
  <2>4. CallsOK' /\ draft' = None /\ at' = [at EXCEPT ![p] = "exists"]
    <3> HIDE DEF s
    <3> QED
      BY <2>1, <2>2, <2>3, GoWithOK DEF TypeOK, GoWith
  <2> QED
    BY <1>1, <2>1, <2>3, <2>4, SkipOK DEF TypeOK, Moved
<1>3. CASE ~target
  <2>1. (Skip("translate") \/ CreateJob("translate")) /\ Go(p, "idle")
    BY <1>3 DEF TranslateRow
  <2> QED
    BY <1>1, <2>1, Named, GoMoved, SkipOK, CreateJobOK DEF TypeOK
<1> QED
  BY <1>2, <1>3
-----------------------------------------------------------------------------
(* The inductive invariant: every place that leads to a completed task is one that *)
(* only a listed target leads to.                                         *)
ListedIInv ==
  /\ TypeOK
  /\ CompletedIsListed
  /\ draft # None => /\ draft.to = "completed" => bazarr
                     /\ draft.then = "finishing" => bazarr
  /\ \A p \in Planners : at[p] = "finishing" => bazarr

(* One step of a call of plan(), but the write of a decided transition.     *)
Stepped(p) ==
  TaskOK' /\ JobsOK' /\ WorldOK' /\ UsersOK' /\ Moved(p) /\ status' = status /\ (bazarr => bazarr')

LEMMA AnswersAreListings ==
  ASSUME WorldOK
  PROVE  \A present \in Answers : present \in BOOLEAN /\ (present => bazarr)
<1>1. bazarr \in BOOLEAN
  BY DEF WorldOK
<1>2. CASE bazarr = TRUE
  BY <1>2 DEF Answers
<1>3. CASE bazarr = FALSE
  BY <1>3 DEF Answers
<1> QED
  BY <1>1, <1>2, <1>3

LEMMA PlanStepped ==
  ASSUME ListedIInv, NEW p \in Planners, Plan(p)
  PROVE  Write(p) \/ Stepped(p)
<1> USE DEF Stepped, taskVars, jobVars, worldVars, userVars
<1>0. /\ TypeOK /\ TaskOK /\ JobsOK /\ WorldOK /\ UsersOK /\ CallsOK
      /\ {"translate", "extract", "request", "transcribe"} \subseteq Kinds
  BY DEF ListedIInv, TypeOK, Kinds
<1>1. CASE Begin(p)
  <2>1. /\ turn \in {None, p}
        /\ \/ Go(p, "reviving") \/ Go(p, "look")
           \/ Transition(p, "planning", "look")
    BY <1>1 DEF Begin, Resumed
  <2>2. Moved(p)
    BY <1>0, <2>1, Named, GoMoved, TransitionMoved DEF Awaits
  <2> QED
    BY <1>0, <1>1, <2>2 DEF Begin, TaskOK, JobsOK, WorldOK, UsersOK
<1>2. CASE Look(p)
  <2>1. turn \in {None, p} /\ (SyncStatusFromJob(p) \/ Go(p, "checking"))
    BY <1>2 DEF Look
  <2>2. Moved(p)
    BY <1>0, <2>1, Named, GoMoved, SyncMoved DEF Awaits
  <2> QED
    BY <1>0, <1>2, <2>2 DEF Look, TaskOK, JobsOK, WorldOK, UsersOK
<1>3. CASE Revive(p)
  <2>1. /\ turn \in {None, p}
        /\ \/ Go(p, "idle") /\ UNCHANGED <<verifies, due>>
           \/ bazarr /\ Transition(p, "completed", "idle") /\ verifies' = 0 /\ due' = TRUE
    BY <1>0, <1>3, AnswersAreListings DEF Revive, Resumed
  <2>2. Moved(p)
    BY <1>0, <2>1, Named, GoMoved, TransitionMoved
  <2>3. verifies' \in 0..(VerifyMax + 1) /\ due' \in BOOLEAN
    <3>1. CASE UNCHANGED <<verifies, due>>
      BY <1>0, <3>1 DEF TaskOK
    <3>2. CASE verifies' = 0 /\ due' = TRUE
      BY <3>2
    <3> QED
      BY <2>1, <3>1, <3>2
  <2> QED
    BY <1>0, <1>3, <2>2, <2>3 DEF Revive, TaskOK, JobsOK, WorldOK, UsersOK
<1>4. CASE Finish(p)
  <2>1. turn \in {None, p} /\ bazarr /\ Transition(p, "completed", "idle")
    BY <1>4 DEF Finish, Resumed, ListedIInv
  <2>2. Moved(p)
    BY <1>0, <2>1, Named, TransitionMoved
  <2> QED
    BY <1>0, <1>4, <2>2 DEF Finish, TaskOK, JobsOK, WorldOK, UsersOK
<1>5. CASE Rescan(p)
  <2>1. turn \in {None, p} /\ bazarr' \in {bazarr, bazarr \/ target}
    BY <1>5 DEF Rescan, Resumed
  <2>2. \/ verifies' = 0 /\ due' = TRUE /\ Go(p, "recheck")
        \/ RecordVerifyFailure(p)
    BY <1>5 DEF Rescan
  <2>3. Moved(p) /\ verifies' \in 0..(VerifyMax + 1) /\ due' \in BOOLEAN
    <3>1. CASE verifies' = 0 /\ due' = TRUE /\ Go(p, "recheck")
      <4>1. Moved(p)
        BY <1>0, <2>1, <3>1, Named, GoMoved DEF Awaits
      <4>2. verifies' \in 0..(VerifyMax + 1)
        BY <3>1
      <4> QED
        BY <3>1, <4>1, <4>2
    <3>2. CASE RecordVerifyFailure(p)
      BY <1>0, <2>1, <3>2, RecordVerifyFailureOK
    <3> QED
      BY <2>2, <3>1, <3>2
  <2>4. bazarr' \in BOOLEAN /\ (bazarr => bazarr')
    BY <1>0, <2>1 DEF WorldOK
  <2> QED
    BY <1>0, <1>5, <2>3, <2>4 DEF Rescan, TaskOK, JobsOK, WorldOK, UsersOK
<1>6. CASE Recheck(p)
  <2>1. turn \in {None, p}
    BY <1>6 DEF Recheck, Resumed
  <2>2. \/ bazarr /\ Complete(p, TRUE)
        \/ RecordVerifyFailure(p) /\ UNCHANGED srt
    BY <1>0, <1>6, AnswersAreListings DEF Recheck
  <2>3. /\ Moved(p) /\ verifies' \in 0..(VerifyMax + 1) /\ due' \in BOOLEAN
        /\ srt' \in BOOLEAN
    BY <1>0, <2>1, <2>2, CompleteOK, RecordVerifyFailureOK DEF WorldOK
  <2> QED
    BY <1>0, <1>6, <2>3 DEF Recheck, TaskOK, JobsOK, WorldOK, UsersOK
<1>7. CASE Check(p)
  <2>1. turn \in {None, p}
    BY <1>7 DEF Check, Resumed
  <2>2. \/ bazarr /\ Complete(p, Done("translate") /\ target)
        \/ /\ UNCHANGED <<verifies, due, srt>>
           /\ \/ AdvanceVerify(p) \/ Go(p, "idle") \/ Go(p, "resolving")
              \/ Transition(p, "failed", "idle")
    BY <1>0, <1>7, AnswersAreListings DEF Check
  <2>3. /\ Moved(p) /\ verifies' \in 0..(VerifyMax + 1) /\ due' \in BOOLEAN
        /\ srt' \in BOOLEAN
    <3>1. CASE bazarr /\ Complete(p, Done("translate") /\ target)
      BY <1>0, <2>1, <3>1, CompleteOK
    <3>2. CASE /\ UNCHANGED <<verifies, due, srt>>
               /\ \/ AdvanceVerify(p) \/ Go(p, "idle") \/ Go(p, "resolving")
                  \/ Transition(p, "failed", "idle")
      <4>1. Moved(p)
        BY <1>0, <2>1, <3>2, Named, AdvanceVerifyMoved, GoMoved, TransitionMoved DEF Awaits
      <4> QED
        BY <1>0, <3>2, <4>1 DEF TaskOK, WorldOK
    <3> QED
      BY <2>2, <3>1, <3>2
  <2> QED
    BY <1>0, <1>7, <2>3 DEF Check, TaskOK, JobsOK, WorldOK, UsersOK
<1>8. CASE Resolve(p)
  <2>1. turn \in {None, p}
    BY <1>8 DEF Resolve, Resumed
  <2>2. \E s \in Snapshots : GoWith(p, "resolved", s)
    <3> PICK present \in Answers : GoWith(p, "resolved",
         [exists    |-> target \/ present,
          translate |-> srt,
          extract   |-> ~srt /\ given.embedded,
          request   |-> ~srt /\ ~given.embedded /\ given.requestable,
          enqueuing |-> FALSE])
      BY <1>8 DEF Resolve
    <3> DEFINE r == [exists    |-> target \/ present,
                     translate |-> srt,
                     extract   |-> ~srt /\ given.embedded,
                     request   |-> ~srt /\ ~given.embedded /\ given.requestable,
                     enqueuing |-> FALSE]
    <3>1. /\ (target \/ present) \in BOOLEAN /\ (~srt /\ given.embedded) \in BOOLEAN
          /\ (~srt /\ ~given.embedded /\ given.requestable) \in BOOLEAN /\ srt \in BOOLEAN
      BY <1>0 DEF WorldOK
    <3>2. r \in Snapshots
      BY <3>1 DEF Snapshots
    <3>3. GoWith(p, "resolved", r)
      OBVIOUS
    <3> HIDE DEF r
    <3> QED
      BY <3>2, <3>3
  <2> PICK s \in Snapshots : GoWith(p, "resolved", s)
    BY <2>2
  <2>3. "resolved" \in Places \ {"write"} /\ "resolved" # "finishing"
    BY Named DEF Awaits
  <2>4. CallsOK' /\ draft' = None /\ at' = [at EXCEPT ![p] = "resolved"]
    BY <1>0, <2>1, <2>3, GoWithOK DEF GoWith
  <2>5. Moved(p)
    BY <2>3, <2>4 DEF Moved
  <2> QED
    BY <1>0, <1>8, <2>5 DEF Resolve, TaskOK, JobsOK, WorldOK, UsersOK
<1>9. CASE Decide(p)
  <2>1. turn \in {None, p}
    BY <1>9 DEF Decide, Resumed
  <2>2. \/ /\ UNCHANGED jobs
           /\ \/ Go(p, "exists") \/ Transition(p, "processing", "translate")
              \/ Transition(p, "processing", "extract") \/ RequestSource(p)
        \/ (\E i \in Orphans : Bind(i)) /\ SyncStatusFromJob(p)
    BY <1>9 DEF Decide
  <2>3. Moved(p)
    BY <1>0, <2>1, <2>2, Named, GoMoved, TransitionMoved, RequestSourceMoved, SyncMoved
       DEF Awaits
  <2>4. jobs' \in Seq(JobRows) /\ Len(jobs') <= MaxJobs
    <3>1. CASE UNCHANGED jobs
      BY <1>0, <3>1 DEF JobsOK
    <3>2. CASE \E i \in Orphans : Bind(i)
      <4> PICK i \in Orphans : Bind(i)
        BY <3>2
      <4>1. i \in OpenJobs
        BY DEF Orphans
      <4> QED
        BY <1>0, <4>1, BindOK DEF JobsOK
    <3> QED
      BY <2>2, <3>1, <3>2
  <2> QED
    BY <1>0, <1>9, <2>3, <2>4 DEF Decide, TaskOK, JobsOK, WorldOK, UsersOK
<1>10. CASE Exists(p)
  <2>1. /\ turn \in {None, p}
        /\ (bazarr /\ Transition(p, "completed", "idle")) \/ AdvanceVerify(p)
    BY <1>0, <1>10, AnswersAreListings DEF Exists, Resumed
  <2>2. Moved(p)
    BY <1>0, <2>1, Named, AdvanceVerifyMoved, TransitionMoved
  <2> QED
    BY <1>0, <1>10, <2>2 DEF Exists, TaskOK, JobsOK, WorldOK, UsersOK
<1>11. CASE CreateTranslate(p) \/ CandidateAnswered(p)
  <2>1. /\ turn \in {None, p}
        /\ \/ TranslateRow(p)
           \/ UNCHANGED jobs /\ (Go(p, "candidate") \/ Transition(p, "failed", "idle"))
    BY <1>11 DEF CreateTranslate, CandidateAnswered, Resumed
  <2>2. Moved(p) /\ jobs' \in Seq(JobRows) /\ Len(jobs') <= MaxJobs
    <3>1. CASE TranslateRow(p)
      BY <1>0, <2>1, <3>1, TranslateRowOK
    <3>2. CASE UNCHANGED jobs /\ (Go(p, "candidate") \/ Transition(p, "failed", "idle"))
      BY <1>0, <2>1, <3>2, Named, GoMoved, TransitionMoved DEF Awaits, JobsOK
    <3> QED
      BY <2>1, <3>1, <3>2
  <2> QED
    BY <1>0, <1>11, <2>2 DEF CreateTranslate, CandidateAnswered, TaskOK, JobsOK, WorldOK, UsersOK
<1>12. CASE GateDenied(p)
  <2>1. turn \in {None, p} /\ GiveUp(p)
    BY <1>12 DEF GateDenied, Resumed
  <2>2. Moved(p)
    BY <1>0, <2>1, GiveUpMoved
  <2> QED
    BY <1>0, <1>12, <2>2 DEF GateDenied, TaskOK, JobsOK, WorldOK, UsersOK
<1>13. CASE CreateExtract(p)
  <2>1. /\ turn \in {None, p}
        /\ \/ (Skip("extract") \/ CreateJob("extract")) /\ Go(p, "idle")
           \/ RequestSource(p) /\ UNCHANGED jobs
    BY <1>13 DEF CreateExtract, Resumed
  <2>2. Moved(p)
    BY <1>0, <2>1, Named, GoMoved, RequestSourceMoved
  <2>3. jobs' \in Seq(JobRows) /\ Len(jobs') <= MaxJobs
    BY <1>0, <2>1, SkipOK, CreateJobOK DEF JobsOK
  <2> QED
    BY <1>0, <1>13, <2>2, <2>3 DEF CreateExtract, TaskOK, JobsOK, WorldOK, UsersOK
<1>14. CASE CreateRequest(p)
  <2>1. turn \in {None, p} /\ CreateJob("request") /\ Go(p, "idle")
    BY <1>14 DEF CreateRequest, Resumed
  <2>2. Moved(p) /\ jobs' \in Seq(JobRows) /\ Len(jobs') <= MaxJobs
    BY <1>0, <2>1, Named, GoMoved, CreateJobOK
  <2> QED
    BY <1>0, <1>14, <2>2 DEF CreateRequest, TaskOK, JobsOK, WorldOK, UsersOK
<1>15. CASE SourceEnqueueFailure(p)
  <2> DEFINE to == IF enqueues + 1 >= EnqueueMax THEN "failed" ELSE "waiting_for_source"
  <2>1. turn \in {None, p} /\ Transition(p, to, "idle")
    BY <1>15 DEF SourceEnqueueFailure, Resumed
  <2>2. to \in TaskStatuses /\ to # "completed"
    BY Named
  <2>3. Moved(p)
    <3> HIDE DEF to
    <3> QED
      BY <1>0, <2>1, <2>2, Named, TransitionMoved
  <2>4. enqueues' \in 0..EnqueueMax
    BY <1>0, <1>15 DEF SourceEnqueueFailure, TaskOK
  <2> QED
    BY <1>0, <1>15, <2>3, <2>4 DEF SourceEnqueueFailure, TaskOK, JobsOK, WorldOK, UsersOK
<1>16. CASE CreateTranscribe(p)
  <2>1. /\ turn \in {None, p}
        /\ \/ CreateJob("transcribe") /\ Transition(p, "processing", "idle")
           \/ UNCHANGED jobs /\ GiveUp(p)
    BY <1>16 DEF CreateTranscribe, Resumed
  <2>2. Moved(p)
    BY <1>0, <2>1, Named, GiveUpMoved, TransitionMoved
  <2>3. jobs' \in Seq(JobRows) /\ Len(jobs') <= MaxJobs
    BY <1>0, <2>1, CreateJobOK DEF JobsOK
  <2> QED
    BY <1>0, <1>16, <2>2, <2>3 DEF CreateTranscribe, TaskOK, JobsOK, WorldOK, UsersOK
<1> QED
  BY <1>1, <1>2, <1>3, <1>4, <1>5, <1>6, <1>7, <1>8, <1>9, <1>10, <1>11, <1>12, <1>13, <1>14,
     <1>15, <1>16 DEF Plan
-----------------------------------------------------------------------------
(* The inductive invariant.                                               *)

LEMMA ListedInit == Init => ListedIInv
<1> SUFFICES ASSUME Init PROVE ListedIInv
  OBVIOUS
<1> USE DEF Init
<1>1. TaskOK
  BY Named DEF TaskOK, TaskStatuses, Active
<1>2. JobsOK
  <2>1. jobs \in Seq(JobRows) /\ Len(jobs) = 0
    OBVIOUS
  <2>2. cooling \in BOOLEAN
    OBVIOUS
  <2> QED
    BY <2>1, <2>2 DEF JobsOK
<1>3. WorldOK
  BY DEF WorldOK
<1>4. CallsOK
  <2>1. "idle" \in Places /\ "idle" \notin Holding /\ NoSnapshot \in Snapshots
    BY DEF Places, Holding, NoSnapshot, Snapshots
  <2> QED
    BY <2>1 DEF CallsOK
<1>5. UsersOK
  BY DEF UsersOK
<1>6. TypeOK
  BY <1>1, <1>2, <1>3, <1>4, <1>5 DEF TypeOK
<1> QED
  BY <1>6 DEF ListedIInv, CompletedIsListed

LEMMA WriteListed == ASSUME ListedIInv, NEW p \in Planners, Write(p) PROVE ListedIInv'
<1> USE DEF jobVars, worldVars, userVars
<1>1. /\ turn = p /\ at[p] = "write" /\ draft # None /\ draft \in Drafts
      /\ status' = draft.to /\ Go(p, draft.then)
      /\ UNCHANGED <<verifies, due, enqueues, jobVars, worldVars, userVars>>
  BY DEF Write, ListedIInv, TypeOK, CallsOK
<1>2. draft.to \in TaskStatuses /\ draft.then \in Places \ {"write"}
  BY <1>1 DEF Drafts
<1>3. CallsOK' /\ draft' = None /\ at' = [at EXCEPT ![p] = draft.then]
  BY <1>1, <1>2, GoOK DEF ListedIInv, TypeOK
<1>4. TypeOK'
  BY <1>1, <1>2, <1>3 DEF ListedIInv, TypeOK, TaskOK, JobsOK, WorldOK, UsersOK
<1>5. CompletedIsListed'
  BY <1>1 DEF CompletedIsListed, ListedIInv
<1>6. \A q \in Planners : at'[q] = "finishing" => bazarr
  BY <1>1, <1>3 DEF ListedIInv, TypeOK, CallsOK
<1> QED
  BY <1>1, <1>3, <1>4, <1>5, <1>6 DEF ListedIInv

LEMMA SteppedListed == ASSUME ListedIInv, NEW p \in Planners, Stepped(p) PROVE ListedIInv'
<1>1. TypeOK'
  BY DEF Stepped, Moved, TypeOK
<1>2. CompletedIsListed'
  BY DEF Stepped, CompletedIsListed, ListedIInv
<1>3. PICK place \in Places : at' = [at EXCEPT ![p] = place] /\ (place = "finishing" => bazarr)
  BY DEF Stepped, Moved
<1>4. ASSUME NEW q \in Planners, at'[q] = "finishing" PROVE bazarr'
  BY <1>3, <1>4 DEF ListedIInv, TypeOK, CallsOK, Stepped
<1>5. draft' # None => /\ draft'.to = "completed" => bazarr'
                       /\ draft'.then = "finishing" => bazarr'
  BY DEF Stepped, Moved
<1> QED
  BY <1>1, <1>2, <1>4, <1>5 DEF ListedIInv

(* The steps of the jobs, of users, of time and of Bazarr: the calls of plan() stay *)
(* where they are, and none of these steps completes a task.                *)
LEMMA OthersListed ==
  ASSUME ListedIInv,
         \/ \E i \in 1..MaxJobs : Work(i) \/ CancelJob(i)
         \/ CancelRead \/ CancelWrite \/ PrepareRetry \/ Outside \/ BazarrScans \/ VerifyDue
  PROVE  ListedIInv'
<1> USE DEF taskVars, jobVars, worldVars, planVars, userVars
<1>0. /\ TypeOK /\ TaskOK /\ JobsOK /\ WorldOK /\ UsersOK /\ CallsOK
  BY DEF ListedIInv, TypeOK
<1>1. UNCHANGED planVars
  BY DEF Work, StartJob, JobCompletes, JobFails, RequestNotFound, CancelJob, CancelRead,
         CancelWrite, PrepareRetry, Outside, BazarrScans, VerifyDue
<1>2. bazarr' \in BOOLEAN /\ (bazarr => bazarr') /\ (status' = "completed" => status = "completed")
  BY <1>0 DEF Work, StartJob, JobCompletes, JobFails, RequestNotFound, CancelJob, CancelRead,
         CancelWrite, PrepareRetry, Outside, BazarrScans, VerifyDue, WorldOK
<1>3. TaskOK' /\ JobsOK' /\ WorldOK' /\ UsersOK'
  <2>1. ASSUME NEW i \in 1..MaxJobs, Work(i) \/ CancelJob(i)
        PROVE  TaskOK' /\ JobsOK' /\ WorldOK' /\ UsersOK'
    <3>1. TaskOK' /\ UsersOK'
      BY <1>0, <2>1 DEF Work, StartJob, JobCompletes, JobFails, RequestNotFound, CancelJob,
         TaskOK, UsersOK
    <3>2. cooling' \in BOOLEAN /\ WorldOK'
      BY <1>0, <2>1 DEF Work, StartJob, JobCompletes, JobFails, RequestNotFound, CancelJob,
         JobsOK, WorldOK
    <3>3. i \in DOMAIN jobs /\ \E s \in JobStatuses : EndJob(i, s)
      BY <1>0, <2>1, JobsFacts DEF Work, StartJob, JobCompletes, JobFails, RequestNotFound,
         CancelJob, OpenJobs, EndJob
    <3>4. jobs' \in Seq(JobRows) /\ Len(jobs') <= MaxJobs
      BY <1>0, <3>3, EndJobOK
    <3> QED
      BY <3>1, <3>2, <3>4 DEF JobsOK
  <2>2. CASE CancelRead
    <3>1. cancelling' \in Cancels
      <4>1. OpenJobs \subseteq 1..MaxJobs
        BY <1>0 DEF OpenJobs, JobsOK
      <4> QED
        BY <2>2, <4>1 DEF CancelRead, Cancels
    <3> QED
      BY <1>0, <2>2, <3>1 DEF CancelRead, TaskOK, JobsOK, WorldOK, UsersOK
  <2>3. CASE CancelWrite
    <3>1. jobs' \in Seq(JobRows) /\ Len(jobs') <= MaxJobs
      BY <1>0, <2>3, CancelledRowsOK DEF JobsOK
    <3>2. status' \in TaskStatuses
      BY <1>0, <2>3, Named DEF CancelWrite, TaskOK
    <3> QED
      BY <1>0, <2>3, <3>1, <3>2 DEF CancelWrite, TaskOK, JobsOK, WorldOK, UsersOK
  <2>4. CASE PrepareRetry
    <3>1. status' \in TaskStatuses /\ verifies' \in 0..(VerifyMax + 1) /\ due' \in BOOLEAN
      BY <2>4, Named DEF PrepareRetry
    <3>2. retries' \in 0..MaxRetries
      BY <1>0, <2>4 DEF PrepareRetry, UsersOK
    <3> QED
      BY <1>0, <2>4, <3>1, <3>2 DEF PrepareRetry, TaskOK, JobsOK, WorldOK, UsersOK
  <2>5. CASE Outside
    <3>1. cooling' \in BOOLEAN /\ WorldOK'
      BY <1>0, <2>5 DEF Outside, JobsOK, WorldOK
    <3> QED
      BY <1>0, <2>5, <3>1 DEF Outside, TaskOK, JobsOK, UsersOK
  <2>6. CASE BazarrScans
    BY <1>0, <2>6 DEF BazarrScans, TaskOK, JobsOK, WorldOK, UsersOK
  <2>7. CASE VerifyDue
    <3>1. due' \in BOOLEAN
      BY <2>7 DEF VerifyDue
    <3> QED
      BY <1>0, <2>7, <3>1 DEF VerifyDue, TaskOK, JobsOK, WorldOK, UsersOK
  <2> QED
    BY <2>1, <2>2, <2>3, <2>4, <2>5, <2>6, <2>7
<1>4. CallsOK'
  BY <1>0, <1>1 DEF CallsOK
<1>5. TypeOK'
  BY <1>3, <1>4 DEF TypeOK
<1>6. CompletedIsListed'
  BY <1>2 DEF ListedIInv, CompletedIsListed
<1> QED
  BY <1>1, <1>2, <1>5, <1>6 DEF ListedIInv

LEMMA ListedStep == ListedIInv /\ [Next]_vars => ListedIInv'
<1> SUFFICES ASSUME ListedIInv, [Next]_vars PROVE ListedIInv'
  OBVIOUS
<1>1. CASE UNCHANGED vars
  BY <1>1 DEF vars, taskVars, jobVars, worldVars, planVars, userVars, ListedIInv, TypeOK, TaskOK,
     JobsOK, WorldOK, CallsOK, UsersOK, CompletedIsListed
<1>2. CASE \E p \in Planners : Plan(p)
  BY <1>2, PlanStepped, WriteListed, SteppedListed
<1>3. CASE ~UNCHANGED vars /\ ~\E p \in Planners : Plan(p)
  BY <1>3, OthersListed DEF Next
<1> QED
  BY <1>1, <1>2, <1>3

(* Type correctness: the places of the calls of plan(), whoever holds the loop, *)
(* the decided transition, the rows and the task stay consistent.          *)
THEOREM TypeCorrect == Spec => []TypeOK
<1>1. ListedIInv => TypeOK
  BY DEF ListedIInv
<1> QED
  BY <1>1, ListedInit, ListedStep, PTL DEF Spec

(* A task is completed only when Bazarr lists its target, however many calls of *)
(* plan() are under way (_target_satisfied, _advance_verify).               *)
THEOREM CompletedListed == Spec => []CompletedIsListed
<1>1. ListedIInv => CompletedIsListed
  BY DEF ListedIInv
<1> QED
  BY <1>1, ListedInit, ListedStep, PTL DEF Spec

(* A cancelled task with no transition left to commit is worked on by nobody: the *)
(* table allows none, and only a retry goes past it (transition, cancel).    *)
THEOREM CancelledForGood == Spec => CancelledStays
<1>1. ASSUME ListedIInv, [Next]_vars, Abandoned
      PROVE  Abandoned' \/ retries' > retries
  <2> USE DEF vars, taskVars, jobVars, worldVars, planVars, userVars, Abandoned
  <2>0. status = "cancelled" /\ draft = None
    BY <1>1
  <2>1. CASE UNCHANGED vars
    BY <2>0, <2>1
  <2>2. ASSUME NEW p \in Planners, Plan(p) PROVE Abandoned'
    <3>1. ~Write(p)
      BY <1>1, <2>0 DEF Write, ListedIInv, TypeOK, CallsOK
    <3>2. Stepped(p)
      BY <1>1, <2>2, <3>1, PlanStepped
    <3>3. Allowed["cancelled"] = {}
      BY DEF Allowed
    <3> QED
      BY <2>0, <3>2, <3>3 DEF Stepped, Moved
  <2>3. ASSUME NEW i \in 1..MaxJobs, Work(i) \/ CancelJob(i) PROVE Abandoned'
    BY <2>0, <2>3 DEF Work, StartJob, JobCompletes, JobFails, RequestNotFound, CancelJob
  <2>4. CASE PrepareRetry
    BY <1>1, <2>4 DEF PrepareRetry, ListedIInv, TypeOK, UsersOK
  <2>5. CASE CancelRead \/ CancelWrite \/ Outside \/ BazarrScans \/ VerifyDue
    BY <2>0, <2>5 DEF CancelRead, CancelWrite, Outside, BazarrScans, VerifyDue
  <2> QED
    BY <1>1, <2>1, <2>2, <2>3, <2>4, <2>5 DEF Next
<1>2. ListedIInv /\ [Next]_vars => [Abandoned => Abandoned' \/ retries' > retries]_vars
  BY <1>1
<1> QED
  BY <1>2, ListedInit, ListedStep, PTL DEF Spec, CancelledStays
-----------------------------------------------------------------------------
(* The rows that a call of plan() writes.                                  *)
LEMMA PlanJobs ==
  ASSUME TypeOK, NEW p \in Planners, Plan(p)
  PROVE  \/ UNCHANGED jobs
         \/ \E i \in Orphans : Bind(i)
         \/ \E k \in Kinds : \/ Skip(k)
                             \/ /\ CreateJob(k)
                                /\ k = "translate" => ~target
                                /\ k = "extract" => ~srt
<1> USE DEF jobVars, taskVars
<1>0. {"translate", "extract", "request", "transcribe"} \subseteq Kinds
  BY DEF Kinds
<1>1. CASE \/ Write(p) \/ Begin(p) \/ Look(p) \/ Revive(p) \/ Finish(p) \/ Rescan(p) \/ Recheck(p)
           \/ Check(p) \/ Resolve(p) \/ Exists(p) \/ GateDenied(p) \/ SourceEnqueueFailure(p)
  BY <1>1 DEF Write, Begin, Look, Revive, Finish, Rescan, Recheck, Check, Resolve, Exists,
     GateDenied, SourceEnqueueFailure
<1>2. CASE Decide(p)
  BY <1>2 DEF Decide
<1>3. CASE CreateTranslate(p) \/ CandidateAnswered(p)
  <2>1. TranslateRow(p) \/ UNCHANGED jobs
    BY <1>3 DEF CreateTranslate, CandidateAnswered
  <2>2. CASE TranslateRow(p)
    <3>1. CASE target
      BY <1>0, <2>2, <3>1 DEF TranslateRow
    <3>2. CASE ~target
      BY <1>0, <2>2, <3>2 DEF TranslateRow
    <3> QED
      BY <3>1, <3>2
  <2> QED
    BY <2>1, <2>2
<1>4. CASE CreateExtract(p)
  BY <1>0, <1>4 DEF CreateExtract
<1>5. CASE CreateRequest(p) \/ CreateTranscribe(p)
  <2>1. CreateJob("request") \/ CreateJob("transcribe") \/ UNCHANGED jobs
    BY <1>5 DEF CreateRequest, CreateTranscribe
  <2> QED
    BY <1>0, <2>1
<1> QED
  BY <1>1, <1>2, <1>3, <1>4, <1>5 DEF Plan

(* The rows keep their kinds and none is re-opened.                        *)
Closing ==
  /\ DOMAIN jobs' = DOMAIN jobs
  /\ \A i \in DOMAIN jobs : /\ jobs'[i].kind = jobs[i].kind
                            /\ jobs'[i].status \in OpenStatuses => jobs[i].status \in OpenStatuses

LEMMA BindCloses ==
  ASSUME JobsOK, NEW i \in DOMAIN jobs, Bind(i) PROVE Closing
<1>1. \A j \in DOMAIN jobs : jobs[j] \in JobRows
  BY DEF JobsOK
<1> QED
  BY <1>1 DEF Bind, Closing, JobRows

LEMMA StatusCloses ==
  ASSUME JobsOK, NEW i \in OpenJobs, NEW s, jobs' = [jobs EXCEPT ![i].status = s] PROVE Closing
<1>1. i \in DOMAIN jobs /\ jobs[i].status \in OpenStatuses
  BY DEF OpenJobs
<1>2. \A j \in DOMAIN jobs : jobs[j] \in JobRows
  BY DEF JobsOK
<1> QED
  BY <1>1, <1>2 DEF Closing, JobRows

LEMMA OthersClose ==
  ASSUME TypeOK,
         \/ \E i \in 1..MaxJobs : Work(i) \/ CancelJob(i)
         \/ CancelRead \/ CancelWrite \/ PrepareRetry \/ Outside \/ BazarrScans \/ VerifyDue
  PROVE  Closing
<1> USE DEF jobVars
<1>0. JobsOK
  BY DEF TypeOK
<1>1. ASSUME NEW i \in 1..MaxJobs, Work(i) \/ CancelJob(i) PROVE Closing
  <2>1. i \in OpenJobs
    BY <1>1 DEF Work, StartJob, JobCompletes, JobFails, RequestNotFound, CancelJob, OpenJobs,
       OpenStatuses
  <2>2. \E s : jobs' = [jobs EXCEPT ![i].status = s]
    BY <1>1 DEF Work, StartJob, JobCompletes, JobFails, RequestNotFound, CancelJob, EndJob
  <2> QED
    BY <1>0, <2>1, <2>2, StatusCloses
<1>2. CASE CancelWrite
  <2>1. \A j \in DOMAIN jobs : jobs[j] \in JobRows
    BY <1>0 DEF JobsOK
  <2> QED
    BY <1>2, <2>1 DEF CancelWrite, Closing, JobRows, OpenStatuses
<1>3. CASE CancelRead \/ PrepareRetry \/ Outside \/ BazarrScans \/ VerifyDue
  BY <1>3 DEF CancelRead, PrepareRetry, Outside, BazarrScans, VerifyDue, Closing
<1> QED
  BY <1>1, <1>2, <1>3

LEMMA ClosingKeepsOne == OneOpenJobPerKind /\ Closing => OneOpenJobPerKind'
BY DEF OneOpenJobPerKind, Closing, OpenJobs

LEMMA AppendKeepsOne ==
  ASSUME JobsOK, OneOpenJobPerKind, NEW k \in Kinds, NEW s \in JobStatuses,
         jobs' = Append(jobs, NewJob(k, s)), s \in OpenStatuses => OpenOf(k) = {}
  PROVE  OneOpenJobPerKind'
<1> DEFINE n == Len(jobs) + 1
<1>1. /\ DOMAIN jobs = 1..Len(jobs) /\ DOMAIN jobs' = 1..n /\ Len(jobs) \in Nat
      /\ \A i \in 1..Len(jobs) : jobs'[i] = jobs[i]
      /\ jobs'[n] = NewJob(k, s)
  BY DEF JobsOK
<1>2. jobs'[n].kind = k /\ jobs'[n].status = s
  BY <1>1 DEF NewJob
<1>3. SUFFICES ASSUME NEW i \in OpenJobs', NEW j \in OpenJobs', jobs'[i].kind = jobs'[j].kind
               PROVE  i = j
  BY DEF OneOpenJobPerKind
<1>4. /\ i \in 1..n /\ jobs'[i].status \in OpenStatuses
      /\ j \in 1..n /\ jobs'[j].status \in OpenStatuses
  BY <1>1 DEF OpenJobs
<1>5. ASSUME NEW x \in 1..Len(jobs), jobs'[x].status \in OpenStatuses, jobs'[n].status \in OpenStatuses
      PROVE  jobs'[x].kind # k
  BY <1>1, <1>2, <1>5 DEF OpenOf, OpenJobs
<1>6. CASE i = n \/ j = n
  BY <1>1, <1>2, <1>3, <1>4, <1>5, <1>6
<1>7. CASE i # n /\ j # n
  <2>1. i \in OpenJobs /\ j \in OpenJobs
    BY <1>1, <1>4, <1>7 DEF OpenJobs
  <2> QED
    BY <1>1, <1>3, <1>4, <1>7, <2>1 DEF OneOpenJobPerKind
<1> QED
  BY <1>6, <1>7

LEMMA SkipAppends ==
  ASSUME NEW k, Skip(k)
  PROVE  UNCHANGED jobs \/ jobs' = Append(jobs, NewJob(k, "skipped"))
BY DEF Skip

LEMMA CreateJobAppends ==
  ASSUME NEW k, CreateJob(k)
  PROVE  \/ \E i \in OpenJobs : Bind(i)
         \/ OpenOf(k) = {} /\ jobs' = Append(jobs, NewJob(k, "pending"))
BY DEF CreateJob, OpenOf

LEMMA OneOpenStep == TypeOK /\ OneOpenJobPerKind /\ [Next]_vars => OneOpenJobPerKind'
<1> SUFFICES ASSUME TypeOK, OneOpenJobPerKind, [Next]_vars PROVE OneOpenJobPerKind'
  OBVIOUS
<1>0. JobsOK /\ {"pending", "skipped"} \subseteq JobStatuses /\ "skipped" \notin OpenStatuses
  BY DEF TypeOK, JobStatuses, OpenStatuses
<1>1. CASE UNCHANGED jobs
  BY <1>1 DEF OneOpenJobPerKind, OpenJobs
<1>2. ASSUME NEW i \in OpenJobs, Bind(i) PROVE OneOpenJobPerKind'
  BY <1>0, <1>2, BindCloses, ClosingKeepsOne DEF OpenJobs
<1>3. ASSUME NEW k \in Kinds, Skip(k) PROVE OneOpenJobPerKind'
  BY <1>0, <1>1, <1>3, SkipAppends, AppendKeepsOne
<1>4. ASSUME NEW k \in Kinds, CreateJob(k) PROVE OneOpenJobPerKind'
  BY <1>0, <1>2, <1>4, CreateJobAppends, AppendKeepsOne
<1>5. ASSUME NEW p \in Planners, Plan(p) PROVE OneOpenJobPerKind'
  BY <1>1, <1>2, <1>3, <1>4, <1>5, PlanJobs DEF Orphans
<1>6. CASE UNCHANGED vars
  BY <1>1, <1>6 DEF vars, jobVars
<1>7. CASE ~UNCHANGED vars /\ ~\E p \in Planners : Plan(p)
  BY <1>7, OthersClose, ClosingKeepsOne DEF Next
<1> QED
  BY <1>5, <1>6, <1>7

(* At most one open job of each kind, whatever the calls of plan() remember from *)
(* before they awaited: the look at the open jobs and the insert of a row have *)
(* no await between them (the create_* methods).                            *)
THEOREM OneOpenJob == Spec => []OneOpenJobPerKind
<1>1. Init => OneOpenJobPerKind
  BY DEF Init, OneOpenJobPerKind, OpenJobs
<1>2. Spec => []TypeOK
  BY TypeCorrect
<1> QED
  BY <1>1, <1>2, OneOpenStep, PTL DEF Spec

(* No work is queued that has been done: rows are written only where the target, *)
(* or the source, has just been looked for on the disk.                     *)
THEOREM DoneOnce == Spec => NothingRedone
<1> DEFINE Fresh(i) == jobs'[i].status = "pending" =>
                         /\ jobs'[i].kind = "translate" => ~target
                         /\ jobs'[i].kind = "extract" => ~(Done("extract") /\ srt)
<1>1. ASSUME TypeOK, [Next]_vars, NEW i \in DOMAIN jobs' \ DOMAIN jobs PROVE Fresh(i)
  <2>0. JobsOK
    BY <1>1 DEF TypeOK
  <2>1. DOMAIN jobs' # DOMAIN jobs
    BY <1>1
  <2>2. PICK p \in Planners : Plan(p)
    BY <1>1, <2>1, OthersClose DEF Next, vars, jobVars, Closing
  <2>3. ASSUME NEW j \in OpenJobs, Bind(j) PROVE FALSE
    BY <2>0, <2>1, <2>3, BindCloses DEF Closing, OpenJobs
  <2>4. PICK k \in Kinds : \/ Skip(k)
                           \/ /\ CreateJob(k)
                              /\ k = "translate" => ~target
                              /\ k = "extract" => ~srt
    BY <1>1, <2>1, <2>2, <2>3, PlanJobs DEF Orphans
  <2>5. ASSUME NEW s, jobs' = Append(jobs, NewJob(k, s))
        PROVE  jobs'[i].kind = k /\ jobs'[i].status = s
    <3>1. i = Len(jobs) + 1 /\ jobs'[i] = NewJob(k, s)
      BY <1>1, <2>0, <2>5 DEF JobsOK
    <3> QED
      BY <3>1 DEF NewJob
  <2>6. CASE Skip(k)
    BY <2>1, <2>5, <2>6, SkipAppends
  <2>7. CASE CreateJob(k) /\ (k = "translate" => ~target) /\ (k = "extract" => ~srt)
    BY <2>3, <2>5, <2>7, CreateJobAppends
  <2> QED
    BY <2>4, <2>6, <2>7
<1>2. TypeOK /\ [Next]_vars => [\A i \in DOMAIN jobs' \ DOMAIN jobs : Fresh(i)]_vars
  BY <1>1
<1>3. Spec => []TypeOK
  BY TypeCorrect
<1> QED
  BY <1>2, <1>3, PTL DEF Spec, NothingRedone
=============================================================================
