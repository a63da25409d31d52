-------------------------- MODULE JobWorkerProofs --------------------------
(* Proofs about the job queue and its worker, for every set of jobs, kinds *)
(* and threads, every limit and every number of restarts.                  *)
EXTENDS JobWorker, FiniteSetTheorems, TLAPS

USE JobWorkerAssumption

(* The type invariant.                                                     *)
LEMMA TypeInit == Init => TypeOK
BY DEF Init, TypeOK, Statuses, Open, Terminal, Phases, TickSteps, IdleThread

LEMMA TypeStep == TypeOK /\ DraftInv /\ [Next]_vars => TypeOK'
<1> SUFFICES ASSUME TypeOK, DraftInv, [Next]_vars PROVE TypeOK'
  OBVIOUS
<1> USE DEF rowVars, runVars, slotVars, tickVars, procVars
<1>1. ASSUME NEW j \in Jobs, CreateJob(j) PROVE TypeOK'
  BY <1>1 DEF CreateJob, TypeOK, Statuses, Open
<1>2. CASE Tick
  <2>1. CASE TickBegin \/ OverdueEnd \/ ReplanEnd
    BY <2>1 DEF TickBegin, OverdueEnd, ReplanEnd, PruneInflight, TypeOK, TickSteps, Phases, DoneRuns
  <2>2. CASE ReconcileCancelledSlots
    BY <2>2 DEF ReconcileCancelledSlots, CancelNow, TypeOK, TickSteps
  <2>3. ASSUME NEW j \in Jobs, CancelOverdueJob(j) PROVE TypeOK'
    BY <2>3 DEF CancelOverdueJob, CancelNow, OverdueJobs, LiveRuns, TypeOK, Drafts, Terminal, TickSteps
  <2>4. CASE RecoverOrphanedJobs \/ OrphanRecoveryFails
    BY <2>4 DEF RecoverOrphanedJobs, OrphanRecoveryFails, TypeOK, TickSteps, Statuses, Open
  <2>5. ASSUME NEW k \in Kinds, SelectNextJob(k) \/ StopClaiming(k) PROVE TypeOK'
    BY <2>5 DEF SelectNextJob, StopClaiming, Pending, TypeOK, TickSteps
  <2>6. CASE ClaimUpdate
    BY <2>6 DEF ClaimUpdate, TypeOK, TickSteps, Statuses, Open
  <2>7. CASE ClaimOfCancelledTask
    BY <2>7 DEF ClaimOfCancelledTask, TypeOK, Drafts, Terminal, TickSteps
  <2>8. ASSUME NEW r \in Runs, Spawn(r) PROVE TypeOK'
    BY <2>8 DEF Spawn, TypeOK, TickSteps, Phases
  <2>9. CASE TickEnd
    BY <2>9 DEF TickEnd, TypeOK, TickSteps
  <2> QED
    BY <1>2, <2>1, <2>2, <2>3, <2>4, <2>5, <2>6, <2>7, <2>8, <2>9 DEF Tick
<1>3. ASSUME NEW r \in Runs, Run(r) PROVE TypeOK'
  <2> USE DEF Leave, Become, TypeOK, Phases
  <2>1. CASE Start(r)
    BY <2>1 DEF Start
  <2>2. CASE CancelBeforeStart(r)
    BY <2>2 DEF CancelBeforeStart
  <2>3. CASE TailEnd(r) \/ Exit(r) \/ Raise(r)
    BY <2>3 DEF TailEnd, Exit, Raise
  <2>4. CASE FailJobFromWorker(r)
    BY <2>4 DEF FailJobFromWorker, Drafts, Terminal
  <2>5. CASE Unwind(r)
    BY <2>5 DEF Unwind, Live
  <2>6. CASE RunLate(r)
    BY <2>6 DEF RunLate
  <2>7. ASSUME NEW o \in {"completed", "failed"}, Finish(r, o) PROVE TypeOK'
    BY <2>7 DEF Finish, Drafts, Terminal
  <2> QED
    BY <1>3, <2>1, <2>2, <2>3, <2>4, <2>5, <2>6, <2>7 DEF Run, Advance
<1>4. CASE PersistFails \/ \E j \in Jobs : Commit(j)
  <2>1. status' \in [Jobs -> Statuses] /\ draft \in Drafts
    BY <1>4 DEF PersistFails, Commit, TypeOK, Drafts, Statuses
  <2>2. AfterDraft
    BY <1>4 DEF PersistFails, Commit
  <2>3. draft.then # "claim" => draft.run \in Runs /\ job[draft.run] \in Jobs
    BY <1>4 DEF PersistFails, Commit, DraftInv, LiveRuns, Live, TypeOK
  <2>4. UNCHANGED <<taskCancelled, api, proc, restarts>>
    BY <2>2 DEF AfterDraft
  <2>5. CASE draft.then \in {"tail", "notify"}
    BY <2>1, <2>2, <2>3, <2>4, <2>5 DEF AfterDraft, Become, TypeOK, Phases, Drafts
  <2>6. CASE draft.then = "exit"
    BY <2>1, <2>2, <2>3, <2>4, <2>6 DEF AfterDraft, Leave, TypeOK, Phases, Drafts
  <2>7. CASE draft.then = "cut"
    BY <2>1, <2>2, <2>4, <2>7 DEF AfterDraft, CancelNow, TypeOK
  <2>8. CASE draft.then = "claim"
    BY <2>1, <2>2, <2>4, <2>8 DEF AfterDraft, TypeOK, TickSteps
  <2> QED
    BY <2>1, <2>5, <2>6, <2>7, <2>8 DEF Drafts
<1>5. ASSUME NEW t \in Threads, Handler(t) \/ \E op \in Ops, j \in Jobs : ApiRead(t, op, j)
      PROVE TypeOK'
  <2>1. CASE ApiWrite(t)
    <3>1. api[t] \in BusyThreads
      BY <2>1 DEF ApiWrite, TypeOK, IdleThread
    <3>2. status' \in [Jobs -> Statuses]
      BY <2>1, <3>1 DEF ApiWrite, Written, TypeOK, BusyThreads, ApiOps, Statuses, Open, Terminal
    <3>3. api' \in [Threads -> BusyThreads \cup {IdleThread}]
      BY <2>1, <3>1 DEF ApiWrite, TypeOK, BusyThreads
    <3> QED
      BY <2>1, <3>1, <3>2, <3>3 DEF ApiWrite, TypeOK, BusyThreads
  <2>2. CASE ApiSignal(t)
    BY <2>2 DEF ApiSignal, TypeOK
  <2>3. ASSUME NEW op \in Ops, NEW j \in Jobs, ApiRead(t, op, j) PROVE TypeOK'
    BY <2>3 DEF ApiRead, TypeOK, BusyThreads
  <2> QED
    BY <1>5, <2>1, <2>2, <2>3 DEF Handler
<1>6. CASE Crash \/ StopBegin \/ StopCancelsTasks \/ StopEnd \/ Boot
  <2>1. CASE Crash \/ StopEnd
    <3>1. MemoryLost /\ UNCHANGED <<status, taskCancelled, restarts>>
      BY <2>1 DEF Crash, StopEnd
    <3>2. restarts < MaxRestarts
      BY <2>1 DEF Crash, StopEnd, TypeOK
    <3>3. /\ phase' \in [Runs -> Phases]
          /\ job' \in [Runs -> Jobs \cup {None}]
          /\ cancelReq' \in [Runs -> {"no", "soon", "now"}]
          /\ late' \subseteq Runs
          /\ tasksByJob' \in [Jobs -> Runs \cup {None}]
          /\ inflight' \subseteq Runs
      BY <3>1 DEF MemoryLost, Phases
    <3>4. \A r \in Runs : phase'[r] = "unused"
      BY <3>1 DEF MemoryLost
    <3>5. /\ tick' = "idle" /\ todo' = {} /\ pick' = None /\ draft' = None
          /\ proc' = "down"
      BY <3>1 DEF MemoryLost
    <3>6. api' \in [Threads -> BusyThreads \cup {IdleThread}]
      BY <3>1 DEF MemoryLost
    <3> QED
      BY <3>1, <3>2, <3>3, <3>4, <3>5, <3>6 DEF TypeOK, TickSteps
  <2>2. CASE StopBegin \/ StopCancelsTasks
    BY <2>2 DEF StopBegin, StopCancelsTasks, CancelNow, TypeOK
  <2>3. CASE Boot
    BY <2>3 DEF Boot, TypeOK, Statuses, Open
  <2> QED
    BY <1>6, <2>1, <2>2, <2>3
<1>7. CASE UNCHANGED vars
  BY <1>7 DEF vars, TypeOK
<1> QED
  BY <1>1, <1>2, <1>3, <1>4, <1>5, <1>6, <1>7 DEF Next
-----------------------------------------------------------------------------
(* Uncommitted writes of the event loop.                                   *)

\* Between two awaits of the tick that decide nothing, no write is pending.
LEMMA NoDraft ==
  ASSUME TypeOK, DraftInv,
         LoopFree \/ tick \in {"reconcile", "recover", "claim", "selected"}
  PROVE  draft = None
BY DEF TypeOK, DraftInv, LoopFree, Drafts

LEMMA DraftInit == Init => DraftInv
BY DEF Init, DraftInv

LEMMA DraftStep == TypeOK /\ DraftInv /\ [Next]_vars => DraftInv'
<1> SUFFICES ASSUME TypeOK, DraftInv, [Next]_vars PROVE DraftInv'
  OBVIOUS
<1> USE DEF rowVars, runVars, slotVars, tickVars, procVars
<1>1. ASSUME draft' = None PROVE DraftInv'
  BY <1>1 DEF DraftInv
<1>2. ASSUME NEW j \in Jobs, CreateJob(j) PROVE DraftInv'
  BY <1>1, <1>2 DEF CreateJob, LoopFree
<1>3. CASE Tick
  <2>1. ASSUME NEW j \in Jobs, CancelOverdueJob(j) PROVE DraftInv'
    <3>1. tasksByJob[j] \in LiveRuns /\ tick' = "overdue" /\ phase' = phase
      BY <2>1 DEF CancelOverdueJob, OverdueJobs
    <3>2. LiveRuns' = LiveRuns
      BY <3>1 DEF LiveRuns
    <3>3. CASE status[j] \in {"pending", "processing"}
      BY <2>1, <3>1, <3>2, <3>3 DEF CancelOverdueJob, DraftInv
    <3>4. CASE status[j] \notin {"pending", "processing"}
      BY <1>1, <2>1, <3>4 DEF CancelOverdueJob
    <3> QED
      BY <3>3, <3>4
  <2>2. CASE ClaimOfCancelledTask
    BY <2>2 DEF ClaimOfCancelledTask, DraftInv
  <2>3. CASE TickBegin \/ OverdueEnd \/ ReplanEnd \/ \E r \in Runs : Spawn(r)
    BY <1>1, <2>3 DEF TickBegin, OverdueEnd, ReplanEnd, Spawn
  <2>4. CASE \/ ReconcileCancelledSlots \/ RecoverOrphanedJobs \/ OrphanRecoveryFails
             \/ \E k \in Kinds : SelectNextJob(k) \/ StopClaiming(k)
             \/ ClaimUpdate \/ TickEnd
    <3>1. draft' = draft /\ tick \in {"reconcile", "recover", "claim", "selected"}
      BY <2>4 DEF ReconcileCancelledSlots, RecoverOrphanedJobs, OrphanRecoveryFails,
                  SelectNextJob, StopClaiming, ClaimUpdate, TickEnd
    <3> QED
      BY <1>1, <3>1, NoDraft
  <2> QED
    BY <1>3, <2>1, <2>2, <2>3, <2>4 DEF Tick
<1>4. ASSUME NEW r \in Runs, Run(r) PROVE DraftInv'
  <2>1. LoopFree
    BY <1>4 DEF Run, Advance, Start, CancelBeforeStart, TailEnd, Exit, FailJobFromWorker,
                Unwind, Raise, RunLate, Finish
  <2>2. ASSUME NEW o \in {"completed", "failed"}, Finish(r, o) PROVE DraftInv'
    <3>1. CASE status[job[r]] = "cancelled"
      BY <1>1, <2>1, <2>2, <3>1 DEF Finish, LoopFree
    <3>2. CASE status[job[r]] # "cancelled"
      <4>1. LiveRuns' = LiveRuns /\ r \in LiveRuns /\ tick' = tick
        BY <2>2, <3>2 DEF Finish, LiveRuns, Live, Phases
      <4> QED
        BY <2>1, <2>2, <3>2, <4>1 DEF Finish, LoopFree, DraftInv
    <3> QED
      BY <3>1, <3>2
  <2>3. CASE FailJobFromWorker(r)
    <3>1. CASE status[job[r]] \notin {"pending", "processing"}
      BY <1>1, <2>1, <2>3, <3>1 DEF FailJobFromWorker, LoopFree
    <3>2. CASE status[job[r]] \in {"pending", "processing"}
      <4>1. LiveRuns' = LiveRuns /\ r \in LiveRuns /\ tick' = tick
        BY <2>3, <3>2 DEF FailJobFromWorker, LiveRuns, Live, Phases
      <4> QED
        BY <2>1, <2>3, <3>2, <4>1 DEF FailJobFromWorker, LoopFree, DraftInv
    <3> QED
      BY <3>1, <3>2
  <2>4. CASE \/ Start(r) \/ CancelBeforeStart(r) \/ TailEnd(r) \/ Exit(r)
             \/ Unwind(r) \/ Raise(r) \/ RunLate(r)
    BY <1>1, <2>1, <2>4 DEF LoopFree, Start, CancelBeforeStart, TailEnd, Exit, Unwind,
                            Raise, RunLate
  <2> QED
    BY <1>4, <2>2, <2>3, <2>4 DEF Run, Advance
<1>5. CASE PersistFails \/ \E j \in Jobs : Commit(j)
  BY <1>1, <1>5 DEF PersistFails, Commit, AfterDraft
<1>6. CASE Crash \/ StopEnd
  BY <1>1, <1>6 DEF Crash, StopEnd, MemoryLost
<1>7. CASE \/ \E t \in Threads : Handler(t) \/ \E op \in Ops, j \in Jobs : ApiRead(t, op, j)
           \/ StopBegin \/ StopCancelsTasks \/ Boot \/ UNCHANGED vars
  <2>1. UNCHANGED <<phase, tick, pick, draft>>
    BY <1>7 DEF Handler, ApiRead, ApiWrite, ApiSignal, StopBegin, StopCancelsTasks, Boot, vars
  <2>2. LiveRuns' = LiveRuns
    BY <2>1 DEF LiveRuns
  <2> QED
    BY <2>1, <2>2 DEF DraftInv
<1> QED
  BY <1>2, <1>3, <1>4, <1>5, <1>6, <1>7 DEF Next
-----------------------------------------------------------------------------
(* SlotLimit: the slots of a kind.                                         *)

\* Fewer coroutines in the slots of a kind never exceed what more did.
LEMMA SlotsFinite ==
  ASSUME TypeOK, NEW k \in Kinds, NEW S, S \subseteq Slots(k)
  PROVE  /\ IsFiniteSet(S) /\ Cardinality(S) \in Nat
         /\ IsFiniteSet(Slots(k)) /\ Cardinality(Slots(k)) \in Nat
         /\ Cardinality(S) <= Cardinality(Slots(k))
<1>1. Slots(k) \subseteq Runs
  BY DEF TypeOK, Slots
<1>2. IsFiniteSet(Slots(k))
  BY <1>1, FS_Subset
<1> QED
  BY <1>2, FS_Subset, FS_CardinalityType

\* A step that takes no slot, and selects no job, keeps the slots in order.
LEMMA SlotShrink ==
  ASSUME TypeOK, SlotInv,
         LiveRuns' \subseteq inflight', inflight' \subseteq inflight,
         \A r \in inflight' : job'[r] = job[r],
         tick' \in {"selected", "claimed"} =>
           tick \in {"selected", "claimed"} /\ pick' = pick /\ pick \in Jobs
  PROVE  SlotInv'
<1>1. ASSUME NEW k \in Kinds
      PROVE  /\ Slots(k)' \subseteq Slots(k)
             /\ Cardinality(Slots(k)) \in Nat /\ Cardinality(Slots(k)') \in Nat
             /\ Cardinality(Slots(k)') <= Cardinality(Slots(k))
  <2>1. Slots(k)' \subseteq Slots(k)
    BY DEF Slots
  <2> QED
    BY <2>1, SlotsFinite, FS_CardinalityType
<1>2. ASSUME NEW k \in Kinds PROVE Cardinality(Slots(k)') <= Limit[k]
  BY <1>1, <1>2 DEF SlotInv
<1>3. ASSUME tick' \in {"selected", "claimed"}
      PROVE  (Cardinality(Slots(KindOf[pick])) < Limit[KindOf[pick]])'
  <2> DEFINE k == KindOf[pick]
  <2>1. k \in Kinds /\ pick' = pick /\ Limit[k] \in Nat
    BY <1>3
  <2>2. Cardinality(Slots(k)) < Limit[k]
    BY <1>3 DEF SlotInv
  <2>3. (Slots(KindOf[pick]))' = {r \in inflight' : KindOf[job'[r]] = k}
    BY <2>1 DEF Slots
  <2>4. {r \in inflight' : KindOf[job'[r]] = k} \subseteq Slots(k)
    BY DEF Slots
  <2> HIDE DEF k
  <2>5. /\ Cardinality(Slots(k)) \in Nat
        /\ Cardinality({r \in inflight' : KindOf[job'[r]] = k}) \in Nat
        /\ Cardinality({r \in inflight' : KindOf[job'[r]] = k}) <= Cardinality(Slots(k))
    BY <2>1, <2>4, SlotsFinite
  <2> QED
    BY <2>1, <2>2, <2>3, <2>5 DEF k
<1> QED
  BY <1>2, <1>3 DEF SlotInv

LEMMA SlotInit == Init => SlotInv
BY FS_EmptySet DEF Init, SlotInv, LiveRuns, Live, Slots

LEMMA SlotStep == TypeOK /\ DraftInv /\ SlotInv /\ [Next]_vars => SlotInv'
<1> SUFFICES ASSUME TypeOK, DraftInv, SlotInv, [Next]_vars PROVE SlotInv'
  OBVIOUS
<1> USE DEF rowVars, runVars, slotVars, tickVars, procVars
<1> DEFINE Same == UNCHANGED <<job, inflight>> /\ LiveRuns' \subseteq LiveRuns
           NoPick == \/ tick' \notin {"selected", "claimed"}
                     \/ /\ UNCHANGED <<tick, pick>>
                        /\ tick \in {"selected", "claimed"} => pick \in Jobs
<1>1. ASSUME Same, NoPick PROVE SlotInv'
  BY <1>1, SlotShrink DEF SlotInv
<1>2. ASSUME PruneInflight, NoPick PROVE SlotInv'
  <2>1. LiveRuns' = LiveRuns
    BY <1>2 DEF PruneInflight, LiveRuns, DoneRuns, Live, Phases, TypeOK
  <2>2. LiveRuns' \subseteq inflight'
    BY <1>2, <2>1 DEF PruneInflight, SlotInv, LiveRuns, DoneRuns, Live
  <2> QED
    BY <1>2, <2>2, SlotShrink DEF PruneInflight
<1>3. ASSUME UNCHANGED <<tick, pick>> PROVE NoPick
  BY <1>3 DEF TypeOK
<1>4. ASSUME UNCHANGED <<phase, job, inflight>> PROVE Same
  BY <1>4 DEF LiveRuns
<1>5. ASSUME NEW r \in Runs, Leave(r) \/ \E p \in Phases : phase[r] \in Live /\ Become(r, p)
      PROVE Same
  BY <1>5 DEF Leave, Become, LiveRuns, Live, TypeOK
<1> HIDE DEF Same, NoPick
<1>6. CASE Tick
  <2>1. CASE TickBegin \/ OverdueEnd \/ ReplanEnd
    <3>1. PruneInflight /\ tick' \in {"reconcile", "replan", "recover"}
      BY <2>1 DEF TickBegin, OverdueEnd, ReplanEnd
    <3> QED
      BY <1>2, <3>1 DEF NoPick
  <2>2. CASE \/ ReconcileCancelledSlots \/ \E j \in Jobs : CancelOverdueJob(j)
             \/ RecoverOrphanedJobs \/ OrphanRecoveryFails
             \/ \E k \in Kinds : StopClaiming(k)
             \/ ClaimOfCancelledTask \/ TickEnd
    <3>1. UNCHANGED <<phase, job, inflight>>
      BY <2>2 DEF ReconcileCancelledSlots, CancelOverdueJob, CancelNow, RecoverOrphanedJobs,
                  OrphanRecoveryFails, StopClaiming, ClaimOfCancelledTask, TickEnd
    <3>2. tick' \in {"overdue", "claim", "idle"} \/ UNCHANGED <<tick, pick>>
      BY <2>2 DEF ReconcileCancelledSlots, CancelOverdueJob, RecoverOrphanedJobs,
                  OrphanRecoveryFails, StopClaiming, ClaimOfCancelledTask, TickEnd
    <3>3. NoPick
      BY <1>3, <3>2 DEF NoPick
    <3> QED
      BY <1>1, <1>4, <3>1, <3>3
  <2>3. ASSUME NEW k \in Kinds, SelectNextJob(k) PROVE SlotInv'
    <3>1. pick' \in Jobs /\ KindOf[pick'] = k /\ UNCHANGED <<phase, job, inflight>>
      BY <2>3 DEF SelectNextJob, Pending
    <3>2. LiveRuns' = LiveRuns /\ \A l \in Kinds : Slots(l)' = Slots(l)
      BY <3>1 DEF LiveRuns, Slots
    <3> QED
      BY <2>3, <3>1, <3>2 DEF SelectNextJob, SlotInv
  <2>4. CASE ClaimUpdate
    <3>1. UNCHANGED <<phase, job, inflight>>
      BY <2>4 DEF ClaimUpdate
    <3>2. tick' \in {"claim", "claimed"} /\ (tick' = "claimed" => pick' = pick /\ pick \in Jobs)
      BY <2>4 DEF ClaimUpdate, TypeOK
    <3>3. tick = "selected" /\ LiveRuns' \subseteq inflight'
      BY <2>4, <3>1 DEF ClaimUpdate, LiveRuns, SlotInv
    <3> QED
      BY <3>1, <3>2, <3>3, SlotShrink
  <2>5. ASSUME NEW r \in Runs, Spawn(r) PROVE SlotInv'
    <3>1. /\ tick = "claimed" /\ pick \in Jobs /\ KindOf[pick] \in Kinds
          /\ inflight' = inflight \cup {r} /\ job' = [job EXCEPT ![r] = pick]
          /\ LiveRuns' \subseteq LiveRuns \cup {r} /\ tick' = "claim"
      BY <2>5 DEF Spawn, TypeOK, LiveRuns
    <3>2. ASSUME NEW k \in Kinds PROVE Cardinality(Slots(k)') <= Limit[k]
      <4>1. CASE k = KindOf[pick]
        <5>1. Slots(k)' \subseteq Slots(k) \cup {r}
          BY <3>1 DEF Slots, TypeOK
        <5>2. IsFiniteSet(Slots(k)) /\ Cardinality(Slots(k)) \in Nat
          BY SlotsFinite
        <5> DEFINE S == Slots(k)
        <5> HIDE DEF S
        <5>3. /\ IsFiniteSet(S \cup {r})
              /\ Cardinality(S \cup {r}) <= Cardinality(S) + 1
          <6>1. IsFiniteSet(S) /\ Cardinality(S) \in Nat
            BY <5>2 DEF S
          <6>2. IsFiniteSet(S \cup {r})
            BY <6>1, FS_AddElement
          <6>3. Cardinality(S \cup {r}) = IF r \in S THEN Cardinality(S) ELSE Cardinality(S) + 1
            BY <6>1, FS_AddElement, Zenon
          <6> QED
            BY <6>1, <6>2, <6>3
        <5>4. /\ Cardinality(Slots(k) \cup {r}) \in Nat /\ Cardinality(Slots(k)') \in Nat
              /\ Cardinality(Slots(k)') <= Cardinality(Slots(k) \cup {r})
          BY <5>1, <5>3, FS_Subset, FS_CardinalityType DEF S
        <5>5. Cardinality(Slots(k)) < Limit[k] /\ Limit[k] \in Nat
          BY <3>1, <4>1 DEF SlotInv
        <5> QED
          BY <5>2, <5>3, <5>4, <5>5 DEF S
      <4>2. CASE k # KindOf[pick]
        <5>1. Slots(k)' \subseteq Slots(k)
          BY <3>1, <4>2 DEF Slots, TypeOK
        <5>2. /\ Cardinality(Slots(k)') \in Nat /\ Cardinality(Slots(k)) \in Nat
              /\ Cardinality(Slots(k)') <= Cardinality(Slots(k))
          BY <5>1, SlotsFinite, FS_CardinalityType
        <5> QED
          BY <5>2 DEF SlotInv
      <4> QED
        BY <4>1, <4>2
    <3> QED
      BY <3>1, <3>2 DEF SlotInv
  <2> QED
    BY <1>6, <2>1, <2>2, <2>3, <2>4, <2>5 DEF Tick
<1>7. CASE \E r \in Runs : Run(r)
  <2> PICK r \in Runs : Run(r)
    BY <1>7
  <2>1. UNCHANGED <<tick, pick>>
    BY DEF Run, Advance, Start, CancelBeforeStart, TailEnd, Exit, FailJobFromWorker,
           Unwind, Raise, RunLate, Finish
  <2>2. \/ Leave(r) \/ UNCHANGED <<phase, job, inflight>>
        \/ \E p \in Phases : phase[r] \in Live /\ Become(r, p)
        \/ phase' = [phase EXCEPT ![r] = "notify"] /\ UNCHANGED <<job, inflight>> /\ phase[r] \in Live
        \/ phase' = [phase EXCEPT ![r] = "done"] /\ UNCHANGED <<job, inflight>>
    BY DEF Run, Advance, Start, CancelBeforeStart, TailEnd, Exit, FailJobFromWorker,
           Unwind, Raise, RunLate, Finish, Live, Phases
  <2>3. ASSUME phase' = [phase EXCEPT ![r] = "notify"], UNCHANGED <<job, inflight>>, phase[r] \in Live
        PROVE Same
    BY <2>3 DEF Same, LiveRuns, TypeOK
  <2>4. ASSUME phase' = [phase EXCEPT ![r] = "done"], UNCHANGED <<job, inflight>> PROVE Same
    BY <2>4 DEF Same, LiveRuns, Live, TypeOK
  <2> QED
    BY <1>1, <1>3, <1>4, <1>5, <2>1, <2>2, <2>3, <2>4
<1>8. CASE PersistFails \/ \E j \in Jobs : Commit(j)
  <2>1. AfterDraft /\ draft \in Drafts /\ draft # None
    BY <1>8 DEF PersistFails, Commit, TypeOK
  <2>2. CASE draft.then \in {"tail", "notify"}
    <3>1. Become(draft.run, draft.then) /\ UNCHANGED <<tick, pick>>
      BY <2>1, <2>2 DEF AfterDraft
    <3>2. draft.run \in Runs /\ phase[draft.run] \in Live /\ draft.then \in Phases
      BY <2>1, <2>2 DEF DraftInv, LiveRuns, Drafts, Phases
    <3> QED
      BY <1>1, <1>3, <1>5, <3>1, <3>2
  <2>3. CASE draft.then = "exit"
    <3>1. Leave(draft.run) /\ UNCHANGED <<tick, pick>> /\ draft.run \in Runs
      BY <2>1, <2>3 DEF AfterDraft, DraftInv, LiveRuns, Drafts
    <3> QED
      BY <1>1, <1>3, <1>5, <3>1
  <2>4. CASE draft.then = "cut"
    BY <1>1, <1>3, <1>4, <2>1, <2>4 DEF AfterDraft
  <2>5. CASE draft.then = "claim"
    <3>1. UNCHANGED <<phase, job, inflight>> /\ tick' = "claim"
      BY <2>1, <2>5 DEF AfterDraft
    <3> QED
      BY <1>1, <1>4, <3>1 DEF NoPick
  <2> QED
    BY <2>1, <2>2, <2>3, <2>4, <2>5 DEF Drafts
<1>9. CASE Crash \/ StopEnd
  <2>1. MemoryLost
    BY <1>9 DEF Crash, StopEnd
  <2>2. LiveRuns' = {} /\ tick' = "idle" /\ \A k \in Kinds : Slots(k)' = {}
    BY <2>1 DEF MemoryLost, LiveRuns, Live, Slots
  <2>3. \A k \in Kinds : Cardinality(Slots(k)') <= Limit[k]
    BY <2>2, FS_EmptySet
  <2> QED
    BY <2>2, <2>3 DEF SlotInv
<1>10. CASE \/ \E j \in Jobs : CreateJob(j)
            \/ \E t \in Threads : Handler(t) \/ \E op \in Ops, j \in Jobs : ApiRead(t, op, j)
            \/ StopBegin \/ StopCancelsTasks \/ Boot \/ UNCHANGED vars
  <2>1. UNCHANGED <<phase, job, inflight, tick, pick>>
    BY <1>10 DEF CreateJob, Handler, ApiRead, ApiWrite, ApiSignal, StopBegin,
                 StopCancelsTasks, CancelNow, Boot, vars
  <2> QED
    BY <1>1, <1>3, <1>4, <2>1
<1> QED
  BY <1>6, <1>7, <1>8, <1>9, <1>10 DEF Next
-----------------------------------------------------------------------------
(* NoDoubleRun: the coroutine that owns a job.                             *)

\* The orphans of _tasks_by_job really have no coroutine.
LEMMA OrphansRunless ==
  ASSUME TypeOK, OwnInv, NEW j \in Jobs, tasksByJob[j] = None
  PROVE  RunsOf(j) = {}
BY DEF OwnInv, RunsOf, LiveRuns, TypeOK

\* A step that ends coroutines, frees only what they own and queues only jobs
\* nobody runs keeps every job with its one owner.
LEMMA OwnShrink ==
  ASSUME TypeOK, OwnInv,
         LiveRuns' \subseteq LiveRuns,
         \A r \in LiveRuns' : job'[r] = job[r] /\ tasksByJob'[job[r]] = tasksByJob[job[r]],
         \A j \in Jobs : status'[j] \in {"absent", "pending"} =>
                           status[j] \in {"absent", "pending"} \/ RunsOf(j) = {},
         tick' = "claimed" => tick = "claimed" /\ pick' = pick /\ pick \in Jobs
                               /\ status'[pick] \notin {"absent", "pending"},
         proc' = "down" => LiveRuns' = {} /\ tick' = "idle"
  PROVE  OwnInv'
<1>1. \A j \in Jobs : RunsOf(j)' \subseteq RunsOf(j)
  BY DEF RunsOf
<1>2. \A r \in LiveRuns' : tasksByJob'[job'[r]] = r
  BY DEF OwnInv
<1>3. \A j \in Jobs : status'[j] \in {"absent", "pending"} => RunsOf(j)' = {}
  BY <1>1 DEF OwnInv
<1>4. tick' = "claimed" => (RunsOf(pick))' = {} /\ status'[pick'] \notin {"absent", "pending"}
  <2> SUFFICES ASSUME tick' = "claimed"
               PROVE  (RunsOf(pick))' = {} /\ status'[pick'] \notin {"absent", "pending"}
    OBVIOUS
  <2>1. (RunsOf(pick))' \subseteq RunsOf(pick)
    BY DEF RunsOf
  <2> QED
    BY <2>1 DEF OwnInv
<1> QED
  BY <1>2, <1>3, <1>4 DEF OwnInv

LEMMA OwnInit == Init => OwnInv /\ CancelOnlyInv
BY DEF Init, OwnInv, CancelOnlyInv, LiveRuns, Live, RunsOf, IdleThread

LEMMA CancelOnlyStep ==
  ASSUME Ops \subseteq {"cancel", "cancelTask"}, TypeOK, CancelOnlyInv, [Next]_vars
  PROVE  CancelOnlyInv'
<1> USE DEF rowVars, runVars, slotVars, tickVars, procVars, CancelOnlyInv
<1>1. ASSUME UNCHANGED <<status, api>> PROVE CancelOnlyInv'
  BY <1>1
<1>2. ASSUME NEW j \in Jobs, CreateJob(j) PROVE CancelOnlyInv'
  BY <1>2 DEF CreateJob, TypeOK
<1>3. CASE Tick
  <2>1. CASE RecoverOrphanedJobs \/ ClaimUpdate
    BY <2>1 DEF RecoverOrphanedJobs, ClaimUpdate, TypeOK
  <2> QED
    BY <1>1, <1>3, <2>1 DEF Tick, TickBegin, ReconcileCancelledSlots, CancelOverdueJob,
       OverdueEnd, ReplanEnd, OrphanRecoveryFails, SelectNextJob, StopClaiming,
       ClaimOfCancelledTask, Spawn, TickEnd
<1>4. CASE \E r \in Runs : Run(r)
  BY <1>1, <1>4 DEF Run, Advance, Start, CancelBeforeStart, TailEnd, Exit,
     FailJobFromWorker, Unwind, Raise, RunLate, Finish
<1>5. CASE PersistFails \/ \E j \in Jobs : Commit(j)
  <2>1. draft # None /\ api' = api
        /\ (status' = status \/ \E j \in Jobs : status' = [status EXCEPT ![j] = draft.to])
    BY <1>5 DEF PersistFails, Commit, AfterDraft
  <2>2. draft.to # "paused"
    BY <2>1 DEF TypeOK, Drafts, Terminal
  <2> QED
    BY <2>1, <2>2 DEF TypeOK
<1>6. ASSUME NEW t \in Threads, Handler(t) \/ \E op \in Ops, j \in Jobs : ApiRead(t, op, j)
      PROVE CancelOnlyInv'
  <2>1. CASE ApiWrite(t)
    <3>1. api[t] \in BusyThreads /\ api[t].op \in {"cancel", "cancelTask"}
      BY <2>1 DEF ApiWrite, TypeOK, IdleThread, BusyThreads
    <3>2. Written[api[t].op] = "cancelled"
      BY <3>1 DEF Written
    <3>3. \A j \in Jobs : status'[j] # "paused"
      BY <2>1, <3>1, <3>2 DEF ApiWrite, TypeOK
    <3>4. \A u \in Threads : api'[u].op \in {"cancel", "cancelTask", None}
      BY <2>1, <3>1 DEF ApiWrite, TypeOK, IdleThread, BusyThreads
    <3> QED
      BY <3>3, <3>4
  <2>2. CASE ApiSignal(t)
    BY <2>2 DEF ApiSignal, TypeOK, IdleThread
  <2>3. ASSUME NEW op \in Ops, NEW j \in Jobs, ApiRead(t, op, j) PROVE CancelOnlyInv'
    BY <2>3 DEF ApiRead, TypeOK
  <2> QED
    BY <1>6, <2>1, <2>2, <2>3 DEF Handler
<1>7. CASE Crash \/ StopEnd
  BY <1>7 DEF Crash, StopEnd, MemoryLost, IdleThread
<1>8. CASE StopBegin \/ StopCancelsTasks \/ Boot \/ UNCHANGED vars
  BY <1>8 DEF StopBegin, StopCancelsTasks, Boot, vars, TypeOK
<1> QED
  BY <1>2, <1>3, <1>4, <1>5, <1>6, <1>7, <1>8 DEF Next

LEMMA OwnStep ==
  ASSUME TypeOK, DraftInv, OwnInv, CancelOnlyInv, [Next]_vars
  PROVE  OwnInv'
<1> USE DEF rowVars, runVars, slotVars, tickVars, procVars
<1> DEFINE TickCalm == /\ proc' = proc
                       /\ \/ UNCHANGED <<tick, pick>>
                          \/ proc # "down" /\ tick' # "claimed"
           NoRequeue == \A j \in Jobs : status'[j] \in {"absent", "pending"} =>
                                         status[j] \in {"absent", "pending"}
           Mine == \A r \in LiveRuns' : job'[r] = job[r] /\ tasksByJob'[job[r]] = tasksByJob[job[r]]
<1>1. ASSUME TickCalm, NoRequeue, LiveRuns' \subseteq LiveRuns, Mine PROVE OwnInv'
  <2>1. tick' = "claimed" => tick = "claimed" /\ pick' = pick /\ pick \in Jobs
                               /\ status'[pick] \notin {"absent", "pending"}
    <3>1. tick = "claimed" => pick \in Jobs /\ status[pick] \notin {"absent", "pending"}
      BY DEF OwnInv, TypeOK
    <3> QED
      BY <1>1, <3>1
  <2>2. proc' = "down" => LiveRuns' = {} /\ tick' = "idle"
    BY <1>1 DEF OwnInv
  <2> QED
    BY <1>1, <2>1, <2>2, OwnShrink
<1>2. ASSUME NEW r \in LiveRuns, Leave(r) PROVE LiveRuns' \subseteq LiveRuns /\ Mine
  <2>1. LiveRuns' = LiveRuns \ {r}
    BY <1>2 DEF Leave, LiveRuns, Live, TypeOK
  <2>2. \A s \in LiveRuns' : job[s] # job[r]
    BY <2>1 DEF OwnInv
  <2> QED
    BY <1>2, <2>1, <2>2 DEF Leave, TypeOK
<1>3. ASSUME NEW r \in LiveRuns, NEW p, Become(r, p) PROVE LiveRuns' \subseteq LiveRuns /\ Mine
  BY <1>3 DEF Become, LiveRuns, TypeOK
<1>4. ASSUME UNCHANGED <<phase, job, tasksByJob>> PROVE LiveRuns' \subseteq LiveRuns /\ Mine
  BY <1>4 DEF LiveRuns
<1>5. ASSUME PruneInflight PROVE LiveRuns' \subseteq LiveRuns /\ Mine
  <2>1. LiveRuns' = LiveRuns
    BY <1>5 DEF PruneInflight, LiveRuns, DoneRuns, Live, Phases, TypeOK
  <2>2. \A r \in LiveRuns : job[r] \in Jobs /\ tasksByJob[job[r]] \notin DoneRuns
    BY DEF OwnInv, LiveRuns, DoneRuns, Live, TypeOK
  <2> QED
    BY <1>5, <2>1, <2>2 DEF PruneInflight
<1>6. ASSUME status' = status PROVE NoRequeue
  BY <1>6
<1> HIDE DEF TickCalm, NoRequeue, Mine
<1>7. CASE Tick
  <2>1. CASE TickBegin \/ OverdueEnd \/ ReplanEnd
    <3>1. PruneInflight /\ status' = status
      BY <2>1 DEF TickBegin, OverdueEnd, ReplanEnd
    <3>2. TickCalm
      BY <2>1 DEF TickBegin, OverdueEnd, ReplanEnd, OwnInv, TickCalm
    <3> QED
      BY <1>1, <1>5, <1>6, <3>1, <3>2
  <2>2. CASE \/ ReconcileCancelledSlots \/ \E j \in Jobs : CancelOverdueJob(j)
             \/ OrphanRecoveryFails
             \/ \E k \in Kinds : SelectNextJob(k) \/ StopClaiming(k)
             \/ ClaimOfCancelledTask \/ TickEnd
    <3>1. UNCHANGED <<status, phase, job, tasksByJob>>
      BY <2>2 DEF ReconcileCancelledSlots, CancelOverdueJob, CancelNow, OrphanRecoveryFails,
                  SelectNextJob, StopClaiming, ClaimOfCancelledTask, TickEnd
    <3>2. TickCalm
      BY <2>2 DEF ReconcileCancelledSlots, CancelOverdueJob, OrphanRecoveryFails, OwnInv,
                  SelectNextJob, StopClaiming, ClaimOfCancelledTask, TickEnd, TickCalm
    <3> QED
      BY <1>1, <1>4, <1>6, <3>1, <3>2
  <2>3. CASE RecoverOrphanedJobs
    <3>1. UNCHANGED <<phase, job, tasksByJob, proc>> /\ tick = "recover" /\ tick' = "claim"
      BY <2>3 DEF RecoverOrphanedJobs
    <3>2. \A j \in Jobs : status'[j] \in {"absent", "pending"} =>
                           status[j] \in {"absent", "pending"} \/ RunsOf(j) = {}
      BY <2>3, OrphansRunless DEF RecoverOrphanedJobs, Orphans
    <3>3. LiveRuns' \subseteq LiveRuns /\ Mine
      BY <1>4, <3>1
    <3>4. proc' # "down"
      BY <3>1 DEF OwnInv
    <3> QED
      BY <3>1, <3>2, <3>3, <3>4, OwnShrink DEF Mine
  <2>4. CASE ClaimUpdate
    <3>1. UNCHANGED <<phase, job, tasksByJob, proc>> /\ tick = "selected" /\ pick \in Jobs
      BY <2>4 DEF ClaimUpdate, TypeOK
    <3>2. LiveRuns' = LiveRuns /\ \A j \in Jobs : RunsOf(j)' = RunsOf(j)
      BY <3>1 DEF LiveRuns, RunsOf
    <3>3. CASE status[pick] = "pending"
      <4>1. /\ status' = [status EXCEPT ![pick] = "processing"]
            /\ tick' = "claimed" /\ pick' = pick
        BY <2>4, <3>3 DEF ClaimUpdate
      <4>2. RunsOf(pick) = {} /\ (RunsOf(pick))' = RunsOf(pick)
        BY <3>1, <3>2, <3>3, <4>1 DEF OwnInv, RunsOf
      <4> QED
        BY <3>1, <3>2, <4>1, <4>2 DEF OwnInv, TypeOK
    <3>4. CASE status[pick] # "pending"
      <4>1. status' = status /\ tick' = "claim"
        BY <2>4, <3>4 DEF ClaimUpdate
      <4> QED
        BY <3>1, <3>2, <4>1 DEF OwnInv
    <3> QED
      BY <3>3, <3>4
  <2>5. ASSUME NEW r \in Runs, Spawn(r) PROVE OwnInv'
    <3>1. /\ tick = "claimed" /\ pick \in Jobs /\ tick' = "claim"
          /\ UNCHANGED <<status, proc>>
          /\ job' = [job EXCEPT ![r] = pick] /\ tasksByJob' = [tasksByJob EXCEPT ![pick] = r]
      BY <2>5 DEF Spawn, TypeOK
    <3>2. LiveRuns' = LiveRuns \cup {r} /\ r \notin LiveRuns
      BY <2>5 DEF Spawn, LiveRuns, Live, Phases, TypeOK
    <3>3. RunsOf(pick) = {} /\ status[pick] \notin {"absent", "pending"} /\ proc # "down"
      BY <3>1 DEF OwnInv
    <3>4. \A s \in LiveRuns : job[s] # pick /\ job'[s] = job[s] /\ job[s] \in Jobs
      BY <3>1, <3>2, <3>3 DEF RunsOf, TypeOK, LiveRuns, Live
    <3>5. \A s \in LiveRuns' : tasksByJob'[job'[s]] = s
      BY <3>1, <3>2, <3>4 DEF OwnInv, TypeOK
    <3>6. ASSUME NEW j \in Jobs, status'[j] \in {"absent", "pending"} PROVE RunsOf(j)' = {}
      <4>1. j # pick /\ RunsOf(j) = {}
        BY <3>1, <3>3, <3>6 DEF OwnInv
      <4>2. job'[r] = pick
        BY <3>1 DEF TypeOK
      <4> QED
        BY <3>2, <3>4, <4>1, <4>2 DEF RunsOf
    <3> QED
      BY <3>1, <3>3, <3>5, <3>6 DEF OwnInv
  <2> QED
    BY <1>7, <2>1, <2>2, <2>3, <2>4, <2>5 DEF Tick
<1>8. CASE \E r \in Runs : Run(r)
  <2> PICK r \in Runs : Run(r)
    BY <1>8
  <2>1. TickCalm /\ status' = status
    BY DEF Run, Advance, Start, CancelBeforeStart, TailEnd, Exit, FailJobFromWorker,
           Unwind, Raise, RunLate, Finish, TickCalm
  <2>2. r \in LiveRuns
    BY DEF Run, Advance, Start, CancelBeforeStart, TailEnd, Exit, FailJobFromWorker,
           Unwind, Raise, RunLate, Finish, LiveRuns, Live, Phases
  <2>3. CASE \/ Start(r) \/ TailEnd(r) \/ Exit(r) \/ FailJobFromWorker(r) \/ Raise(r)
             \/ RunLate(r) \/ \E o \in {"completed", "failed"} : Finish(r, o)
    <3>1. \/ Leave(r) \/ \E p \in Phases : Become(r, p)
          \/ UNCHANGED <<phase, job, tasksByJob>>
      BY <2>3 DEF Start, TailEnd, Exit, FailJobFromWorker, Raise, RunLate, Finish, Phases
    <3> QED
      BY <1>1, <1>2, <1>3, <1>4, <1>6, <2>1, <2>2, <3>1
  <2>4. CASE CancelBeforeStart(r)
    <3>1. LiveRuns' \subseteq LiveRuns /\ UNCHANGED <<job, tasksByJob>>
      BY <2>4 DEF CancelBeforeStart, LiveRuns, Live, TypeOK
    <3> QED
      BY <1>1, <1>6, <2>1, <3>1 DEF Mine
  <2>5. CASE Unwind(r)
    <3>1. CASE phase[r] \notin {"working", "tail"}
      BY <1>1, <1>2, <1>6, <2>1, <2>2, <2>5, <3>1 DEF Unwind
    <3>2. CASE phase[r] \in {"working", "tail"}
      <4>1. LiveRuns' \subseteq LiveRuns /\ UNCHANGED <<job, tasksByJob>>
        BY <2>5, <3>2, <2>2 DEF Unwind, LiveRuns, TypeOK
      <4> QED
        BY <1>1, <1>6, <2>1, <4>1 DEF Mine
    <3> QED
      BY <3>1, <3>2
  <2> QED
    BY <2>3, <2>4, <2>5 DEF Run, Advance
<1>9. CASE PersistFails \/ \E j \in Jobs : Commit(j)
  <2>1. AfterDraft /\ draft \in Drafts /\ draft # None /\ proc' = proc
    BY <1>9 DEF PersistFails, Commit, TypeOK, AfterDraft
  <2>2. NoRequeue
    BY <1>9, <2>1 DEF PersistFails, Commit, TypeOK, Drafts, Terminal, NoRequeue
  <2>3. CASE draft.then \in {"tail", "notify"}
    <3>1. Become(draft.run, draft.then) /\ TickCalm /\ draft.run \in LiveRuns
      BY <2>1, <2>3 DEF AfterDraft, DraftInv, TickCalm
    <3> QED
      BY <1>1, <1>3, <2>2, <3>1
  <2>4. CASE draft.then = "exit"
    <3>1. Leave(draft.run) /\ TickCalm /\ draft.run \in LiveRuns
      BY <2>1, <2>4 DEF AfterDraft, DraftInv, TickCalm
    <3> QED
      BY <1>1, <1>2, <2>2, <3>1
  <2>5. CASE draft.then = "cut"
    <3>1. UNCHANGED <<phase, job, tasksByJob>> /\ TickCalm
      BY <2>1, <2>5 DEF AfterDraft, TickCalm
    <3> QED
      BY <1>1, <1>4, <2>2, <3>1
  <2>6. CASE draft.then = "claim"
    <3>1. UNCHANGED <<phase, job, tasksByJob>> /\ TickCalm
      BY <2>1, <2>6 DEF AfterDraft, DraftInv, OwnInv, TickCalm
    <3> QED
      BY <1>1, <1>4, <2>2, <3>1
  <2> QED
    BY <2>1, <2>3, <2>4, <2>5, <2>6 DEF Drafts
<1>10. CASE Crash \/ StopEnd
  <2>1. MemoryLost
    BY <1>10 DEF Crash, StopEnd
  <2>2. LiveRuns' = {} /\ tick' = "idle" /\ \A j \in Jobs : RunsOf(j)' = {}
    BY <2>1 DEF MemoryLost, LiveRuns, Live, RunsOf
  <2> QED
    BY <2>2 DEF OwnInv
<1>11. CASE \E t \in Threads : Handler(t) \/ \E op \in Ops, j \in Jobs : ApiRead(t, op, j)
  <2> PICK t \in Threads : Handler(t) \/ \E op \in Ops, j \in Jobs : ApiRead(t, op, j)
    BY <1>11
  <2>1. UNCHANGED <<phase, job, tasksByJob, tick, pick, proc>>
    BY DEF Handler, ApiRead, ApiWrite, ApiSignal
  <2>2. CASE ApiWrite(t)
    <3>1. Written[api[t].op] = "cancelled" \/ status' = status
      BY <2>2 DEF ApiWrite, CancelOnlyInv, TypeOK, BusyThreads, IdleThread, Written
    <3>2. NoRequeue
      BY <2>2, <3>1 DEF ApiWrite, TypeOK, NoRequeue
    <3> QED
      BY <1>1, <1>4, <2>1, <3>2 DEF TickCalm
  <2>3. CASE ~ApiWrite(t)
    BY <1>1, <1>4, <1>6, <2>1, <2>3 DEF Handler, ApiRead, ApiSignal, TickCalm
  <2> QED
    BY <2>2, <2>3
<1>12. CASE \/ \E j \in Jobs : CreateJob(j)
            \/ StopBegin \/ StopCancelsTasks \/ UNCHANGED vars
  <2>1. UNCHANGED <<phase, job, tasksByJob, tick, pick>> /\ (proc' = "down" => proc' = proc)
    BY <1>12 DEF CreateJob, StopBegin, StopCancelsTasks, CancelNow, vars
  <2>2. NoRequeue
    BY <1>12 DEF CreateJob, StopBegin, StopCancelsTasks, vars, NoRequeue, TypeOK
  <2>3. LiveRuns' \subseteq LiveRuns /\ Mine
    BY <1>4, <2>1
  <2>4. tick' = "claimed" => tick = "claimed" /\ pick' = pick /\ pick \in Jobs
                               /\ status'[pick] \notin {"absent", "pending"}
    <3>1. tick = "claimed" => pick \in Jobs /\ status[pick] \notin {"absent", "pending"}
      BY DEF OwnInv, TypeOK
    <3> QED
      BY <2>1, <2>2, <3>1 DEF NoRequeue
  <2>5. proc' = "down" => LiveRuns' = {} /\ tick' = "idle"
    BY <2>1, <2>3 DEF OwnInv
  <2> QED
    BY <2>2, <2>3, <2>4, <2>5, OwnShrink DEF Mine, NoRequeue
<1>13. CASE Boot
  <2>1. /\ UNCHANGED <<phase, job, tasksByJob, tick, pick>>
        /\ LiveRuns = {} /\ tick = "idle" /\ proc' = "up"
    BY <1>13 DEF Boot, OwnInv
  <2>2. LiveRuns' = {} /\ \A j \in Jobs : RunsOf(j)' = {}
    BY <2>1 DEF LiveRuns, RunsOf
  <2> QED
    BY <2>1, <2>2 DEF OwnInv
<1> QED
  BY <1>7, <1>8, <1>9, <1>10, <1>11, <1>12, <1>13 DEF Next
-----------------------------------------------------------------------------
(* What one step may do to a job row when cancellation is the only handler. *)
LEMMA RowStep ==
  ASSUME TypeOK, DraftInv, OwnInv, CancelOnlyInv, [Next]_vars, NEW j \in Jobs
  PROVE  \/ status'[j] = status[j]
         \/ status[j] = "absent" /\ status'[j] = "pending"
         \/ status[j] = "pending" /\ status'[j] = "processing"
         \/ status[j] = "processing" /\ status'[j] = "pending" /\ RunsOf(j) = {}
         \/ status'[j] \in Terminal
<1> USE DEF rowVars
<1>1. CASE \E i \in Jobs : CreateJob(i)
  BY <1>1 DEF CreateJob, TypeOK
<1>2. CASE RecoverOrphanedJobs
  BY <1>2, OrphansRunless DEF RecoverOrphanedJobs, Orphans
<1>3. CASE ClaimUpdate
  BY <1>3 DEF ClaimUpdate, TypeOK
<1>4. CASE PersistFails \/ \E i \in Jobs : Commit(i)
  <2>1. draft # None /\ (status' = status \/ \E i \in Jobs : status' = [status EXCEPT ![i] = draft.to])
    BY <1>4 DEF PersistFails, Commit
  <2> QED
    BY <2>1 DEF TypeOK, Drafts
<1>5. CASE \E t \in Threads : ApiWrite(t)
  <2> PICK t \in Threads : ApiWrite(t)
    BY <1>5
  <2>1. Written[api[t].op] = "cancelled"
    BY DEF ApiWrite, CancelOnlyInv, TypeOK, BusyThreads, IdleThread, Written
  <2> QED
    BY <2>1 DEF ApiWrite, TypeOK, Terminal
<1>6. CASE Boot
  BY <1>6 DEF Boot, OwnInv, RunsOf
<1>7. CASE \/ Tick /\ ~RecoverOrphanedJobs /\ ~ClaimUpdate
           \/ \E r \in Runs : Run(r)
  BY <1>7 DEF Tick, TickBegin, ReconcileCancelledSlots, CancelOverdueJob, OverdueEnd, ReplanEnd,
     OrphanRecoveryFails, SelectNextJob, StopClaiming, ClaimOfCancelledTask, Spawn, TickEnd,
     Run, Advance, Start, CancelBeforeStart, TailEnd, Exit, FailJobFromWorker, Unwind, Raise,
     RunLate, Finish
<1>8. CASE \/ \E t \in Threads : ApiSignal(t) \/ \E op \in Ops, i \in Jobs : ApiRead(t, op, i)
           \/ Crash \/ StopBegin \/ StopCancelsTasks \/ StopEnd \/ UNCHANGED vars
  BY <1>8 DEF ApiSignal, ApiRead, Crash, StopBegin, StopCancelsTasks, StopEnd, vars
<1> QED
  BY <1>1, <1>2, <1>3, <1>4, <1>5, <1>6, <1>7, <1>8 DEF Next, Handler
-----------------------------------------------------------------------------
(* The worker implements the abstract queue of module JobQueue.            *)

\* What is about to be written is the row of a job that exists, and a
\* coroutine that leaves after its write leaves the job it wrote.
PlaceInv ==
  /\ draft # None => status[draft.job] # "absent"
  /\ draft # None /\ draft.then = "exit" => job[draft.run] = draft.job
  /\ \A t \in Threads : api[t].at = "write" /\ api[t].open => status[api[t].job] # "absent"

LEMMA PlaceInit == Init => PlaceInv
BY DEF Init, PlaceInv, IdleThread

LEMMA PlaceStep == OwnIInv /\ PlaceInv /\ [Next]_vars => PlaceInv'
<1> SUFFICES ASSUME TypeOK, DraftInv, OwnInv, CancelOnlyInv, PlaceInv, [Next]_vars PROVE PlaceInv'
  BY DEF OwnIInv
<1> USE DEF rowVars, runVars, slotVars, tickVars, procVars
<1>1. \A j \in Jobs : status'[j] = "absent" => status[j] = "absent"
  BY RowStep DEF Terminal
<1>2. ASSUME draft' # None
      PROVE  status'[draft'.job] # "absent" /\ (draft'.then = "exit" => job'[draft'.run] = draft'.job)
  <2>1. CASE draft' = draft /\ job' = job
    <3>1. draft.job \in Jobs
      BY <1>2, <2>1 DEF TypeOK, Drafts
    <3> QED
      BY <1>1, <1>2, <2>1, <3>1 DEF PlaceInv
  <2>2. ASSUME NEW j \in Jobs, CancelOverdueJob(j), draft' # draft
        PROVE  status'[draft'.job] # "absent" /\ draft'.then # "exit"
    BY <2>2 DEF CancelOverdueJob
  <2>3. CASE ClaimOfCancelledTask
    BY <2>3 DEF ClaimOfCancelledTask, OwnInv, TypeOK
  <2>4. ASSUME NEW r \in Runs, Run(r), draft' # draft
        PROVE  /\ status'[draft'.job] # "absent"
               /\ draft'.then = "exit" => job'[draft'.run] = draft'.job
    <3>1. r \in LiveRuns /\ status' = status /\ job' = job /\ draft'.job = job[r] /\ draft'.run = r
      BY <2>4 DEF Run, Advance, Start, CancelBeforeStart, TailEnd, Exit, FailJobFromWorker,
                  Unwind, Raise, RunLate, Finish, LiveRuns, Live, Phases
    <3>2. job[r] \in Jobs /\ r \in RunsOf(job[r])
      BY <3>1 DEF TypeOK, LiveRuns, Live, RunsOf
    <3> QED
      BY <3>1, <3>2 DEF OwnInv
  <2>5. CASE \E r \in Runs : Spawn(r)
    BY <1>2, <2>5 DEF Spawn
  <2>6. \/ draft' = draft /\ job' = job
        \/ \E j \in Jobs : CancelOverdueJob(j) /\ draft' # draft
        \/ ClaimOfCancelledTask
        \/ \E r \in Runs : Spawn(r)
        \/ \E r \in Runs : Run(r) /\ draft' # draft
    <3>1. CASE Tick
      BY <3>1 DEF Tick, TickBegin, ReconcileCancelledSlots, CancelOverdueJob, OverdueEnd, ReplanEnd,
         RecoverOrphanedJobs, OrphanRecoveryFails, SelectNextJob, StopClaiming, ClaimUpdate,
         TickEnd, PruneInflight
    <3>2. ASSUME NEW r \in Runs, Run(r) PROVE job' = job
      BY <3>2 DEF Run, Advance, Start, CancelBeforeStart, TailEnd, Exit, FailJobFromWorker,
         Unwind, Raise, RunLate, Finish, Leave, Become
    <3>3. CASE PersistFails \/ (\E j \in Jobs : Commit(j)) \/ Crash \/ StopEnd
      BY <1>2, <3>3 DEF PersistFails, Commit, AfterDraft, Crash, StopEnd, MemoryLost
    <3>4. CASE \/ \E j \in Jobs : CreateJob(j)
               \/ \E t \in Threads : Handler(t) \/ \E op \in Ops, j \in Jobs : ApiRead(t, op, j)
               \/ StopBegin \/ StopCancelsTasks \/ Boot \/ UNCHANGED vars
      BY <3>4 DEF CreateJob, Handler, ApiWrite, ApiSignal, ApiRead, StopBegin, StopCancelsTasks, Boot, vars
    <3> QED
      BY <3>1, <3>2, <3>3, <3>4 DEF Next
  <2> QED
    BY <2>1, <2>2, <2>3, <2>4, <2>5, <2>6
<1>3. ASSUME NEW t \in Threads, api'[t].at = "write", api'[t].open
      PROVE  status'[api'[t].job] # "absent"
  <2>1. CASE api'[t] = api[t]
    <3>1. api[t].job \in Jobs
      BY <1>3, <2>1 DEF TypeOK, BusyThreads, IdleThread
    <3> QED
      BY <1>1, <1>3, <2>1, <3>1 DEF PlaceInv
  <2>2. CASE api'[t] # api[t]
    <3>1. PICK op \in Ops, j \in Jobs : ApiRead(t, op, j)
      <4>1. ASSUME NEW u \in Threads, Handler(u) PROVE FALSE
        <5>1. api'[u].at # "write" /\ (u # t => api'[t] = api[t])
          BY <4>1 DEF Handler, ApiWrite, ApiSignal, TypeOK, BusyThreads, IdleThread
        <5> QED
          BY <1>3, <2>2, <5>1
      <4>2. ASSUME Crash \/ StopEnd PROVE FALSE
        BY <1>3, <4>2 DEF Crash, StopEnd, MemoryLost, IdleThread
      <4>3. api' = api \/ (\E u \in Threads : Handler(u)) \/ Crash \/ StopEnd
            \/ \E u \in Threads, op \in Ops, j \in Jobs : ApiRead(u, op, j)
        BY DEF Next, CreateJob, Tick, TickBegin, ReconcileCancelledSlots, CancelOverdueJob, OverdueEnd,
           ReplanEnd, RecoverOrphanedJobs, OrphanRecoveryFails, SelectNextJob, StopClaiming,
           ClaimUpdate, ClaimOfCancelledTask, Spawn, TickEnd, Run, Advance, Start, CancelBeforeStart,
           TailEnd, Exit, FailJobFromWorker, Unwind, Raise, RunLate, Finish, PersistFails, Commit,
           AfterDraft, StopBegin, StopCancelsTasks, Boot, vars
      <4> QED
        BY <2>2, <4>1, <4>2, <4>3 DEF ApiRead, TypeOK
    <3>2. status[j] \in Open /\ status' = status /\ api'[t].job = j
      BY <1>3, <3>1 DEF ApiRead, TypeOK
    <3> QED
      BY <3>2 DEF Open
  <2> QED
    BY <2>1, <2>2
<1> QED
  BY <1>2, <1>3 DEF PlaceInv

\* Steps that end coroutines, and leave every job where it is in the queue.
LEMMA QueueKept ==
  ASSUME AbstractStage' = AbstractStage, AbstractBusy' \subseteq AbstractBusy
  PROVE  [Queue!Next]_<<AbstractStage, AbstractBusy>>
<1> DEFINE S == AbstractBusy \ AbstractBusy'
<1>1. S \in SUBSET Jobs /\ AbstractBusy' = AbstractBusy \ S
  BY DEF AbstractBusy
<1>2. CASE S = {}
  BY <1>1, <1>2
<1>3. CASE S # {}
  BY <1>1, <1>3 DEF Queue!Next, Queue!Vacate
<1> QED
  BY <1>2, <1>3

LEMMA BusyKept ==
  ASSUME LiveRuns' \subseteq LiveRuns, \A r \in LiveRuns' : job'[r] = job[r],
         tick' = "claimed" => tick = "claimed" /\ pick' = pick
  PROVE  AbstractBusy' \subseteq AbstractBusy
BY DEF AbstractBusy, RunsOf

LEMMA StageKept == status' = status => AbstractStage' = AbstractStage
BY DEF AbstractStage

\* A commit settles its job once; a second outcome only overwrites the first.
LEMMA QueueSettled ==
  ASSUME TypeOK, NEW j \in Jobs, NEW to \in Terminal,
         status[j] # "absent", status' = [status EXCEPT ![j] = to],
         AbstractBusy' \subseteq AbstractBusy, AbstractBusy \subseteq AbstractBusy' \cup {j}
  PROVE  [Queue!Next]_<<AbstractStage, AbstractBusy>>
<1>1. AbstractStage' = [AbstractStage EXCEPT ![j] = "settled"]
  BY DEF AbstractStage, TypeOK, Terminal
<1>2. AbstractBusy' \in {AbstractBusy, AbstractBusy \ {j}}
  OBVIOUS
<1>3. CASE status[j] \in Terminal
  <2>1. AbstractStage[j] = "settled"
    BY <1>3 DEF AbstractStage, Terminal
  <2>2. AbstractStage' = AbstractStage
    <3>1. AbstractStage = [i \in Jobs |-> AbstractStage[i]]
      BY DEF AbstractStage
    <3> QED
      BY <1>1, <2>1, <3>1
  <2> QED
    BY <2>2, QueueKept
<1>4. CASE status[j] \notin Terminal
  <2>1. AbstractStage[j] \in {"queued", "running"}
    BY <1>4 DEF AbstractStage, TypeOK, Statuses, Open
  <2> QED
    BY <1>1, <1>2, <2>1 DEF Queue!Next, Queue!Settle
<1> QED
  BY <1>3, <1>4

\* Every step of the worker is a step of the queue or leaves it alone.
LEMMA QueueStep ==
  OwnIInv /\ PlaceInv /\ [Next]_vars => [Queue!Next]_<<AbstractStage, AbstractBusy>>
<1> DEFINE Good == [Queue!Next]_<<AbstractStage, AbstractBusy>>
<1> SUFFICES ASSUME TypeOK, DraftInv, OwnInv, CancelOnlyInv, PlaceInv, [Next]_vars PROVE Good
  BY DEF OwnIInv
<1> USE DEF rowVars, runVars, slotVars, tickVars, procVars
<1>1. ASSUME status' = status, LiveRuns' \subseteq LiveRuns, \A r \in LiveRuns' : job'[r] = job[r],
             tick' = "claimed" => tick = "claimed" /\ pick' = pick
      PROVE  Good
  BY <1>1, BusyKept, StageKept, QueueKept
<1>2. ASSUME NEW j \in Jobs, CreateJob(j) PROVE Good
  <2>1. status[j] = "absent" /\ status' = [status EXCEPT ![j] = "pending"]
    BY <1>2, JobWorkerAssumption DEF CreateJob
  <2>2. AbstractBusy' = AbstractBusy
    BY <1>2 DEF CreateJob, AbstractBusy, RunsOf, LiveRuns
  <2>3. AbstractStage[j] = "none" /\ AbstractStage' = [AbstractStage EXCEPT ![j] = "queued"]
    BY <2>1 DEF AbstractStage, TypeOK
  <2> QED
    BY <2>2, <2>3 DEF Queue!Next, Queue!Submit
<1>3. CASE Tick
  <2>1. CASE RecoverOrphanedJobs
    <3>1. AbstractBusy' = AbstractBusy
      BY <2>1 DEF RecoverOrphanedJobs, AbstractBusy, RunsOf, LiveRuns
    <3>2. Orphans \in SUBSET Jobs /\ Orphans \cap AbstractBusy = {}
      BY <2>1, OrphansRunless DEF RecoverOrphanedJobs, Orphans, AbstractBusy
    <3>3. \A j \in Orphans : AbstractStage[j] = "running"
      BY DEF Orphans, AbstractStage
    <3>4. AbstractStage' = [j \in Jobs |-> IF j \in Orphans THEN "queued" ELSE AbstractStage[j]]
      <4> DEFINE Q == [j \in Jobs |-> IF j \in Orphans THEN "queued" ELSE AbstractStage[j]]
      <4>1. \A j \in Jobs : AbstractStage'[j] = Q[j]
        BY <2>1 DEF RecoverOrphanedJobs, AbstractStage
      <4> QED
        BY <4>1 DEF AbstractStage
    <3>5. CASE Orphans = {}
      <4>1. status' = status
        BY <2>1, <3>5 DEF RecoverOrphanedJobs, TypeOK
      <4> QED
        BY <3>1, <4>1, StageKept
    <3>6. CASE Orphans # {}
      BY <3>1, <3>2, <3>3, <3>4, <3>6 DEF Queue!Next, Queue!Requeue
    <3> QED
      BY <3>5, <3>6
  <2>2. CASE ClaimUpdate /\ status[pick] = "pending"
    <3>1. pick \in Jobs /\ status' = [status EXCEPT ![pick] = "processing"]
      BY <2>2 DEF ClaimUpdate, TypeOK
    <3>2. AbstractStage[pick] = "queued" /\ pick \notin AbstractBusy
      BY <2>2, <3>1 DEF ClaimUpdate, AbstractStage, AbstractBusy, OwnInv
    <3>3. AbstractBusy' = AbstractBusy \cup {pick}
      BY <2>2, <3>1 DEF ClaimUpdate, AbstractBusy, RunsOf, LiveRuns
    <3>4. AbstractStage' = [AbstractStage EXCEPT ![pick] = "running"]
      BY <3>1 DEF AbstractStage, TypeOK
    <3> QED
      BY <3>1, <3>2, <3>3, <3>4 DEF Queue!Next, Queue!Begin
  <2>3. ASSUME NEW r \in Runs, Spawn(r) PROVE Good
    <3>1. tick = "claimed" /\ pick \in Jobs /\ tick' = "claim" /\ status' = status
      BY <2>3 DEF Spawn, TypeOK
    <3>2. LiveRuns' \subseteq LiveRuns \cup {r} /\ job'[r] = pick /\ r \notin LiveRuns
      BY <2>3 DEF Spawn, LiveRuns, Live, TypeOK
    <3>3. \A s \in LiveRuns : job'[s] = job[s]
      BY <2>3, <3>2 DEF Spawn, TypeOK, LiveRuns
    <3>4. AbstractBusy' \subseteq AbstractBusy
      BY <3>1, <3>2, <3>3 DEF AbstractBusy, RunsOf
    <3> QED
      BY <3>1, <3>4, StageKept, QueueKept
  <2>4. CASE TickBegin \/ OverdueEnd \/ ReplanEnd
    <3>1. status' = status /\ job' = job /\ tick' # "claimed" /\ PruneInflight
      BY <2>4 DEF TickBegin, OverdueEnd, ReplanEnd, PruneInflight
    <3>2. LiveRuns' \subseteq LiveRuns
      BY <3>1 DEF PruneInflight, LiveRuns, Live, TypeOK
    <3> QED
      BY <1>1, <3>1, <3>2
  <2>5. CASE \/ ReconcileCancelledSlots \/ OrphanRecoveryFails \/ TickEnd \/ ClaimOfCancelledTask
             \/ \E j \in Jobs : CancelOverdueJob(j)
             \/ \E k \in Kinds : SelectNextJob(k) \/ StopClaiming(k)
             \/ ClaimUpdate /\ status[pick] # "pending"
    <3>1. status' = status /\ job' = job /\ phase' = phase
          /\ (tick' = "claimed" => tick = "claimed" /\ pick' = pick)
      BY <2>5 DEF ReconcileCancelledSlots, OrphanRecoveryFails, TickEnd, ClaimOfCancelledTask,
         CancelOverdueJob, SelectNextJob, StopClaiming, ClaimUpdate, CancelNow
    <3> QED
      BY <1>1, <3>1 DEF LiveRuns
  <2> QED
    BY <1>3, <2>1, <2>2, <2>3, <2>4, <2>5 DEF Tick
<1>4. ASSUME NEW r \in Runs, Run(r) PROVE Good
  <2>1. status' = status /\ job' = job /\ UNCHANGED <<tick, pick>>
    BY <1>4 DEF Run, Advance, Start, CancelBeforeStart, TailEnd, Exit, FailJobFromWorker,
       Unwind, Raise, RunLate, Finish, Leave, Become
  <2>2. LiveRuns' \subseteq LiveRuns
    BY <1>4 DEF Run, Advance, Start, CancelBeforeStart, TailEnd, Exit, FailJobFromWorker,
       Unwind, Raise, RunLate, Finish, Leave, Become, LiveRuns, Live, Phases, TypeOK
  <2> QED
    BY <1>1, <2>1, <2>2
<1>5. ASSUME draft # None, AfterDraft
      PROVE  AbstractBusy' \subseteq AbstractBusy /\ AbstractBusy \subseteq AbstractBusy' \cup {draft.job}
  <2>1. draft \in Drafts
    BY <1>5 DEF TypeOK
  <2>2. CASE draft.then \in {"tail", "notify"}
    <3>1. LiveRuns' = LiveRuns /\ job' = job /\ UNCHANGED <<tick, pick>>
      BY <1>5, <2>2 DEF AfterDraft, Become, DraftInv, LiveRuns, Live, Phases, TypeOK
    <3> QED
      BY <3>1 DEF AbstractBusy, RunsOf
  <2>3. CASE draft.then = "exit"
    <3>1. LiveRuns' = LiveRuns \ {draft.run} /\ job' = job /\ UNCHANGED <<tick, pick>>
      BY <1>5, <2>3 DEF AfterDraft, Leave, DraftInv, LiveRuns, Live, TypeOK
    <3>2. job[draft.run] = draft.job
      BY <1>5, <2>3 DEF PlaceInv
    <3> QED
      BY <3>1, <3>2 DEF AbstractBusy, RunsOf
  <2>4. CASE draft.then = "cut"
    <3>1. LiveRuns' = LiveRuns /\ job' = job /\ UNCHANGED <<tick, pick>>
      BY <1>5, <2>4 DEF AfterDraft, CancelNow, LiveRuns
    <3> QED
      BY <3>1 DEF AbstractBusy, RunsOf
  <2>5. CASE draft.then = "claim"
    <3>1. LiveRuns' = LiveRuns /\ job' = job /\ tick' = "claim" /\ tick = "claimed" /\ pick = draft.job
      BY <1>5, <2>5 DEF AfterDraft, DraftInv, LiveRuns
    <3> QED
      BY <3>1 DEF AbstractBusy, RunsOf
  <2> QED
    BY <2>1, <2>2, <2>3, <2>4, <2>5 DEF Drafts
<1>6. ASSUME NEW j \in Jobs, Commit(j) PROVE Good
  <2>1. /\ draft # None /\ AfterDraft /\ draft.job = j
        /\ status' = [status EXCEPT ![j] = draft.to] /\ draft.to \in Terminal
    BY <1>6 DEF Commit, TypeOK, Drafts
  <2>2. status[j] # "absent"
    BY <2>1 DEF PlaceInv
  <2> QED
    BY <1>5, <2>1, <2>2, QueueSettled
<1>7. CASE PersistFails
  <2>1. draft # None /\ AfterDraft /\ status' = status
    BY <1>7 DEF PersistFails
  <2> QED
    BY <1>5, <2>1, StageKept, QueueKept
<1>8. ASSUME NEW t \in Threads, ApiWrite(t) PROVE Good
  <2>1. LiveRuns' = LiveRuns /\ job' = job /\ UNCHANGED <<tick, pick>>
    BY <1>8 DEF ApiWrite, LiveRuns
  <2>2. CASE api[t].open
    <3>1. api[t].job \in Jobs /\ Written[api[t].op] = "cancelled" /\ status[api[t].job] # "absent"
      BY <1>8, <2>2 DEF ApiWrite, CancelOnlyInv, PlaceInv, TypeOK, BusyThreads, IdleThread, Written
    <3>2. status' = [status EXCEPT ![api[t].job] = "cancelled"]
      BY <1>8, <2>2, <3>1 DEF ApiWrite
    <3>3. AbstractBusy' = AbstractBusy
      BY <2>1 DEF AbstractBusy, RunsOf
    <3> QED
      BY <3>1, <3>2, <3>3, QueueSettled DEF Terminal
  <2>3. CASE ~api[t].open
    <3>1. status' = status
      BY <1>8, <2>3 DEF ApiWrite
    <3> QED
      BY <1>1, <2>1, <3>1
  <2> QED
    BY <2>2, <2>3
<1>9. CASE Crash \/ StopEnd
  <2>1. status' = status /\ LiveRuns' = {} /\ tick' # "claimed"
    BY <1>9 DEF Crash, StopEnd, MemoryLost, LiveRuns, Live
  <2> QED
    BY <1>1, <2>1
<1>10. CASE Boot
  <2> DEFINE S == {j \in Jobs : status[j] = "processing"}
  <2>1. AbstractBusy = {} /\ AbstractBusy' = {}
    BY <1>10 DEF Boot, OwnInv, AbstractBusy, RunsOf, LiveRuns
  <2>2. status' = [j \in Jobs |-> IF j \in S THEN "pending" ELSE status[j]]
    BY <1>10 DEF Boot
  <2>3. AbstractStage' = [j \in Jobs |-> IF j \in S THEN "queued" ELSE AbstractStage[j]]
    <3> DEFINE Q == [j \in Jobs |-> IF j \in S THEN "queued" ELSE AbstractStage[j]]
    <3>1. \A j \in Jobs : AbstractStage'[j] = Q[j]
      BY <2>2 DEF AbstractStage
    <3> QED
      BY <3>1 DEF AbstractStage
  <2>4. \A j \in S : AbstractStage[j] = "running"
    BY DEF AbstractStage
  <2>5. S \in SUBSET Jobs
    OBVIOUS
  <2>6. CASE S = {}
    <3>1. status' = status
      BY <2>2, <2>6 DEF TypeOK
    <3> QED
      BY <2>1, <3>1, StageKept
  <2>7. CASE S # {}
    <3> HIDE DEF S
    <3> QED
      BY <2>1, <2>3, <2>4, <2>5, <2>7 DEF Queue!Next, Queue!Requeue
  <2> QED
    BY <2>6, <2>7
<1>11. CASE \/ \E t \in Threads : ApiSignal(t) \/ \E op \in Ops, j \in Jobs : ApiRead(t, op, j)
            \/ StopBegin \/ StopCancelsTasks \/ UNCHANGED vars
  <2>1. status' = status /\ job' = job /\ phase' = phase /\ UNCHANGED <<tick, pick>>
    BY <1>11 DEF ApiSignal, ApiRead, StopBegin, StopCancelsTasks, CancelNow, vars
  <2> QED
    BY <1>1, <2>1 DEF LiveRuns
<1> QED
  BY <1>2, <1>3, <1>4, <1>6, <1>7, <1>8, <1>9, <1>10, <1>11 DEF Next, Handler
-----------------------------------------------------------------------------
(* The theorems.                                                           *)

\* Every variable keeps its type, and a write of the event loop that is not
\* yet committed belongs to a living coroutine or to the loop's own position.
THEOREM TypeCorrect == Spec => [](TypeOK /\ DraftInv)
<1>1. Init => TypeOK /\ DraftInv
  BY TypeInit, DraftInit
<1>2. TypeOK /\ DraftInv /\ [Next]_vars => (TypeOK /\ DraftInv)'
  BY TypeStep, DraftStep
<1> QED
  BY <1>1, <1>2, PTL DEF Spec

\* The coroutines alive for a kind never exceed its concurrency limit
\* (JobWorker._tick), whatever is cancelled, abandoned, paused or restarted.
THEOREM LimitRespected == Spec => []SlotLimit
<1>1. Init => SlotInv
  BY SlotInit
<1>2. TypeOK /\ DraftInv /\ SlotInv /\ [Next]_vars => SlotInv'
  BY SlotStep
<1>3. TypeOK /\ SlotInv => SlotLimit
  <2> SUFFICES ASSUME TypeOK, SlotInv, NEW k \in Kinds
               PROVE  Cardinality({r \in LiveRuns : KindOf[job[r]] = k}) <= Limit[k]
    BY DEF SlotLimit
  <2> DEFINE S == {r \in LiveRuns : KindOf[job[r]] = k}
  <2>1. S \subseteq Slots(k)
    BY DEF SlotInv, Slots
  <2> HIDE DEF S
  <2>2. Cardinality(S) \in Nat /\ Cardinality(Slots(k)) \in Nat
        /\ Cardinality(S) <= Cardinality(Slots(k))
    BY <2>1, SlotsFinite
  <2>3. Cardinality(S) <= Limit[k]
    BY <2>2 DEF SlotInv
  <2> QED
    BY <2>3 DEF S
<1> QED
  BY <1>1, <1>2, <1>3, TypeCorrect, PTL DEF Spec

\* Cancellation being the only handler, the invariants about owners hold.
LEMMA Owners ==
  ASSUME Ops \subseteq {"cancel", "cancelTask"}
  PROVE  Spec => []OwnIInv
<1>1. Init => OwnIInv
  BY TypeInit, DraftInit, OwnInit DEF OwnIInv
<1>2. OwnIInv /\ [Next]_vars => OwnIInv'
  BY TypeStep, DraftStep, OwnStep, CancelOnlyStep DEF OwnIInv
<1> QED
  BY <1>1, <1>2, PTL DEF Spec

\* A job is executed by at most one coroutine at a time, through orphan
\* recovery, watchdog, cancellation, crashes and restarts.  The assumption is
\* needed: a stale pause followed by a resume queues a running job again.
THEOREM OneRunPerJob ==
  ASSUME Ops \subseteq {"cancel", "cancelTask"}
  PROVE  Spec => []NoDoubleRun
<1>1. OwnIInv => NoDoubleRun
  BY DEF OwnIInv, OwnInv, NoDoubleRun
<1> QED
  BY <1>1, Owners, PTL

\* Orphan recovery and restart re-queue only jobs no coroutine executes.
THEOREM OnlyAbandonedRequeued ==
  ASSUME Ops \subseteq {"cancel", "cancelTask"}
  PROVE  Spec => RequeueOnlyAbandoned
<1>1. OwnIInv /\ [Next]_vars =>
        [\A j \in Jobs : status[j] = "processing" /\ status'[j] = "pending" => RunsOf(j) = {}]_vars
  BY RowStep DEF OwnIInv, Terminal
<1> QED
  BY <1>1, Owners, PTL DEF Spec, RequeueOnlyAbandoned

\* A job that was completed, failed or cancelled is never re-opened by a
\* claim, a recovery or a stale write.
THEOREM FinishedNeverReopened ==
  ASSUME Ops \subseteq {"cancel", "cancelTask"}
  PROVE  Spec => FinishedStaysFinished
<1>1. OwnIInv /\ [Next]_vars =>
        [\A j \in Jobs : status[j] \in Terminal => status'[j] \in Terminal]_vars
  <2> SUFFICES ASSUME OwnIInv, [Next]_vars, NEW j \in Jobs, status[j] \in Terminal
               PROVE  status'[j] \in Terminal
    OBVIOUS
  <2> QED
    BY RowStep DEF OwnIInv, Terminal
<1> QED
  BY <1>1, Owners, PTL DEF Spec, FinishedStaysFinished

\* The worker, its coroutines and the cancelling threads together implement
\* the abstract queue, crashes and restarts included: a job is queued, taken up
\* by one execution, settled once, and returned to the queue only when nothing
\* executes it (queue.py and worker.py together).
THEOREM WorkerImplementsQueue ==
  ASSUME Ops \subseteq {"cancel", "cancelTask"}
  PROVE  Spec => ImplementsJobQueue
<1>1. Init => Queue!Init
  BY DEF Init, Queue!Init, AbstractStage, AbstractBusy, RunsOf, LiveRuns, Live
<1>2. Init => PlaceInv
  BY PlaceInit
<1>3. OwnIInv /\ PlaceInv /\ [Next]_vars => PlaceInv'
  BY PlaceStep
<1>4. OwnIInv /\ PlaceInv /\ [Next]_vars => [Queue!Next]_<<AbstractStage, AbstractBusy>>
  BY QueueStep
<1> QED
  BY <1>1, <1>2, <1>3, <1>4, Owners, PTL DEF Spec, ImplementsJobQueue, Queue!Spec
=============================================================================
