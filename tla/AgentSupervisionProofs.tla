---------------------- MODULE AgentSupervisionProofs ----------------------
(***************************************************************************)
(* Proofs about AgentDispatch, continued: who ends a run, what recovery    *)
(* and finalization find, where an instruction is, and what a retry costs. *)
(* CoreInv is inductive by itself (AgentDispatchProofs); the three parts   *)
(* DispatchInv adds to it are each preserved while CoreInv holds.          *)
(***************************************************************************)
EXTENDS AgentDispatchProofs, FiniteSetTheorems

----------------------------------------------------------------------------
(* LaunchPhases: memory, gate and marker of a run.                         *)

LEMMA BindRunLaunch ==
    ASSUME NEW r \in Runs, CoreInv, LaunchPhases, BindRun(r)
    PROVE  LaunchPhases'
<1> SUFFICES ASSUME NEW q \in Runs PROVE LaunchFits(q)'
  BY DEF LaunchPhases
<1>1. TypeOK /\ HandlePhases /\ RunPhases /\ TickPhases /\ LaunchFits(q)
  BY DEF CoreInv, LaunchPhases
<1> QED
  BY <1>1 DEF BindRun, InsertRun, Put, LaunchFits, Active, Executed, TypeOK, HandlePhases,
     RunPhases, TickPhases, InLaunch, Outcomes, PreMarker, PostMarker

LEMMA BindUnreadLaunch ==
    ASSUME NEW r \in Runs, NEW released \in BOOLEAN, CoreInv, LaunchPhases, BindUnread(r, released)
    PROVE  LaunchPhases'
<1> SUFFICES ASSUME NEW q \in Runs PROVE LaunchFits(q)'
  BY DEF LaunchPhases
<1>1. TypeOK /\ HandlePhases /\ RunPhases /\ TickPhases /\ LaunchFits(q)
  BY DEF CoreInv, LaunchPhases
<1> QED
  BY <1>1 DEF BindUnread, InsertRun, Put, LaunchFits, Active, Executed, TypeOK,
     HandlePhases, RunPhases, TickPhases, InLaunch, Outcomes, PreMarker, PostMarker

LEMMA SpawnLaunch ==
    ASSUME NEW r \in Runs, CoreInv, LaunchPhases, Spawn(r)
    PROVE  LaunchPhases'
<1> SUFFICES ASSUME NEW q \in Runs PROVE LaunchFits(q)'
  BY DEF LaunchPhases
<1>1. TypeOK /\ HandlePhases /\ RunPhases /\ TickPhases /\ LaunchFits(q)
  BY DEF CoreInv, LaunchPhases
<1> QED
  BY <1>1 DEF Spawn, eventRows, runRows, ivRows, tick, history, LaunchFits, Active,
     Executed, TypeOK, HandlePhases, RunPhases, TickPhases, InLaunch, Outcomes, PreMarker,
     PostMarker

LEMMA MarkRunningLaunch ==
    ASSUME NEW r \in Runs, CoreInv, LaunchPhases, MarkRunning(r)
    PROVE  LaunchPhases'
<1> SUFFICES ASSUME NEW q \in Runs PROVE LaunchFits(q)'
  BY DEF LaunchPhases
<1>1. TypeOK /\ HandlePhases /\ RunPhases /\ TickPhases /\ LaunchFits(q)
  BY DEF CoreInv, LaunchPhases
<1> QED
  BY <1>1 DEF MarkRunning, Put, eventRows, procs, tick, history, LaunchFits, Active,
     Executed, TypeOK, HandlePhases, RunPhases, TickPhases, InLaunch, Outcomes, PreMarker,
     PostMarker

LEMMA RequestReleaseLaunch ==
    ASSUME NEW r \in Runs, CoreInv, LaunchPhases, RequestRelease(r)
    PROVE  LaunchPhases'
<1> SUFFICES ASSUME NEW q \in Runs PROVE LaunchFits(q)'
  BY DEF LaunchPhases
<1>1. TypeOK /\ HandlePhases /\ RunPhases /\ TickPhases /\ LaunchFits(q)
  BY DEF CoreInv, LaunchPhases
<1> QED
  BY <1>1 DEF RequestRelease, eventRows, ivRows, procs, tick, history, LaunchFits, Active,
     Executed, TypeOK, HandlePhases, RunPhases, TickPhases, InLaunch, Outcomes, PreMarker,
     PostMarker

LEMMA PublishMarkerLaunch ==
    ASSUME NEW r \in Runs, CoreInv, LaunchPhases, PublishMarker(r)
    PROVE  LaunchPhases'
<1> SUFFICES ASSUME NEW q \in Runs PROVE LaunchFits(q)'
  BY DEF LaunchPhases
<1>1. TypeOK /\ HandlePhases /\ RunPhases /\ TickPhases /\ LaunchFits(q)
  BY DEF CoreInv, LaunchPhases
<1> QED
  BY <1>1 DEF PublishMarker, eventRows, runRows, ivRows, tick, history, LaunchFits,
     Active, Executed, TypeOK, HandlePhases, RunPhases, TickPhases, InLaunch, Outcomes,
     PreMarker, PostMarker

LEMMA ReleaseLaunch ==
    ASSUME NEW r \in Runs, CoreInv, LaunchPhases, Release(r)
    PROVE  LaunchPhases'
<1> SUFFICES ASSUME NEW q \in Runs PROVE LaunchFits(q)'
  BY DEF LaunchPhases
<1>1. TypeOK /\ HandlePhases /\ RunPhases /\ TickPhases /\ LaunchFits(q)
  BY DEF CoreInv, LaunchPhases
<1> QED
  BY <1>1 DEF Release, eventRows, runRows, ivRows, tick, history, LaunchFits, Active,
     Executed, TypeOK, HandlePhases, RunPhases, TickPhases, InLaunch, Outcomes, PreMarker,
     PostMarker

LEMMA AckDispatchLaunch ==
    ASSUME NEW r \in Runs, CoreInv, LaunchPhases, AckDispatch(r)
    PROVE  LaunchPhases'
<1> SUFFICES ASSUME NEW q \in Runs PROVE LaunchFits(q)'
  BY DEF LaunchPhases
<1>1. TypeOK /\ HandlePhases /\ RunPhases /\ TickPhases /\ LaunchFits(q)
  BY DEF CoreInv, LaunchPhases
<1> QED
  BY <1>1 DEF AckDispatch, AcknowledgeDispatch, Put, ivRows, procs, history, LaunchFits,
     Active, Executed, TypeOK, HandlePhases, RunPhases, TickPhases, InLaunch, Outcomes,
     PreMarker, PostMarker

LEMMA AckUnreadLaunch ==
    ASSUME NEW r \in Runs, CoreInv, LaunchPhases, AckUnread(r)
    PROVE  LaunchPhases'
<1> SUFFICES ASSUME NEW q \in Runs PROVE LaunchFits(q)'
  BY DEF LaunchPhases
<1>1. TypeOK /\ HandlePhases /\ RunPhases /\ TickPhases /\ LaunchFits(q)
  BY DEF CoreInv, LaunchPhases
<1> QED
  BY <1>1 DEF AckUnread, AcknowledgeDispatch, Put, ivRows, procs, history, LaunchFits,
     Active, Executed, TypeOK, HandlePhases, RunPhases, TickPhases, InLaunch, Outcomes,
     PreMarker, PostMarker

LEMMA LaunchFailsLaunch ==
    ASSUME NEW r \in Runs, NEW v \in Verdict, CoreInv, LaunchPhases, LaunchFails(r, v)
    PROVE  LaunchPhases'
<1> SUFFICES ASSUME NEW q \in Runs PROVE LaunchFits(q)'
  BY DEF LaunchPhases
<1>1. TypeOK /\ HandlePhases /\ RunPhases /\ TickPhases /\ LaunchFits(q)
  BY DEF CoreInv, LaunchPhases
<1> QED
  BY <1>1 DEF LaunchFails, FailureVerdict, eventRows, runRows, ivRows, procs, history,
     LaunchFits, Active, Executed, TypeOK, HandlePhases, RunPhases, TickPhases, InLaunch,
     Outcomes, PreMarker, PostMarker

LEMMA KillChildLaunch ==
    ASSUME NEW r \in Runs, CoreInv, LaunchPhases, KillChild(r)
    PROVE  LaunchPhases'
<1> SUFFICES ASSUME NEW q \in Runs PROVE LaunchFits(q)'
  BY DEF LaunchPhases
<1>1. TypeOK /\ HandlePhases /\ RunPhases /\ TickPhases /\ LaunchFits(q)
  BY DEF CoreInv, LaunchPhases
<1> QED
  BY <1>1 DEF KillChild, Live, eventRows, runRows, ivRows, tick, handles, history,
     LaunchFits, Active, Executed, TypeOK, HandlePhases, RunPhases, TickPhases, InLaunch,
     Outcomes, PreMarker, PostMarker

LEMMA RecordEvidenceLaunch ==
    ASSUME NEW r \in Runs, CoreInv, LaunchPhases, RecordEvidence(r)
    PROVE  LaunchPhases'
<1> SUFFICES ASSUME NEW q \in Runs PROVE LaunchFits(q)'
  BY DEF LaunchPhases
<1>1. TypeOK /\ HandlePhases /\ RunPhases /\ TickPhases /\ LaunchFits(q)
  BY DEF CoreInv, LaunchPhases
<1> QED
  BY <1>1 DEF RecordEvidence, CanFinalize, eventRows, ivRows, procs, tick, handles,
     history, LaunchFits, Active, Executed, TypeOK, HandlePhases, RunPhases, TickPhases,
     InLaunch, Outcomes, PreMarker, PostMarker

LEMMA FinalizeCleanupLaunch ==
    ASSUME NEW r \in Runs, CoreInv, LaunchPhases, FinalizeCleanup(r)
    PROVE  LaunchPhases'
<1> SUFFICES ASSUME NEW q \in Runs PROVE LaunchFits(q)'
  BY DEF LaunchPhases
<1>1. TypeOK /\ HandlePhases /\ RunPhases /\ TickPhases /\ LaunchFits(q)
  BY DEF CoreInv, LaunchPhases
<1> QED
  BY <1>1 DEF FinalizeCleanup, Finalize, RunEnd, CanFinalize, Put, Live, procs, tick,
     history, LaunchFits, Active, Executed, TypeOK, HandlePhases, RunPhases, TickPhases,
     InLaunch, Outcomes, PreMarker, PostMarker

LEMMA ObserveExitLaunch ==
    ASSUME NEW r \in Runs, NEW v \in Outcomes, CoreInv, LaunchPhases, ObserveExit(r, v)
    PROVE  LaunchPhases'
<1> SUFFICES ASSUME NEW q \in Runs PROVE LaunchFits(q)'
  BY DEF LaunchPhases
<1>1. TypeOK /\ HandlePhases /\ RunPhases /\ TickPhases /\ LaunchFits(q)
  BY DEF CoreInv, LaunchPhases
<1> QED
  BY <1>1 DEF ObserveExit, TickMayStart, eventRows, runRows, ivRows, procs, tick, history,
     LaunchFits, Active, Executed, TypeOK, HandlePhases, RunPhases, TickPhases, InLaunch,
     Outcomes, PreMarker, PostMarker

LEMMA TimeOutLaunch ==
    ASSUME NEW r \in Runs, CoreInv, LaunchPhases, TimeOut(r)
    PROVE  LaunchPhases'
<1> SUFFICES ASSUME NEW q \in Runs PROVE LaunchFits(q)'
  BY DEF LaunchPhases
<1>1. TypeOK /\ HandlePhases /\ RunPhases /\ TickPhases /\ LaunchFits(q)
  BY DEF CoreInv, LaunchPhases
<1> QED
  BY <1>1 DEF TimeOut, MayPoll, TickMayStart, eventRows, runRows, ivRows, tick, history,
     LaunchFits, Active, Executed, TypeOK, HandlePhases, RunPhases, TickPhases, InLaunch,
     Outcomes, PreMarker, PostMarker

LEMMA FinalizeRunLaunch ==
    ASSUME NEW r \in Runs, NEW emptied \in BOOLEAN, CoreInv, LaunchPhases, FinalizeRun(r, emptied)
    PROVE  LaunchPhases'
<1> SUFFICES ASSUME NEW q \in Runs PROVE LaunchFits(q)'
  BY DEF LaunchPhases
<1>1. TypeOK /\ HandlePhases /\ RunPhases /\ TickPhases /\ LaunchFits(q)
  BY DEF CoreInv, LaunchPhases
<1> QED
  BY <1>1 DEF FinalizeRun, Finalize, RunEnd, CanFinalize, Put, MayPoll, TickMayStart,
     procs, tick, history, LaunchFits, Active, Executed, TypeOK, HandlePhases, RunPhases,
     TickPhases, InLaunch, Outcomes, PreMarker, PostMarker

LEMMA EmptyTempLaunch ==
    ASSUME NEW r \in Runs, CoreInv, LaunchPhases, EmptyTemp(r)
    PROVE  LaunchPhases'
<1> SUFFICES ASSUME NEW q \in Runs PROVE LaunchFits(q)'
  BY DEF LaunchPhases
<1>1. TypeOK /\ HandlePhases /\ RunPhases /\ TickPhases /\ LaunchFits(q)
  BY DEF CoreInv, LaunchPhases
<1> QED
  BY <1>1 DEF EmptyTemp, MayPoll, TickMayStart, eventRows, runRows, ivRows, procs, tick,
     history, LaunchFits, Active, Executed, TypeOK, HandlePhases, RunPhases, TickPhases,
     InLaunch, Outcomes, PreMarker, PostMarker

LEMMA LoseOwnershipLaunch ==
    ASSUME NEW r \in Runs, CoreInv, LaunchPhases, LoseOwnership(r)
    PROVE  LaunchPhases'
<1> SUFFICES ASSUME NEW q \in Runs PROVE LaunchFits(q)'
  BY DEF LaunchPhases
<1>1. TypeOK /\ HandlePhases /\ RunPhases /\ TickPhases /\ LaunchFits(q)
  BY DEF CoreInv, LaunchPhases
<1> QED
  BY <1>1 DEF LoseOwnership, TickMayStart, eventRows, runRows, ivRows, procs, tick,
     history, LaunchFits, Active, Executed, TypeOK, HandlePhases, RunPhases, TickPhases,
     InLaunch, Outcomes, PreMarker, PostMarker

LEMMA AgentExitsLaunch ==
    ASSUME NEW r \in Runs, CoreInv, LaunchPhases, AgentExits(r)
    PROVE  LaunchPhases'
<1> SUFFICES ASSUME NEW q \in Runs PROVE LaunchFits(q)'
  BY DEF LaunchPhases
<1>1. TypeOK /\ HandlePhases /\ RunPhases /\ TickPhases /\ LaunchFits(q)
  BY DEF CoreInv, LaunchPhases
<1> QED
  BY <1>1 DEF AgentExits, eventRows, runRows, ivRows, tick, handles, history, LaunchFits,
     Active, Executed, TypeOK, HandlePhases, RunPhases, TickPhases, InLaunch, Outcomes,
     PreMarker, PostMarker

\* Steps that touch no run, and do not make the daemon ready.
LEMMA LaunchKept ==
    ASSUME CoreInv, LaunchPhases, RunsUntouched, daemon' = "ready" => daemon = "ready"
    PROVE  LaunchPhases'
BY DEF LaunchPhases, LaunchFits, Active, Executed, RunsUntouched, runRows, procs, handles

\* A daemon that dies leaves rows and markers; blocked helpers go with it.
LEMMA DaemonEndsLaunch ==
    ASSUME CoreInv, LaunchPhases, DaemonEnds
    PROVE  LaunchPhases'
<1> SUFFICES ASSUME NEW q \in Runs PROVE LaunchFits(q)'
  BY DEF LaunchPhases
<1>1. TypeOK /\ LaunchFits(q)
  BY DEF CoreInv, LaunchPhases
<1> QED
  BY <1>1 DEF DaemonEnds, TypeOK, LaunchFits, Active, Executed, eventRows, runRows, ivRows

LEMMA RecoverLaunch ==
    ASSUME NEW U \in SUBSET Runs, NEW Y \in SUBSET Interventions,
           CoreInv, LaunchPhases, Recover(U, Y)
    PROVE  LaunchPhases'
<1> SUFFICES ASSUME NEW q \in Runs PROVE LaunchFits(q)'
  BY DEF LaunchPhases
<1>1. TypeOK /\ TickPhases /\ LaunchFits(q)
  BY DEF CoreInv, LaunchPhases
<1>2. /\ handle'[q] = "none" /\ ~Active(q)'
      /\ UNCHANGED <<marker, child>>
  BY <1>1, RecoverLeaves DEF Recover, TickPhases, handles, procs
<1>3. runStatus'[q] # "running"
  BY <1>2 DEF Active
<1>4. CASE Active(q)
  <2>. runStatus'[q] = "failed"
    BY <1>1, <1>4 DEF Recover, Put, TypeOK
  <2>1. Executed(q) => gate'[q] = "released"
    <3> SUFFICES ASSUME Executed(q) PROVE gate'[q] = "released"
      OBVIOUS
    <3>1. RecoveryVerdict(q, U) = "post_unknown"
      BY <1>4, RecoverySeesExecution
    <3>2. ExecutionUnknown(q, U)
      BY <3>1 DEF RecoveryVerdict
    <3> QED
      BY <1>4, <3>2 DEF Recover
  <2> QED
    BY <1>2, <1>3, <2>1 DEF LaunchFits, Executed
<1>5. CASE ~Active(q)
  <2>1. gate'[q] = gate[q] /\ ending'[q] = ending[q] /\ runStatus'[q] = runStatus[q]
    BY <1>1, <1>5 DEF Recover, Put, TypeOK
  <2> QED
    BY <1>1, <1>2, <1>3, <1>5, <2>1 DEF LaunchFits, Executed
<1> QED
  BY <1>4, <1>5

LEMMA SchedulerServes == SchedulerStep /\ TickPhases /\ daemon' = "ready" => daemon = "ready"
BY DEF SchedulerStep, RecoverClaims, RecoverReservations, ClaimBatch, RotateBlocked, Defer,
   CompleteRetired, FailBatch, BlockUnbound, RetryUnbound, TickFails, Reserve, ReleaseHeld,
   TickMayStart, TickPhases

LEMMA LaunchInductive == CoreInv /\ LaunchPhases /\ [Next]_vars => LaunchPhases'
<1> SUFFICES ASSUME CoreInv, LaunchPhases, [Next]_vars PROVE LaunchPhases'
  OBVIOUS
<1>1. ASSUME NEW e \in Events, CreateEvent(e) PROVE LaunchPhases'
  BY <1>1, LaunchKept DEF CreateEvent, RunsUntouched
<1>2. ASSUME NEW i \in Interventions, AddIntervention(i) PROVE LaunchPhases'
  BY <1>2, LaunchKept DEF AddIntervention, RunsUntouched
<1>3. CASE SchedulerStep
  BY <1>3, SchedulerFrame, SchedulerServes, LaunchKept DEF CoreInv
<1>4. ASSUME NEW r \in Runs, LaunchStep(r) PROVE LaunchPhases'
  BY <1>4, BindRunLaunch, BindUnreadLaunch, SpawnLaunch, MarkRunningLaunch, RequestReleaseLaunch,
     PublishMarkerLaunch, ReleaseLaunch, AckDispatchLaunch, AckUnreadLaunch, LaunchFailsLaunch
     DEF LaunchStep
<1>5. ASSUME NEW r \in Runs, CleanupStep(r) PROVE LaunchPhases'
  BY <1>5, KillChildLaunch, RecordEvidenceLaunch, FinalizeCleanupLaunch DEF CleanupStep
<1>6. ASSUME NEW r \in Runs, PollStep(r) PROVE LaunchPhases'
  BY <1>6, ObserveExitLaunch, TimeOutLaunch, FinalizeRunLaunch, EmptyTempLaunch,
     LoseOwnershipLaunch DEF PollStep
<1>7. ASSUME NEW r \in Runs, AgentExits(r) PROVE LaunchPhases'
  BY <1>7, AgentExitsLaunch
<1>8. CASE Crash \/ Stop
  BY <1>8, DaemonEndsLaunch DEF Crash, Stop
<1>9. CASE BeginDrain \/ Restart \/ UNCHANGED vars
  BY <1>9, LaunchKept DEF BeginDrain, Restart, RunsUntouched, vars, runRows, procs, handles
<1>10. ASSUME NEW U \in SUBSET Runs, NEW Y \in SUBSET Interventions, Recover(U, Y)
       PROVE  LaunchPhases'
  BY <1>10, RecoverLaunch
<1> QED
  BY <1>1, <1>2, <1>3, <1>4, <1>5, <1>6, <1>7, <1>8, <1>9, <1>10 DEF Next
----------------------------------------------------------------------------
(* PromptPhases: where an instruction is.                                  *)

\* A run whose row, agent and instructions stay keeps its prompt.
LEMMA PromptOfAnother ==
    ASSUME PromptPhases, NEW q \in Runs,
           runStatus'[q] = runStatus[q], gate'[q] = gate[q], ending'[q] = ending[q],
           child'[q] = child[q], carried'[q] = carried[q],
           \A i \in carried[q] : ivRun[i] = q => ivStatus'[i] = ivStatus[i] /\ ivRun'[i] = q
    PROVE  PromptFits(q)'
BY DEF PromptPhases, PromptFits, WrittenOff, Executed

\* A reservation that no run has taken over can be returned at any time.
LEMMA ReturnKeeps ==
    ASSUME TypeOK, PromptPhases, NEW I \in SUBSET Interventions, ReturnToPending(I),
           \A i \in I : ivRun[i] = NoRun,
           held' = {}, UNCHANGED <<runRows, child, carried>>
    PROVE  PromptPhases'
<1>1. /\ ivStatus' = [i \in Interventions |-> IF i \in I THEN "pending" ELSE ivStatus[i]]
      /\ ivRun' = [i \in Interventions |-> IF i \in I THEN NoRun ELSE ivRun[i]]
  BY DEF TypeOK, ReturnToPending, Put
<1>2. HeldFits'
  BY DEF HeldFits
<1>3. ASSUME NEW i \in Interventions PROVE OwnerFits(i)'
  BY <1>1 DEF PromptPhases, OwnerFits, runRows
<1>4. ASSUME NEW q \in Runs PROVE PromptFits(q)'
  <2>1. \A i \in carried[q] : ivRun[i] = q =>
            i \in Interventions /\ ivStatus'[i] = ivStatus[i] /\ ivRun'[i] = q
    BY <1>1, NoRunAssumption DEF TypeOK
  <2> QED
    BY <2>1 DEF PromptPhases, PromptFits, WrittenOff, Executed, runRows
<1> QED
  BY <1>2, <1>3, <1>4 DEF PromptPhases

LEMMA ReleaseHeldKeeps ==
    ASSUME TypeOK, PromptPhases, NEW released, NEW fails, ReleaseHeld(released, fails),
           UNCHANGED <<runRows, child, carried>>
    PROVE  PromptPhases'
<1> DEFINE I == IF released THEN held ELSE {}
<1>1. I \in SUBSET Interventions /\ \A i \in I : ivRun[i] = NoRun
  BY DEF TypeOK, PromptPhases, HeldFits
<1>2. ReturnToPending(I) /\ held' = {}
  BY DEF ReleaseHeld
<1> HIDE DEF I
<1> QED
  BY <1>1, <1>2, ReturnKeeps

\* Only a reservation no run took over changes in a scheduler step.
LEMMA PromptScheduler == TypeOK /\ TickPhases /\ PromptPhases /\ SchedulerStep => PromptPhases'
<1> SUFFICES ASSUME TypeOK, TickPhases, PromptPhases, SchedulerStep PROVE PromptPhases'
  OBVIOUS
<1> USE DEF eventRows, runRows, ivRows, procs, tick, handles, history, TickMayStart
<1>1. ASSUME NEW X \in SUBSET Events, RecoverClaims(X) PROVE PromptPhases'
  BY <1>1 DEF RecoverClaims, TypeOK, TickPhases, PromptPhases, HeldFits, OwnerFits,
     PromptFits, WrittenOff, Executed, Put
<1>2. ASSUME NEW Y \in SUBSET Interventions, RecoverReservations(Y) PROVE PromptPhases'
  BY <1>2, ReturnKeeps DEF RecoverReservations, Unattached, TypeOK, TickPhases
<1>3. ASSUME NEW S \in SUBSET Events, ClaimBatch(S) PROVE PromptPhases'
  BY <1>3 DEF ClaimBatch, TypeOK, TickPhases, PromptPhases, HeldFits, OwnerFits,
     PromptFits, WrittenOff, Executed, Put
<1>4. ASSUME NEW S \in SUBSET Events, RotateBlocked(S) PROVE PromptPhases'
  BY <1>4 DEF RotateBlocked, TypeOK, TickPhases, PromptPhases, HeldFits, OwnerFits,
     PromptFits, WrittenOff, Executed, Put
<1>5. ASSUME NEW D \in SUBSET Events, NEW released \in BOOLEAN, Defer(D, released) PROVE PromptPhases'
  BY <1>5, ReleaseHeldKeeps DEF Defer
<1>6. ASSUME NEW D \in SUBSET Events, CompleteRetired(D) PROVE PromptPhases'
  BY <1>6 DEF CompleteRetired, LeaveBatch, TypeOK, TickPhases, PromptPhases, HeldFits,
     OwnerFits, PromptFits, WrittenOff, Executed, Put
<1>7. ASSUME NEW fails \in BOOLEAN, FailBatch(fails) PROVE PromptPhases'
  BY <1>7, ReleaseHeldKeeps DEF FailBatch
<1>8. ASSUME NEW released \in BOOLEAN, NEW fails \in BOOLEAN, BlockUnbound(released, fails) PROVE PromptPhases'
  BY <1>8, ReleaseHeldKeeps DEF BlockUnbound
<1>9. ASSUME NEW released \in BOOLEAN, RetryUnbound(released) PROVE PromptPhases'
  BY <1>9, ReleaseHeldKeeps DEF RetryUnbound
<1>10. ASSUME NEW released \in BOOLEAN, TickFails(released) PROVE PromptPhases'
  BY <1>10, ReleaseHeldKeeps DEF TickFails
<1>11. ASSUME NEW I \in SUBSET Interventions, Reserve(I) PROVE PromptPhases'
  BY <1>11 DEF Reserve, TypeOK, TickPhases, PromptPhases, HeldFits, OwnerFits, PromptFits,
     WrittenOff, Executed, Put
<1> QED
  BY <1>1, <1>2, <1>3, <1>4, <1>5, <1>6, <1>7, <1>8, <1>9, <1>10, <1>11 DEF SchedulerStep

LEMMA BindRunPrompt ==
    ASSUME NEW r \in Runs, CoreInv, LaunchPhases, PromptPhases, BindRun(r)
    PROVE  PromptPhases'
<1>1. TypeOK /\ HandlePhases /\ RunPhases /\ TickPhases /\ LaunchFits(r)
  BY DEF CoreInv, LaunchPhases
<1> USE DEF BindRun, InsertRun, Put, PromptPhases, WrittenOff, Active, Executed, TypeOK,
        HandlePhases, LaunchFits, RunPhases, TickPhases, InLaunch, Outcomes,
        PreMarker, PostMarker
<1>2. HeldFits'
  BY <1>1 DEF HeldFits
<1>3. ASSUME NEW i \in Interventions PROVE OwnerFits(i)'
  BY <1>1 DEF HeldFits, OwnerFits, PromptFits
<1>4. ASSUME NEW q \in Runs PROVE PromptFits(q)'
  <2>1. CASE q = r
    BY <1>1, <2>1 DEF HeldFits, PromptFits
  <2>2. CASE q # r
    <3>1. \A i \in carried[q] : ivRun[i] = q => ivStatus'[i] = ivStatus[i] /\ ivRun'[i] = q
      BY <1>1, NoRunAssumption DEF HeldFits
    <3>2. /\ runStatus'[q] = runStatus[q] /\ gate'[q] = gate[q] /\ ending'[q] = ending[q]
          /\ child'[q] = child[q] /\ carried'[q] = carried[q]
      BY <1>1, <2>2
    <3> QED
      BY <3>1, <3>2, PromptOfAnother
  <2> QED
    BY <2>1, <2>2
<1> QED
  BY <1>2, <1>3, <1>4

LEMMA BindUnreadPrompt ==
    ASSUME NEW r \in Runs, NEW released \in BOOLEAN, CoreInv, LaunchPhases, PromptPhases, BindUnread(r, released)
    PROVE  PromptPhases'
<1>1. TypeOK /\ HandlePhases /\ RunPhases /\ TickPhases /\ LaunchFits(r)
  BY DEF CoreInv, LaunchPhases
<1> USE DEF BindUnread, InsertRun, Put, PromptPhases, WrittenOff, Active, Executed,
        TypeOK, HandlePhases, LaunchFits, RunPhases, TickPhases, InLaunch,
        Outcomes, PreMarker, PostMarker
<1>2. HeldFits'
  BY <1>1 DEF HeldFits
<1>3. ASSUME NEW i \in Interventions PROVE OwnerFits(i)'
  BY <1>1 DEF HeldFits, OwnerFits, PromptFits
<1>4. ASSUME NEW q \in Runs PROVE PromptFits(q)'
  <2>1. CASE q = r
    BY <1>1, <2>1 DEF HeldFits, PromptFits
  <2>2. CASE q # r
    <3>1. \A i \in carried[q] : ivRun[i] = q => ivStatus'[i] = ivStatus[i] /\ ivRun'[i] = q
      BY <1>1, NoRunAssumption DEF HeldFits
    <3>2. /\ runStatus'[q] = runStatus[q] /\ gate'[q] = gate[q] /\ ending'[q] = ending[q]
          /\ child'[q] = child[q] /\ carried'[q] = carried[q]
      BY <1>1, <2>2
    <3> QED
      BY <3>1, <3>2, PromptOfAnother
  <2> QED
    BY <2>1, <2>2
<1> QED
  BY <1>2, <1>3, <1>4

LEMMA SpawnPrompt ==
    ASSUME NEW r \in Runs, CoreInv, LaunchPhases, PromptPhases, Spawn(r)
    PROVE  PromptPhases'
<1>1. TypeOK /\ HandlePhases /\ RunPhases /\ TickPhases /\ LaunchFits(r)
  BY DEF CoreInv, LaunchPhases
<1> USE DEF Spawn, eventRows, runRows, ivRows, tick, history, PromptPhases, WrittenOff,
        Active, Executed, TypeOK, HandlePhases, LaunchFits, RunPhases,
        TickPhases, InLaunch, Outcomes, PreMarker, PostMarker
<1>2. HeldFits'
  BY <1>1 DEF HeldFits
<1>3. ASSUME NEW i \in Interventions PROVE OwnerFits(i)'
  BY <1>1 DEF HeldFits, OwnerFits, PromptFits
<1>4. ASSUME NEW q \in Runs PROVE PromptFits(q)'
  BY <1>1 DEF HeldFits, OwnerFits, PromptFits
<1> QED
  BY <1>2, <1>3, <1>4

LEMMA MarkRunningPrompt ==
    ASSUME NEW r \in Runs, CoreInv, LaunchPhases, PromptPhases, MarkRunning(r)
    PROVE  PromptPhases'
<1>1. TypeOK /\ HandlePhases /\ RunPhases /\ TickPhases /\ LaunchFits(r)
  BY DEF CoreInv, LaunchPhases
<1> USE DEF MarkRunning, OfRun, Put, eventRows, procs, tick, history, PromptPhases,
        WrittenOff, Active, Executed, TypeOK, HandlePhases, LaunchFits,
        RunPhases, TickPhases, InLaunch, Outcomes, PreMarker, PostMarker
<1>2. HeldFits'
  BY <1>1 DEF HeldFits
<1>3. ASSUME NEW i \in Interventions PROVE OwnerFits(i)'
  <2>1. ivStatus'[i] = IF ivRun[i] = r /\ ivStatus[i] = "reserved" THEN "applied" ELSE ivStatus[i]
    BY <1>1
  <2>2. runStatus[r] = "starting" /\ ending'[r] \notin PreMarker
    BY <1>1
  <2> QED
    BY <1>1, <2>1, <2>2 DEF OwnerFits
<1>4. ASSUME NEW q \in Runs PROVE PromptFits(q)'
  BY <1>1 DEF HeldFits, OwnerFits, PromptFits
<1> QED
  BY <1>2, <1>3, <1>4

LEMMA RequestReleasePrompt ==
    ASSUME NEW r \in Runs, CoreInv, LaunchPhases, PromptPhases, RequestRelease(r)
    PROVE  PromptPhases'
<1>1. TypeOK /\ HandlePhases /\ RunPhases /\ TickPhases /\ LaunchFits(r)
  BY DEF CoreInv, LaunchPhases
<1> USE DEF RequestRelease, eventRows, ivRows, procs, tick, history, PromptPhases,
        WrittenOff, Active, Executed, TypeOK, HandlePhases, LaunchFits,
        RunPhases, TickPhases, InLaunch, Outcomes, PreMarker, PostMarker
<1>2. HeldFits'
  BY <1>1 DEF HeldFits
<1>3. ASSUME NEW i \in Interventions PROVE OwnerFits(i)'
  BY <1>1 DEF HeldFits, OwnerFits, PromptFits
<1>4. ASSUME NEW q \in Runs PROVE PromptFits(q)'
  BY <1>1 DEF HeldFits, OwnerFits, PromptFits
<1> QED
  BY <1>2, <1>3, <1>4

LEMMA PublishMarkerPrompt ==
    ASSUME NEW r \in Runs, CoreInv, LaunchPhases, PromptPhases, PublishMarker(r)
    PROVE  PromptPhases'
<1>1. TypeOK /\ HandlePhases /\ RunPhases /\ TickPhases /\ LaunchFits(r)
  BY DEF CoreInv, LaunchPhases
<1> USE DEF PublishMarker, eventRows, runRows, ivRows, tick, history, PromptPhases,
        WrittenOff, Active, Executed, TypeOK, HandlePhases, LaunchFits,
        RunPhases, TickPhases, InLaunch, Outcomes, PreMarker, PostMarker
<1>2. HeldFits'
  BY <1>1 DEF HeldFits
<1>3. ASSUME NEW i \in Interventions PROVE OwnerFits(i)'
  BY <1>1 DEF HeldFits, OwnerFits, PromptFits
<1>4. ASSUME NEW q \in Runs PROVE PromptFits(q)'
  BY <1>1 DEF HeldFits, OwnerFits, PromptFits
<1> QED
  BY <1>2, <1>3, <1>4

LEMMA ReleasePrompt ==
    ASSUME NEW r \in Runs, CoreInv, LaunchPhases, PromptPhases, Release(r)
    PROVE  PromptPhases'
<1>1. TypeOK /\ HandlePhases /\ RunPhases /\ TickPhases /\ LaunchFits(r)
  BY DEF CoreInv, LaunchPhases
<1> USE DEF Release, eventRows, runRows, ivRows, tick, history, PromptPhases, WrittenOff,
        Active, Executed, TypeOK, HandlePhases, LaunchFits, RunPhases,
        TickPhases, InLaunch, Outcomes, PreMarker, PostMarker
<1>2. HeldFits'
  BY <1>1 DEF HeldFits
<1>3. ASSUME NEW i \in Interventions PROVE OwnerFits(i)'
  BY <1>1 DEF HeldFits, OwnerFits, PromptFits
<1>4. ASSUME NEW q \in Runs PROVE PromptFits(q)'
  BY <1>1 DEF HeldFits, OwnerFits, PromptFits
<1> QED
  BY <1>2, <1>3, <1>4

LEMMA AckDispatchPrompt ==
    ASSUME NEW r \in Runs, CoreInv, LaunchPhases, PromptPhases, AckDispatch(r)
    PROVE  PromptPhases'
<1>1. TypeOK /\ HandlePhases /\ RunPhases /\ TickPhases /\ LaunchFits(r)
  BY DEF CoreInv, LaunchPhases
<1> USE DEF AckDispatch, AcknowledgeDispatch, Put, ivRows, procs, history, PromptPhases,
        WrittenOff, Active, Executed, TypeOK, HandlePhases, LaunchFits,
        RunPhases, TickPhases, InLaunch, Outcomes, PreMarker, PostMarker
<1>2. HeldFits'
  BY <1>1 DEF HeldFits
<1>3. ASSUME NEW i \in Interventions PROVE OwnerFits(i)'
  BY <1>1 DEF HeldFits, OwnerFits, PromptFits
<1>4. ASSUME NEW q \in Runs PROVE PromptFits(q)'
  BY <1>1 DEF HeldFits, OwnerFits, PromptFits
<1> QED
  BY <1>2, <1>3, <1>4

LEMMA AckUnreadPrompt ==
    ASSUME NEW r \in Runs, CoreInv, LaunchPhases, PromptPhases, AckUnread(r)
    PROVE  PromptPhases'
<1>1. TypeOK /\ HandlePhases /\ RunPhases /\ TickPhases /\ LaunchFits(r)
  BY DEF CoreInv, LaunchPhases
<1> USE DEF AckUnread, AcknowledgeDispatch, Put, ivRows, procs, history, PromptPhases,
        WrittenOff, Active, Executed, TypeOK, HandlePhases, LaunchFits,
        RunPhases, TickPhases, InLaunch, Outcomes, PreMarker, PostMarker
<1>2. HeldFits'
  BY <1>1 DEF HeldFits
<1>3. ASSUME NEW i \in Interventions PROVE OwnerFits(i)'
  BY <1>1 DEF HeldFits, OwnerFits, PromptFits
<1>4. ASSUME NEW q \in Runs PROVE PromptFits(q)'
  BY <1>1 DEF HeldFits, OwnerFits, PromptFits
<1> QED
  BY <1>2, <1>3, <1>4

LEMMA LaunchFailsPrompt ==
    ASSUME NEW r \in Runs, NEW v \in Verdict, CoreInv, LaunchPhases, PromptPhases, LaunchFails(r, v)
    PROVE  PromptPhases'
<1>1. TypeOK /\ HandlePhases /\ RunPhases /\ TickPhases /\ LaunchFits(r)
  BY DEF CoreInv, LaunchPhases
<1> USE DEF LaunchFails, FailureVerdict, eventRows, runRows, ivRows, procs, history,
        PromptPhases, WrittenOff, Active, Executed, TypeOK, HandlePhases,
        LaunchFits, RunPhases, TickPhases, InLaunch, Outcomes, PreMarker, PostMarker
<1>2. HeldFits'
  BY <1>1 DEF HeldFits
<1>3. ASSUME NEW i \in Interventions PROVE OwnerFits(i)'
  BY <1>1 DEF HeldFits, OwnerFits, PromptFits
<1>4. ASSUME NEW q \in Runs PROVE PromptFits(q)'
  BY <1>1 DEF HeldFits, OwnerFits, PromptFits
<1> QED
  BY <1>2, <1>3, <1>4

LEMMA KillChildPrompt ==
    ASSUME NEW r \in Runs, CoreInv, LaunchPhases, PromptPhases, KillChild(r)
    PROVE  PromptPhases'
<1>1. TypeOK /\ HandlePhases /\ RunPhases /\ TickPhases /\ LaunchFits(r)
  BY DEF CoreInv, LaunchPhases
<1> USE DEF KillChild, Live, eventRows, runRows, ivRows, tick, handles, history,
        PromptPhases, WrittenOff, Active, Executed, TypeOK, HandlePhases,
        LaunchFits, RunPhases, TickPhases, InLaunch, Outcomes, PreMarker, PostMarker
<1>2. HeldFits'
  BY <1>1 DEF HeldFits
<1>3. ASSUME NEW i \in Interventions PROVE OwnerFits(i)'
  BY <1>1 DEF HeldFits, OwnerFits, PromptFits
<1>4. ASSUME NEW q \in Runs PROVE PromptFits(q)'
  BY <1>1 DEF HeldFits, OwnerFits, PromptFits
<1> QED
  BY <1>2, <1>3, <1>4

LEMMA RecordEvidencePrompt ==
    ASSUME NEW r \in Runs, CoreInv, LaunchPhases, PromptPhases, RecordEvidence(r)
    PROVE  PromptPhases'
<1>1. TypeOK /\ HandlePhases /\ RunPhases /\ TickPhases /\ LaunchFits(r)
  BY DEF CoreInv, LaunchPhases
<1> USE DEF RecordEvidence, CanFinalize, OfRun, eventRows, ivRows, procs, tick, handles,
        history, PromptPhases, WrittenOff, Active, Executed, TypeOK, HandlePhases,
        LaunchFits, RunPhases, TickPhases, InLaunch, Outcomes, PreMarker,
        PostMarker
<1>2. HeldFits'
  BY <1>1 DEF HeldFits
<1>3. ASSUME NEW i \in Interventions PROVE OwnerFits(i)'
  BY <1>1 DEF HeldFits, OwnerFits, PromptFits
<1>4. ASSUME NEW q \in Runs PROVE PromptFits(q)'
  BY <1>1 DEF HeldFits, OwnerFits, PromptFits
<1> QED
  BY <1>2, <1>3, <1>4

LEMMA FinalizeCleanupPrompt ==
    ASSUME NEW r \in Runs, CoreInv, LaunchPhases, PromptPhases, FinalizeCleanup(r)
    PROVE  PromptPhases'
<1>1. TypeOK /\ HandlePhases /\ RunPhases /\ TickPhases /\ LaunchFits(r)
  BY DEF CoreInv, LaunchPhases
<1> USE DEF FinalizeCleanup, Finalize, RunEnd, CanFinalize, OfRun, ReturnToPending, Put,
        Live, procs, tick, history, PromptPhases, WrittenOff, Active, Executed, TypeOK,
        HandlePhases, LaunchFits, RunPhases, TickPhases, InLaunch, Outcomes,
        PreMarker, PostMarker
<1>2. HeldFits'
  BY <1>1, NoRunAssumption DEF HeldFits
<1>3. ASSUME NEW i \in Interventions PROVE OwnerFits(i)'
  BY <1>1 DEF HeldFits, OwnerFits, PromptFits
<1>4. ASSUME NEW q \in Runs PROVE PromptFits(q)'
  BY <1>1 DEF HeldFits, OwnerFits, PromptFits
<1> QED
  BY <1>2, <1>3, <1>4

LEMMA ObserveExitPrompt ==
    ASSUME NEW r \in Runs, NEW v \in Outcomes, CoreInv, LaunchPhases, PromptPhases, ObserveExit(r, v)
    PROVE  PromptPhases'
<1>1. TypeOK /\ HandlePhases /\ RunPhases /\ TickPhases /\ LaunchFits(r)
  BY DEF CoreInv, LaunchPhases
<1> USE DEF ObserveExit, TickMayStart, eventRows, runRows, ivRows, procs, tick, history,
        PromptPhases, WrittenOff, Active, Executed, TypeOK, HandlePhases,
        LaunchFits, RunPhases, TickPhases, InLaunch, Outcomes, PreMarker, PostMarker
<1>2. HeldFits'
  BY <1>1 DEF HeldFits
<1>3. ASSUME NEW i \in Interventions PROVE OwnerFits(i)'
  BY <1>1 DEF HeldFits, OwnerFits, PromptFits
<1>4. ASSUME NEW q \in Runs PROVE PromptFits(q)'
  BY <1>1 DEF HeldFits, OwnerFits, PromptFits
<1> QED
  BY <1>2, <1>3, <1>4

LEMMA TimeOutPrompt ==
    ASSUME NEW r \in Runs, CoreInv, LaunchPhases, PromptPhases, TimeOut(r)
    PROVE  PromptPhases'
<1>1. TypeOK /\ HandlePhases /\ RunPhases /\ TickPhases /\ LaunchFits(r)
  BY DEF CoreInv, LaunchPhases
<1> USE DEF TimeOut, MayPoll, TickMayStart, eventRows, runRows, ivRows, tick, history,
        PromptPhases, WrittenOff, Active, Executed, TypeOK, HandlePhases,
        LaunchFits, RunPhases, TickPhases, InLaunch, Outcomes, PreMarker, PostMarker
<1>2. HeldFits'
  BY <1>1 DEF HeldFits
<1>3. ASSUME NEW i \in Interventions PROVE OwnerFits(i)'
  BY <1>1 DEF HeldFits, OwnerFits, PromptFits
<1>4. ASSUME NEW q \in Runs PROVE PromptFits(q)'
  BY <1>1 DEF HeldFits, OwnerFits, PromptFits
<1> QED
  BY <1>2, <1>3, <1>4

LEMMA FinalizeRunPrompt ==
    ASSUME NEW r \in Runs, NEW emptied \in BOOLEAN, CoreInv, LaunchPhases, PromptPhases, FinalizeRun(r, emptied)
    PROVE  PromptPhases'
<1>1. TypeOK /\ HandlePhases /\ RunPhases /\ TickPhases /\ LaunchFits(r)
  BY DEF CoreInv, LaunchPhases
<1> USE DEF FinalizeRun, Finalize, RunEnd, CanFinalize, OfRun, ReturnToPending, Put,
        MayPoll, TickMayStart, procs, tick, history, PromptPhases, WrittenOff, Active,
        Executed, TypeOK, HandlePhases, LaunchFits, RunPhases, TickPhases,
        InLaunch, Outcomes, PreMarker, PostMarker
<1>2. HeldFits'
  BY <1>1 DEF HeldFits
<1>3. ASSUME NEW i \in Interventions PROVE OwnerFits(i)'
  BY <1>1 DEF HeldFits, OwnerFits, PromptFits
<1>4. ASSUME NEW q \in Runs PROVE PromptFits(q)'
  BY <1>1 DEF HeldFits, OwnerFits, PromptFits
<1> QED
  BY <1>2, <1>3, <1>4

LEMMA EmptyTempPrompt ==
    ASSUME NEW r \in Runs, CoreInv, LaunchPhases, PromptPhases, EmptyTemp(r)
    PROVE  PromptPhases'
<1>1. TypeOK /\ HandlePhases /\ RunPhases /\ TickPhases /\ LaunchFits(r)
  BY DEF CoreInv, LaunchPhases
<1> USE DEF EmptyTemp, MayPoll, TickMayStart, eventRows, runRows, ivRows, procs, tick,
        history, PromptPhases, WrittenOff, Active, Executed, TypeOK, HandlePhases,
        LaunchFits, RunPhases, TickPhases, InLaunch, Outcomes, PreMarker,
        PostMarker
<1>2. HeldFits'
  BY <1>1 DEF HeldFits
<1>3. ASSUME NEW i \in Interventions PROVE OwnerFits(i)'
  BY <1>1 DEF HeldFits, OwnerFits, PromptFits
<1>4. ASSUME NEW q \in Runs PROVE PromptFits(q)'
  BY <1>1 DEF HeldFits, OwnerFits, PromptFits
<1> QED
  BY <1>2, <1>3, <1>4

LEMMA LoseOwnershipPrompt ==
    ASSUME NEW r \in Runs, CoreInv, LaunchPhases, PromptPhases, LoseOwnership(r)
    PROVE  PromptPhases'
<1>1. TypeOK /\ HandlePhases /\ RunPhases /\ TickPhases /\ LaunchFits(r)
  BY DEF CoreInv, LaunchPhases
<1> USE DEF LoseOwnership, TickMayStart, eventRows, runRows, ivRows, procs, tick, history,
        PromptPhases, WrittenOff, Active, Executed, TypeOK, HandlePhases,
        LaunchFits, RunPhases, TickPhases, InLaunch, Outcomes, PreMarker, PostMarker
<1>2. HeldFits'
  BY <1>1 DEF HeldFits
<1>3. ASSUME NEW i \in Interventions PROVE OwnerFits(i)'
  BY <1>1 DEF HeldFits, OwnerFits, PromptFits
<1>4. ASSUME NEW q \in Runs PROVE PromptFits(q)'
  BY <1>1 DEF HeldFits, OwnerFits, PromptFits
<1> QED
  BY <1>2, <1>3, <1>4

LEMMA AgentExitsPrompt ==
    ASSUME NEW r \in Runs, CoreInv, LaunchPhases, PromptPhases, AgentExits(r)
    PROVE  PromptPhases'
<1>1. TypeOK /\ HandlePhases /\ RunPhases /\ TickPhases /\ LaunchFits(r)
  BY DEF CoreInv, LaunchPhases
<1> USE DEF AgentExits, eventRows, runRows, ivRows, tick, handles, history, PromptPhases,
        WrittenOff, Active, Executed, TypeOK, HandlePhases, LaunchFits,
        RunPhases, TickPhases, InLaunch, Outcomes, PreMarker, PostMarker
<1>2. HeldFits'
  BY <1>1 DEF HeldFits
<1>3. ASSUME NEW i \in Interventions PROVE OwnerFits(i)'
  BY <1>1 DEF HeldFits, OwnerFits, PromptFits
<1>4. ASSUME NEW q \in Runs PROVE PromptFits(q)'
  BY <1>1 DEF HeldFits, OwnerFits, PromptFits
<1> QED
  BY <1>2, <1>3, <1>4

\* Steps that change no instruction, run row or agent.
LEMMA PromptKept ==
    ASSUME PromptPhases, UNCHANGED <<runRows, ivRows, carried>>,
           held' \subseteq held, \A q \in Runs : Executed(q)' = Executed(q)
    PROVE  PromptPhases'
BY DEF PromptPhases, HeldFits, OwnerFits, PromptFits, WrittenOff, runRows, ivRows

LEMMA AddInterventionPrompt ==
    ASSUME NEW i \in Interventions, CoreInv, PromptPhases, AddIntervention(i)
    PROVE  PromptPhases'
BY DEF AddIntervention, CoreInv, TypeOK, PromptPhases, HeldFits, OwnerFits, PromptFits, WrittenOff,
       Executed, eventRows, runRows, procs, tick, handles, history

\* Recovery takes back what the runs it ends did not deliver, and leaves what
\* an agent was given with the run of that agent.
LEMMA RecoverPrompt ==
    ASSUME NEW U \in SUBSET Runs, NEW Y \in SUBSET Interventions,
           CoreInv, LaunchPhases, PromptPhases, Recover(U, Y)
    PROVE  PromptPhases'
<1> DEFINE Given(q) == OfRun(q, IF RecoveryVerdict(q, U) = "retry" THEN {"reserved", "applied"}
                                                                  ELSE {"reserved"})
           Stale == UNION {OfRun(q, {"reserved", "applied"}) : q \in {p \in Runs : StaleGate(p)}}
           Taken == UNION {Given(q) : q \in {p \in Runs : Active(p)}}
           I == Y \cup Taken \cup Stale
<1>1. /\ TypeOK /\ RunPhases /\ TickPhases
      /\ daemon = "recovering" /\ UNCHANGED <<held, child, carried>>
  BY DEF CoreInv, Recover, procs, tick, history
<1>7. ReturnToPending(I)
  BY DEF Recover
<1>2. /\ runStatus' = Put(runStatus, {q \in Runs : Active(q)}, "failed")
      /\ \A q \in Runs : ending'[q] = IF Active(q) THEN RecoveryVerdict(q, U) ELSE ending[q]
      /\ \A q \in Runs : ~Active(q) => gate'[q] = gate[q]
      /\ \A q \in Runs : Active(q) =>
            gate'[q] = IF ExecutionUnknown(q, U) THEN "released" ELSE "failed"
  BY DEF Recover
<1>3. /\ \A q \in Runs : runStatus'[q] = IF Active(q) THEN "failed" ELSE runStatus[q]
      /\ \A i \in Interventions : i \in I \/ (ivStatus'[i] = ivStatus[i] /\ ivRun'[i] = ivRun[i])
      /\ \A i \in Interventions : i \in I => ivRun'[i] = NoRun
  <2> HIDE DEF I
  <2> QED
    BY <1>1, <1>2, <1>7 DEF TypeOK, Put, ReturnToPending
<1>4. HeldFits'
  BY <1>1 DEF HeldFits, TickPhases
<1>5. ASSUME NEW i \in Interventions PROVE OwnerFits(i)'
  <2>1. CASE i \in I
    BY <1>3, <2>1 DEF OwnerFits
  <2>2. CASE i \notin I
    <3> SUFFICES ASSUME ivRun[i] # NoRun PROVE OwnerFits(i)'
      BY <1>3, <2>2 DEF OwnerFits
    <3> DEFINE q == ivRun[i]
    <3>1. /\ q \in Runs /\ ivStatus[i] \in {"reserved", "applied"}
          /\ ivStatus[i] = "reserved" => runStatus[q] = "starting"
          /\ ivStatus[i] = "applied" =>
                runStatus[q] \notin {"none", "starting"} /\ ending[q] \notin PreMarker
      BY <1>1 DEF PromptPhases, OwnerFits, TypeOK
    <3>2. Active(q) => i \notin Given(q)
      BY <2>2, <3>1
    <3>3. ivStatus[i] = "applied"
      BY <3>1, <3>2 DEF OfRun, Active
    <3>4. Active(q) => ending'[q] \notin PreMarker
      BY <1>2, <3>1, <3>2, <3>3 DEF OfRun, RecoveryVerdict, PreMarker
    <3> QED
      BY <1>2, <1>3, <2>2, <3>1, <3>3, <3>4 DEF OwnerFits
  <2> QED
    BY <2>1, <2>2
<1>6. ASSUME NEW q \in Runs PROVE PromptFits(q)'
  <2>1. runStatus'[q] \notin {"starting", "running"}
    BY <1>3 DEF Active
  <2>2. runStatus'[q] = "none" => carried'[q] = {}
    BY <1>1, <1>3 DEF PromptPhases, PromptFits
  <2>3. ASSUME Executed(q), ~WrittenOff(q)', NEW i \in carried[q]
        PROVE  ivStatus'[i] = "applied" /\ ivRun'[i] = q
    <3>1. gate'[q] = "released"
      <4>1. CASE Active(q)
        <5>1. RecoveryVerdict(q, U) = "post_unknown"
          BY <2>3, <4>1, RecoverySeesExecution
        <5> QED
          BY <1>2, <4>1, <5>1 DEF RecoveryVerdict
      <4>2. CASE ~Active(q)
        <5>1. gate'[q] = gate[q] /\ ending'[q] = ending[q]
          BY <1>2, <4>2
        <5> QED
          BY <2>3, <4>2, <5>1 DEF LaunchPhases, LaunchFits, WrittenOff
      <4> QED
        BY <4>1, <4>2
    <3>2. Active(q) => RecoveryVerdict(q, U) # "retry"
      BY <2>3, RecoverySeesExecution
    <3>3. ~WrittenOff(q)
      <4>1. CASE Active(q)
        BY <1>1, <4>1 DEF RunPhases, WrittenOff
      <4>2. CASE ~Active(q)
        BY <1>2, <3>1, <4>2 DEF WrittenOff
      <4> QED
        BY <4>1, <4>2
    <3>4. i \in Interventions /\ ivStatus[i] = "applied" /\ ivRun[i] = q
      BY <1>1, <2>3, <3>3 DEF PromptPhases, PromptFits, TypeOK
    <3>5. i \notin Y
      BY <3>4 DEF Recover, Unattached
    <3>6. \A p \in Runs : Active(p) => i \notin Given(p)
      BY <3>2, <3>4 DEF OfRun
    <3>7. i \notin Stale
      BY <3>1, <3>4 DEF OfRun, StaleGate
    <3>8. i \notin I
      BY <3>5, <3>6, <3>7
    <3> QED
      BY <1>3, <3>4, <3>8
  <2> QED
    BY <1>1, <2>1, <2>2, <2>3 DEF PromptFits, Executed
<1> QED
  BY <1>4, <1>5, <1>6 DEF PromptPhases

LEMMA PromptInductive == CoreInv /\ LaunchPhases /\ PromptPhases /\ [Next]_vars => PromptPhases'
<1> SUFFICES ASSUME CoreInv, LaunchPhases, PromptPhases, [Next]_vars PROVE PromptPhases'
  OBVIOUS
<1>1. ASSUME NEW e \in Events, CreateEvent(e) PROVE PromptPhases'
  BY <1>1, PromptKept DEF CreateEvent, Executed, procs, tick, history
<1>2. ASSUME NEW i \in Interventions, AddIntervention(i) PROVE PromptPhases'
  BY <1>2, AddInterventionPrompt
<1>3. CASE SchedulerStep
  BY <1>3, PromptScheduler DEF CoreInv
<1>4. ASSUME NEW r \in Runs, LaunchStep(r) PROVE PromptPhases'
  BY <1>4, BindRunPrompt, BindUnreadPrompt, SpawnPrompt, MarkRunningPrompt, RequestReleasePrompt,
     PublishMarkerPrompt, ReleasePrompt, AckDispatchPrompt, AckUnreadPrompt, LaunchFailsPrompt
     DEF LaunchStep
<1>5. ASSUME NEW r \in Runs, CleanupStep(r) PROVE PromptPhases'
  BY <1>5, KillChildPrompt, RecordEvidencePrompt, FinalizeCleanupPrompt DEF CleanupStep
<1>6. ASSUME NEW r \in Runs, PollStep(r) PROVE PromptPhases'
  BY <1>6, ObserveExitPrompt, TimeOutPrompt, FinalizeRunPrompt, EmptyTempPrompt,
     LoseOwnershipPrompt DEF PollStep
<1>7. ASSUME NEW r \in Runs, AgentExits(r) PROVE PromptPhases'
  BY <1>7, AgentExitsPrompt
<1>8. CASE Crash \/ Stop
  BY <1>8, PromptKept DEF Crash, Stop, DaemonEnds, Executed, CoreInv, TypeOK
<1>9. CASE BeginDrain \/ Restart \/ UNCHANGED vars
  BY <1>9, PromptKept DEF BeginDrain, Restart, Executed, vars, runRows, ivRows, procs, tick, history
<1>10. ASSUME NEW U \in SUBSET Runs, NEW Y \in SUBSET Interventions, Recover(U, Y)
       PROVE  PromptPhases'
  BY <1>10, RecoverPrompt
<1> QED
  BY <1>1, <1>2, <1>3, <1>4, <1>5, <1>6, <1>7, <1>8, <1>9, <1>10 DEF Next
----------------------------------------------------------------------------
(* BudgetPhases: every run of an event is paid for.                        *)

LEMMA RunsCounted ==
    ASSUME NEW e \in Events, BudgetFits(e)
    PROVE  Cardinality(RunsOf(e)) \in Nat
BY FS_CardinalityType DEF BudgetFits

\* An event that keeps its runs and its count keeps its budget, unless it is
\* claimed anew or waits for a run it could not pay.
LEMMA BudgetOfCounted ==
    ASSUME NEW e \in Events, BudgetFits(e), UNCHANGED linked, attempts'[e] = attempts[e],
           evStatus'[e] = "claimed" => evStatus[e] = "claimed",
           evStatus'[e] \in {"none", "pending", "retry_wait"} => attempts[e] <= MaxRetries
    PROVE  BudgetFits(e)'
BY DEF BudgetFits, RunsOf

\* A claim that led to no run is refunded, and its event waits again.
LEMMA BudgetOfRefunded ==
    ASSUME NEW e \in Events, BudgetFits(e), UNCHANGED linked, attempts[e] \in Nat,
           evStatus[e] = "claimed", evStatus'[e] # "claimed",
           attempts'[e] = IF attempts[e] > 0 THEN attempts[e] - 1 ELSE attempts[e]
    PROVE  BudgetFits(e)'
BY RunsCounted, LimitsAssumption DEF BudgetFits, RunsOf

LEMMA BudgetScheduler ==
    ASSUME TypeOK, TickPhases, BudgetPhases, SchedulerStep
    PROVE  BudgetPhases'
<1> SUFFICES ASSUME NEW e \in Events PROVE BudgetFits(e)'
  BY DEF BudgetPhases
<1>1. /\ BudgetFits(e) /\ attempts[e] \in Nat
      /\ e \in batch => evStatus[e] = "claimed"
  BY DEF BudgetPhases, TypeOK, TickPhases
<1>2. UNCHANGED linked
  BY SchedulerFrame DEF RunsUntouched, runRows
<1> USE DEF TypeOK, Put
<1>3. ASSUME NEW X \in SUBSET Events, RecoverClaims(X) PROVE BudgetFits(e)'
  <2>1. /\ attempts'[e] = IF e \in X /\ attempts[e] > 0 THEN attempts[e] - 1 ELSE attempts[e]
        /\ evStatus'[e] = IF e \in X THEN "pending" ELSE evStatus[e]
        /\ e \in X => evStatus[e] = "claimed"
    BY <1>3 DEF RecoverClaims, Refund
  <2> QED
    BY <1>1, <1>2, <2>1, BudgetOfCounted, BudgetOfRefunded DEF BudgetFits
<1>4. ASSUME NEW Y \in SUBSET Interventions, RecoverReservations(Y) PROVE BudgetFits(e)'
  BY <1>1, <1>2, <1>4, BudgetOfCounted DEF RecoverReservations, eventRows, BudgetFits
<1>5. ASSUME NEW S \in SUBSET Events, ClaimBatch(S) PROVE BudgetFits(e)'
  <2>1. /\ attempts'[e] = IF e \in S THEN attempts[e] + 1 ELSE attempts[e]
        /\ evStatus'[e] = IF e \in S THEN "claimed" ELSE evStatus[e]
        /\ e \in S => evStatus[e] \in {"pending", "retry_wait"}
    BY <1>5 DEF ClaimBatch, Due
  <2>2. CASE e \in S
    BY <1>1, <1>2, <2>1, <2>2, RunsCounted, LimitsAssumption DEF BudgetFits, RunsOf
  <2>3. CASE e \notin S
    BY <1>1, <1>2, <2>1, <2>3, BudgetOfCounted DEF BudgetFits
  <2> QED
    BY <2>2, <2>3
<1>6. ASSUME NEW S \in SUBSET Events, RotateBlocked(S) PROVE BudgetFits(e)'
  <2>1. /\ attempts'[e] = attempts[e]
        /\ evStatus'[e] = IF e \in S THEN "retry_wait" ELSE evStatus[e]
        /\ e \in S => evStatus[e] \in {"pending", "retry_wait"}
    BY <1>6 DEF RotateBlocked, Due
  <2> QED
    BY <1>1, <1>2, <2>1, BudgetOfCounted DEF BudgetFits
<1>7. ASSUME NEW D \in SUBSET Events, NEW released \in BOOLEAN, Defer(D, released)
      PROVE  BudgetFits(e)'
  <2>1. /\ attempts'[e] = IF e \in D /\ attempts[e] > 0 THEN attempts[e] - 1 ELSE attempts[e]
        /\ evStatus'[e] = IF e \in D THEN "retry_wait" ELSE evStatus[e]
        /\ e \in D => evStatus[e] = "claimed"
    BY <1>1, <1>7 DEF Defer, Refund
  <2> QED
    BY <1>1, <1>2, <2>1, BudgetOfCounted, BudgetOfRefunded DEF BudgetFits
<1>8. ASSUME NEW D \in SUBSET Events, CompleteRetired(D) PROVE BudgetFits(e)'
  <2>1. /\ attempts'[e] = attempts[e]
        /\ evStatus'[e] = IF e \in D THEN "completed" ELSE evStatus[e]
    BY <1>8 DEF CompleteRetired
  <2> QED
    BY <1>1, <1>2, <2>1, BudgetOfCounted DEF BudgetFits
<1>9. ASSUME NEW fails \in BOOLEAN, FailBatch(fails) PROVE BudgetFits(e)'
  <2>1. /\ attempts'[e] = attempts[e]
        /\ evStatus'[e] = IF e \in batch THEN "failed" ELSE evStatus[e]
    BY <1>9 DEF FailBatch
  <2> QED
    BY <1>1, <1>2, <2>1, BudgetOfCounted DEF BudgetFits
<1>10. ASSUME NEW released \in BOOLEAN, NEW fails \in BOOLEAN, BlockUnbound(released, fails)
       PROVE  BudgetFits(e)'
  <2>1. /\ attempts'[e] = attempts[e]
        /\ evStatus'[e] = IF e \in batch THEN "dead_letter" ELSE evStatus[e]
    BY <1>10 DEF BlockUnbound
  <2> QED
    BY <1>1, <1>2, <2>1, BudgetOfCounted DEF BudgetFits
<1>11. ASSUME NEW released \in BOOLEAN, RetryUnbound(released) PROVE BudgetFits(e)'
  <2>1. /\ attempts'[e] = attempts[e]
        /\ evStatus'[e] = IF e \in batch THEN RetryTarget(e) ELSE evStatus[e]
    BY <1>11 DEF RetryUnbound
  <2> QED
    BY <1>1, <1>2, <2>1, BudgetOfCounted DEF BudgetFits, RetryTarget
<1>12. ASSUME NEW released \in BOOLEAN, TickFails(released) PROVE BudgetFits(e)'
  BY <1>1, <1>2, <1>12, BudgetOfCounted DEF TickFails, eventRows, BudgetFits
<1>13. ASSUME NEW I \in SUBSET Interventions, Reserve(I) PROVE BudgetFits(e)'
  BY <1>1, <1>2, <1>13, BudgetOfCounted DEF Reserve, eventRows, BudgetFits
<1> QED
  BY <1>3, <1>4, <1>5, <1>6, <1>7, <1>8, <1>9, <1>10, <1>11, <1>12, <1>13 DEF SchedulerStep

\* The claims of the batch pay for the run.
LEMMA BudgetInsert ==
    ASSUME NEW r \in Runs, CoreInv, BudgetPhases, InsertRun(r)
    PROVE  BudgetPhases'
<1> SUFFICES ASSUME NEW e \in Events PROVE BudgetFits(e)'
  BY DEF BudgetPhases
<1>1. /\ BudgetFits(e) /\ attempts'[e] = attempts[e]
      /\ linked' = [linked EXCEPT ![r] = batch] /\ linked[r] = {}
      /\ evStatus'[e] = IF e \in batch THEN "in_flight" ELSE evStatus[e]
      /\ e \in batch => evStatus[e] = "claimed"
      /\ linked \in [Runs -> SUBSET Events]
  BY DEF CoreInv, TypeOK, RunPhases, TickPhases, BudgetPhases, InsertRun, Put
<1>2. CASE e \in batch
  <2>1. RunsOf(e)' = RunsOf(e) \cup {r} /\ r \notin RunsOf(e)
    BY <1>1, <1>2 DEF RunsOf
  <2>2. IsFiniteSet(RunsOf(e)') /\ Cardinality(RunsOf(e)') = Cardinality(RunsOf(e)) + 1
    BY <1>1, <2>1, FS_AddElement DEF BudgetFits
  <2> QED
    BY <1>1, <1>2, <2>2 DEF BudgetFits
<1>3. CASE e \notin batch
  <2>1. RunsOf(e)' = RunsOf(e)
    BY <1>1, <1>3 DEF RunsOf
  <2> QED
    BY <1>1, <1>3, <2>1 DEF BudgetFits
<1> QED
  BY <1>2, <1>3

\* A run that ends leaves its events settled, or waiting if they can pay.
LEMMA BudgetFinalize ==
    ASSUME NEW r \in Runs, NEW v \in Verdict, CoreInv, BudgetPhases, Finalize(r, v)
    PROVE  BudgetPhases'
<1> SUFFICES ASSUME NEW e \in Events PROVE BudgetFits(e)'
  BY DEF BudgetPhases
<1>1. /\ BudgetFits(e) /\ UNCHANGED <<attempts, linked>>
      /\ evStatus'[e] = IF e \in linked[r] THEN EventEnd(e, v) ELSE evStatus[e]
  BY DEF BudgetPhases, Finalize
<1>2. EventEnd(e, v) \in {"completed", "dead_letter"} \/ EventEnd(e, v) = RetryTarget(e)
  BY DEF EventEnd
<1> QED
  BY <1>1, <1>2, BudgetOfCounted DEF BudgetFits, RetryTarget

LEMMA BudgetRecover ==
    ASSUME NEW U \in SUBSET Runs, NEW Y \in SUBSET Interventions, CoreInv, BudgetPhases, Recover(U, Y)
    PROVE  BudgetPhases'
<1> SUFFICES ASSUME NEW e \in Events PROVE BudgetFits(e)'
  BY DEF BudgetPhases
<1>1. BudgetFits(e) /\ UNCHANGED <<attempts, linked>>
  BY DEF BudgetPhases, Recover
<1>2. evStatus'[e] \in {evStatus[e], "dead_letter", RetryTarget(e)}
  BY DEF Recover
<1> QED
  BY <1>1, <1>2, BudgetOfCounted DEF BudgetFits, RetryTarget

\* Any other step leaves the claims and counts alone.
LEMMA BudgetKept ==
    ASSUME CoreInv, BudgetPhases, UNCHANGED <<attempts, linked>>,
           \A e \in Events : evStatus'[e] \in {evStatus[e], "dispatched"}
    PROVE  BudgetPhases'
<1> SUFFICES ASSUME NEW e \in Events PROVE BudgetFits(e)'
  BY DEF BudgetPhases
<1> QED
  BY BudgetOfCounted DEF BudgetPhases, BudgetFits

LEMMA BudgetInductive == CoreInv /\ BudgetPhases /\ [Next]_vars => BudgetPhases'
<1> SUFFICES ASSUME CoreInv, BudgetPhases, [Next]_vars PROVE BudgetPhases'
  OBVIOUS
<1> USE DEF eventRows, runRows
<1>1. ASSUME NEW e \in Events, CreateEvent(e) PROVE BudgetPhases'
  <2> SUFFICES ASSUME NEW d \in Events PROVE BudgetFits(d)'
    BY DEF BudgetPhases
  <2>1. /\ BudgetFits(d) /\ UNCHANGED <<attempts, linked>>
        /\ evStatus'[d] = IF d = e THEN "pending" ELSE evStatus[d]
        /\ d = e => evStatus[d] = "none"
    BY <1>1 DEF CreateEvent, CoreInv, TypeOK, BudgetPhases
  <2> QED
    BY <2>1, BudgetOfCounted DEF BudgetFits
<1>2. ASSUME NEW i \in Interventions, AddIntervention(i) PROVE BudgetPhases'
  BY <1>2, BudgetKept DEF AddIntervention
<1>3. CASE SchedulerStep
  BY <1>3, BudgetScheduler DEF CoreInv
<1>4. ASSUME NEW r \in Runs, LaunchStep(r) PROVE BudgetPhases'
  <2>1. CASE BindRun(r) \/ \E released \in BOOLEAN : BindUnread(r, released)
    BY <2>1, BudgetInsert DEF BindRun, BindUnread
  <2>2. CASE AckDispatch(r) \/ AckUnread(r)
    BY <2>2, BudgetKept DEF AckDispatch, AckUnread, AcknowledgeDispatch, CoreInv, TypeOK, Put
  <2>3. CASE Spawn(r) \/ MarkRunning(r) \/ RequestRelease(r) \/ PublishMarker(r) \/ Release(r)
    BY <2>3, BudgetKept DEF Spawn, MarkRunning, RequestRelease, PublishMarker, Release
  <2>4. CASE \E v \in Verdict : LaunchFails(r, v)
    BY <2>4, BudgetKept DEF LaunchFails
  <2> QED
    BY <1>4, <2>1, <2>2, <2>3, <2>4 DEF LaunchStep
<1>5. ASSUME NEW r \in Runs, CleanupStep(r) \/ PollStep(r) PROVE BudgetPhases'
  <2>1. CASE FinalizeCleanup(r) \/ \E emptied \in BOOLEAN : FinalizeRun(r, emptied)
    BY <2>1, BudgetFinalize DEF FinalizeCleanup, FinalizeRun, CoreInv, TypeOK
  <2>2. CASE KillChild(r) \/ RecordEvidence(r) \/ TimeOut(r) \/ EmptyTemp(r) \/ LoseOwnership(r)
    BY <2>2, BudgetKept DEF KillChild, RecordEvidence, TimeOut, EmptyTemp, LoseOwnership
  <2>3. CASE \E v \in Outcomes : ObserveExit(r, v)
    BY <2>3, BudgetKept DEF ObserveExit
  <2> QED
    BY <1>5, <2>1, <2>2, <2>3 DEF CleanupStep, PollStep
<1>6. ASSUME NEW r \in Runs, AgentExits(r) PROVE BudgetPhases'
  BY <1>6, BudgetKept DEF AgentExits
<1>7. CASE Crash \/ Stop \/ BeginDrain \/ Restart \/ UNCHANGED vars
  BY <1>7, BudgetKept DEF Crash, Stop, DaemonEnds, BeginDrain, Restart, vars
<1>8. ASSUME NEW U \in SUBSET Runs, NEW Y \in SUBSET Interventions, Recover(U, Y)
      PROVE  BudgetPhases'
  BY <1>8, BudgetRecover
<1> QED
  BY <1>1, <1>2, <1>3, <1>4, <1>5, <1>6, <1>7, <1>8 DEF Next
----------------------------------------------------------------------------
(* The theorems.                                                           *)

LEMMA InitDispatchInv == Init => DispatchInv
<1> SUFFICES ASSUME Init PROVE DispatchInv
  OBVIOUS
<1>1. LaunchPhases
  BY DEF Init, LaunchPhases, LaunchFits, Active, Executed
<1>2. PromptPhases
  BY DEF Init, PromptPhases, HeldFits, OwnerFits, PromptFits, Executed
<1>3. ASSUME NEW e \in Events PROVE BudgetFits(e)
  <2>1. RunsOf(e) = {}
    BY DEF Init, RunsOf
  <2> QED
    BY <2>1, FS_EmptySet, LimitsAssumption DEF Init, BudgetFits
<1> QED
  BY <1>1, <1>2, <1>3, InitCoreInv DEF DispatchInv, BudgetPhases

\* The invariant the run checks is inductive: each step of each actor, a
\* crash anywhere and every outcome of recovery's marker inspection keep it.
THEOREM DispatchInvariant == Spec => []DispatchInv
<1>1. DispatchInv /\ [Next]_vars => DispatchInv'
  BY CoreInductive, LaunchInductive, PromptInductive, BudgetInductive DEF DispatchInv
<1> QED
  BY <1>1, InitDispatchInv, PTL DEF Spec

\* Startup recovery accepts every database a daemon may leave behind.
THEOREM RestartIsNeverRefused == Spec => []RecoveryNeverBlocked
<1>1. ASSUME DispatchInv, NEW r \in Runs, Active(r), NEW U \in SUBSET Runs
      PROVE  RecoveryAccepts(r, U)
  <2>1. ~(gate[r] = "pending" /\ runStatus[r] = "running" /\ Valid(r, U))
    BY <1>1 DEF DispatchInv, LaunchPhases, LaunchFits, Valid
  <2>2. runStatus[r] = "starting" => OfRun(r, {"applied"}) = {}
    BY <1>1, NoRunAssumption DEF DispatchInv, PromptPhases, OwnerFits, OfRun
  <2>3. gate[r] = "released" => ExecutionUnknown(r, U)
    BY DEF ExecutionUnknown
  <2>4. \A e \in linked[r] : evStatus[e] = IF gate[r] = "released" THEN "dispatched" ELSE "in_flight"
    BY <1>1 DEF DispatchInv, CoreInv, TypeOK, EventsFollowRuns
  <2> QED
    BY <2>1, <2>2, <2>3, <2>4 DEF RecoveryAccepts
<1>2. DispatchInv => RecoveryNeverBlocked
  BY <1>1 DEF RecoveryNeverBlocked
<1> QED
  BY <1>2, DispatchInvariant, PTL

\* No event is given more runs than max_retries + 1, whatever claims are
\* refunded in between.
THEOREM RetriesAreBounded == Spec => []RetryBudget
<1>1. DispatchInv => RetryBudget
  BY DEF DispatchInv, BudgetPhases, BudgetFits, RunsOf, RetryBudget
<1> QED
  BY <1>1, DispatchInvariant, PTL

\* A serving daemon owns every active run, and owns one live agent at most.
THEOREM RunsAreSupervised == Spec => []SupervisedRuns
<1>1. ASSUME DispatchInv, NEW r \in Runs, Live(r), handle[r] # "none" PROVE Active(r)
  BY <1>1 DEF DispatchInv, CoreInv, TypeOK, HandlePhases, HandleState, InLaunch, LaunchPhases,
     LaunchFits, Live
<1>2. DispatchInv => SupervisedRuns
  BY <1>1 DEF DispatchInv, CoreInv, RunPhases, LaunchPhases, LaunchFits, SupervisedRuns
<1> QED
  BY <1>2, DispatchInvariant, PTL

\* What recovery needs to know of an agent is durable before it executes.
THEOREM ExecutionLeavesRecords == Spec => []ExecutionIsRecorded
<1>1. DispatchInv => ExecutionIsRecorded
  BY DEF DispatchInv, CoreInv, RunPhases, PromptPhases, PromptFits, ExecutionIsRecorded
<1> QED
  BY <1>1, DispatchInvariant, PTL

\* No run keeps an instruction it cannot deliver any more.
THEOREM InstructionsFollowRuns == Spec => []InterventionsFollowRuns
<1>1. DispatchInv => InterventionsFollowRuns
  BY DEF DispatchInv, PromptPhases, OwnerFits, InterventionsFollowRuns
<1> QED
  BY <1>1, DispatchInvariant, PTL

\* The finalizer's checks hold for every outcome that was observed.
THEOREM OutcomesCanBeRecorded == Spec => []OutcomeCanBeRecorded
<1>1. ASSUME DispatchInv, NEW r \in Runs, handle[r] = "reaped" PROVE CanFinalize(r, verdict[r])
  <2>1. Active(r) /\ gate[r] = "released" /\ verdict[r] \in Outcomes
    BY <1>1 DEF DispatchInv, CoreInv, HandlePhases
  <2>2. \A e \in linked[r] : evStatus[e] = "dispatched"
    BY <1>1, <2>1 DEF DispatchInv, CoreInv, TypeOK, EventsFollowRuns
  <2> QED
    BY <2>1, <2>2 DEF CanFinalize, Outcomes, PreMarker, PostMarker
<1>2. ASSUME DispatchInv, NEW r \in Runs, handle[r] = "cleanup", gate[r] # "released"
      PROVE  CanFinalize(r, verdict[r])
  <2>1. /\ Active(r) /\ verdict[r] \in PreMarker \cup PostMarker \cup {"pending_marker"}
        /\ gate[r] \in {"pending", "release_requested"}
    BY <1>2 DEF DispatchInv, CoreInv, HandlePhases, RunPhases
  <2>2. \A e \in linked[r] : evStatus[e] = "in_flight"
    BY <1>2, <2>1 DEF DispatchInv, CoreInv, TypeOK, EventsFollowRuns
  <2>3. verdict[r] \in PostMarker => gate[r] = "release_requested"
    BY <1>2 DEF DispatchInv, LaunchPhases, LaunchFits
  <2>4. verdict[r] = "pending_marker" => runStatus[r] = "starting" /\ gate[r] = "pending"
    BY <1>2 DEF DispatchInv, LaunchPhases, LaunchFits
  <2>5. runStatus[r] = "starting" => OfRun(r, {"applied"}) = {}
    BY <1>2, NoRunAssumption DEF DispatchInv, PromptPhases, OwnerFits, OfRun
  <2> QED
    BY <2>1, <2>2, <2>3, <2>4, <2>5 DEF CanFinalize, Outcomes, PreMarker, PostMarker
<1>3. DispatchInv => OutcomeCanBeRecorded
  BY <1>1, <1>2 DEF OutcomeCanBeRecorded
<1> QED
  BY <1>3, DispatchInvariant, PTL

\* Two agents execute with the same instruction only if one of them is a
\* launch that was written off after its marker.
THEOREM OnlyWrittenOffIsRedelivered == Spec => []OnlyFailedGatesRedeliver
<1>1. ASSUME DispatchInv, NEW i \in Interventions, NEW r \in Delivered(i), ~WrittenOff(r)
      PROVE  ivRun[i] = r
  BY <1>1 DEF DispatchInv, PromptPhases, PromptFits, Delivered
<1>2. DispatchInv => OnlyFailedGatesRedeliver
  BY <1>1 DEF OnlyFailedGatesRedeliver, WrittenOff, Delivered
<1> QED
  BY <1>2, DispatchInvariant, PTL
============================================================================
