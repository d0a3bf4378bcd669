------------------------ MODULE AgentDispatchProofs ------------------------
(* Proofs about AgentDispatch: type correctness and the safety invariants. *)
EXTENDS AgentDispatch, TLAPS

LEMMA InitTypeOK == Init => TypeOK
BY MaxOutagesAssumption, NoRunAssumption DEF Init, TypeOK, EventStatus, RunStatus, Gate, Verdict,
   Outcomes, PreMarker, PostMarker, HandleState, InLaunch

LEMMA SchedulerTypeOK == TypeOK /\ SchedulerStep => TypeOK'
<1> USE DEF TypeOK, EventStatus, RunStatus, eventRows, runRows, ivRows, procs, tick, handles, history, Put, TickMayStart
<1> SUFFICES ASSUME TypeOK, SchedulerStep PROVE TypeOK'
  OBVIOUS
<1>1. ASSUME NEW X \in SUBSET Events, RecoverClaims(X) PROVE TypeOK'
  BY <1>1 DEF RecoverClaims, Refund
<1>2. ASSUME NEW Y \in SUBSET Interventions, RecoverReservations(Y) PROVE TypeOK'
  BY <1>2 DEF RecoverReservations, ReturnToPending
<1>3. ASSUME NEW S \in SUBSET Events, ClaimBatch(S) PROVE TypeOK'
  BY <1>3 DEF ClaimBatch
<1>4. ASSUME NEW S \in SUBSET Events, RotateBlocked(S) PROVE TypeOK'
  BY <1>4 DEF RotateBlocked
<1>5. ASSUME NEW D \in SUBSET Events, NEW released \in BOOLEAN, Defer(D, released) PROVE TypeOK'
  BY <1>5 DEF Defer, Refund, LeaveBatch, ReleaseHeld, ReturnToPending
<1>6. ASSUME NEW D \in SUBSET Events, CompleteRetired(D) PROVE TypeOK'
  BY <1>6 DEF CompleteRetired, LeaveBatch
<1>7. ASSUME NEW fails \in BOOLEAN, FailBatch(fails) PROVE TypeOK'
  BY <1>7 DEF FailBatch, LeaveBatch, ReleaseHeld, ReturnToPending
<1>8. ASSUME NEW released \in BOOLEAN, NEW fails \in BOOLEAN, BlockUnbound(released, fails) PROVE TypeOK'
  BY <1>8 DEF BlockUnbound, LeaveBatch, ReleaseHeld, ReturnToPending
<1>9. ASSUME NEW released \in BOOLEAN, RetryUnbound(released) PROVE TypeOK'
  BY <1>9 DEF RetryUnbound, RetryTarget, LeaveBatch, ReleaseHeld, ReturnToPending
<1>10. ASSUME NEW released \in BOOLEAN, TickFails(released) PROVE TypeOK'
  BY <1>10 DEF TickFails, LeaveBatch, ReleaseHeld, ReturnToPending
<1>11. ASSUME NEW I \in SUBSET Interventions, Reserve(I) PROVE TypeOK'
  BY <1>11 DEF Reserve
<1> QED
  BY <1>1, <1>2, <1>3, <1>4, <1>5, <1>6, <1>7, <1>8, <1>9, <1>10, <1>11 DEF SchedulerStep
----------------------------------------------------------------------------
(* Scheduler steps move waiting events only and touch no run.              *)

Waiting == {"pending", "claimed", "retry_wait"}

MovesWaitingOnly ==
    \A e \in Events :
        evStatus'[e] = evStatus[e] \/
            (evStatus[e] \in Waiting /\ evStatus'[e] \notin {"none", "in_flight", "dispatched"})

RunsUntouched == UNCHANGED <<runRows, procs, handles>>

LEMMA SchedulerFrame ==
    ASSUME TypeOK, TickPhases, SchedulerStep
    PROVE  RunsUntouched /\ MovesWaitingOnly /\ stage # "launching" /\ stage' # "launching" /\ TickPhases'
<1> DEFINE Goal == RunsUntouched /\ MovesWaitingOnly /\ stage # "launching" /\ stage' # "launching" /\ TickPhases'
<1> USE DEF TypeOK, TickPhases, RunsUntouched, MovesWaitingOnly, Waiting, EventStatus, eventRows, runRows, ivRows, procs, tick, handles, history, Put, TickMayStart
<1>1. ASSUME NEW X \in SUBSET Events, RecoverClaims(X) PROVE Goal
  BY <1>1 DEF RecoverClaims, Refund
<1>2. ASSUME NEW Y \in SUBSET Interventions, RecoverReservations(Y) PROVE Goal
  BY <1>2 DEF RecoverReservations, ReturnToPending
<1>3. ASSUME NEW S \in SUBSET Events, ClaimBatch(S) PROVE Goal
  BY <1>3 DEF ClaimBatch, Due
<1>4. ASSUME NEW S \in SUBSET Events, RotateBlocked(S) PROVE Goal
  BY <1>4 DEF RotateBlocked, Due
<1>5. ASSUME NEW D \in SUBSET Events, NEW released \in BOOLEAN, Defer(D, released) PROVE Goal
  BY <1>5 DEF Defer, Refund, LeaveBatch, ReleaseHeld, ReturnToPending
<1>6. ASSUME NEW D \in SUBSET Events, CompleteRetired(D) PROVE Goal
  BY <1>6 DEF CompleteRetired, LeaveBatch
<1>7. ASSUME NEW fails \in BOOLEAN, FailBatch(fails) PROVE Goal
  BY <1>7 DEF FailBatch, LeaveBatch, ReleaseHeld, ReturnToPending
<1>8. ASSUME NEW released \in BOOLEAN, NEW fails \in BOOLEAN, BlockUnbound(released, fails) PROVE Goal
  BY <1>8 DEF BlockUnbound, LeaveBatch, ReleaseHeld, ReturnToPending
<1>9. ASSUME NEW released \in BOOLEAN, RetryUnbound(released) PROVE Goal
  BY <1>9 DEF RetryUnbound, RetryTarget, LeaveBatch, ReleaseHeld, ReturnToPending
<1>10. ASSUME NEW released \in BOOLEAN, TickFails(released) PROVE Goal
  BY <1>10 DEF TickFails, LeaveBatch, ReleaseHeld, ReturnToPending
<1>11. ASSUME NEW I \in SUBSET Interventions, Reserve(I) PROVE Goal
  BY <1>11 DEF Reserve
<1> QED
  BY <1>1, <1>2, <1>3, <1>4, <1>5, <1>6, <1>7, <1>8, <1>9, <1>10, <1>11 DEF SchedulerStep

LEMMA WaitingMoves ==
    ASSUME CoreInv, TypeOK', RunsUntouched, MovesWaitingOnly, TickPhases',
           stage' # stage => stage # "launching" /\ stage' # "launching"
    PROVE  CoreInv'
<1> USE DEF RunsUntouched, runRows, procs, handles, Active, Executed
<1>1. HandlePhases'
  BY DEF CoreInv, HandlePhases
<1>2. RunPhases'
  BY DEF CoreInv, RunPhases
<1>3. EventsFollowRuns'
  BY DEF CoreInv, EventsFollowRuns, MovesWaitingOnly, Waiting
<1>4. NoBlindRetry'
  BY DEF CoreInv, NoBlindRetry, MovesWaitingOnly, Waiting, TypeOK
<1>5. OneAgentPerEvent'
  BY DEF CoreInv, OneAgentPerEvent
<1> QED
  BY <1>1, <1>2, <1>3, <1>4, <1>5 DEF CoreInv
\* Producers record events that no run knows yet.
LEMMA CreateEventStep ==
    ASSUME NEW e \in Events, CoreInv, CreateEvent(e)
    PROVE  CoreInv'
<1> USE DEF CreateEvent, eventRows, runRows, ivRows, procs, tick, handles, history
<1>1. TypeOK'
  BY DEF CoreInv, TypeOK, EventStatus
<1>2. HandlePhases' /\ RunPhases' /\ TickPhases'
  BY DEF CoreInv, HandlePhases, RunPhases, TickPhases, TypeOK, Active, Executed
<1>3. EventsFollowRuns'
  BY DEF CoreInv, EventsFollowRuns, TypeOK, Active
<1>4. NoBlindRetry' /\ OneAgentPerEvent'
  BY DEF CoreInv, NoBlindRetry, OneAgentPerEvent, TypeOK, Active, Executed
<1> QED
  BY <1>1, <1>2, <1>3, <1>4 DEF CoreInv

LEMMA AddInterventionStep ==
    ASSUME NEW i \in Interventions, CoreInv, AddIntervention(i)
    PROVE  CoreInv'
<1> USE DEF AddIntervention, eventRows, runRows, procs, tick, handles, history
<1>1. TypeOK'
  BY DEF CoreInv, TypeOK
<1>2. RunsUntouched /\ MovesWaitingOnly /\ TickPhases' /\ UNCHANGED stage
  BY DEF CoreInv, RunsUntouched, MovesWaitingOnly, TickPhases
<1> QED
  BY <1>1, <1>2, WaitingMoves

----------------------------------------------------------------------------
(* Steps of one run that leave the events as they are.                     *)

SameRun(r) ==
    /\ Active(r)' = Active(r)
    /\ (gate[r] = "released")' = (gate[r] = "released")
    /\ Executed(r)' = Executed(r)
    /\ (child[r] = "executing")' => child[r] = "executing"

LEMMA QuietStep ==
    ASSUME CoreInv, UNCHANGED <<evStatus, linked, ending>>, \A r \in Runs : SameRun(r)
    PROVE  EventsFollowRuns' /\ NoBlindRetry' /\ OneAgentPerEvent'
<1>1. EventsFollowRuns'
  BY DEF CoreInv, EventsFollowRuns, SameRun
<1>2. NoBlindRetry'
  BY DEF CoreInv, NoBlindRetry, SameRun
<1>3. OneAgentPerEvent'
  BY DEF CoreInv, OneAgentPerEvent, SameRun
<1> QED
  BY <1>1, <1>2, <1>3

LEMMA SpawnStep ==
    ASSUME NEW r \in Runs, CoreInv, Spawn(r)
    PROVE  CoreInv'
<1> USE DEF Spawn, TickMayStart, eventRows, runRows, ivRows, procs, tick, handles, history, Put,
        Active, Executed
<1>1. TypeOK /\ HandlePhases /\ RunPhases /\ TickPhases
  BY DEF CoreInv
<1>2. TypeOK'
  BY <1>1 DEF TypeOK, RunStatus, Gate, HandleState, InLaunch, Verdict, Outcomes, PreMarker, PostMarker
<1>3. HandlePhases'
  BY <1>1 DEF TypeOK, HandlePhases, RunPhases, TickPhases, InLaunch, Verdict, Outcomes, PreMarker, PostMarker
<1>4. RunPhases'
  BY <1>1 DEF TypeOK, HandlePhases, RunPhases, TickPhases, InLaunch
<1>5. TickPhases'
  BY <1>1 DEF TypeOK, HandlePhases, TickPhases, InLaunch
<1>6. \A q \in Runs : SameRun(q)
  BY <1>1 DEF SameRun, TypeOK, HandlePhases, RunPhases, InLaunch
<1> QED
  BY <1>2, <1>3, <1>4, <1>5, <1>6, QuietStep DEF CoreInv

LEMMA MarkRunningStep ==
    ASSUME NEW r \in Runs, CoreInv, MarkRunning(r)
    PROVE  CoreInv'
<1> USE DEF MarkRunning, TickMayStart, eventRows, runRows, ivRows, procs, tick, handles, history, Put,
        Active, Executed
<1>1. TypeOK /\ HandlePhases /\ RunPhases /\ TickPhases
  BY DEF CoreInv
<1>2. TypeOK'
  BY <1>1 DEF TypeOK, RunStatus, Gate, HandleState, InLaunch, Verdict, Outcomes, PreMarker, PostMarker
<1>3. HandlePhases'
  BY <1>1 DEF TypeOK, HandlePhases, RunPhases, TickPhases, InLaunch, Verdict, Outcomes, PreMarker, PostMarker
<1>4. RunPhases'
  BY <1>1 DEF TypeOK, HandlePhases, RunPhases, TickPhases, InLaunch
<1>5. TickPhases'
  BY <1>1 DEF TypeOK, HandlePhases, TickPhases, InLaunch
<1>6. \A q \in Runs : SameRun(q)
  BY <1>1 DEF SameRun, TypeOK, HandlePhases, RunPhases, InLaunch
<1> QED
  BY <1>2, <1>3, <1>4, <1>5, <1>6, QuietStep DEF CoreInv

LEMMA RequestReleaseStep ==
    ASSUME NEW r \in Runs, CoreInv, RequestRelease(r)
    PROVE  CoreInv'
<1> USE DEF RequestRelease, TickMayStart, eventRows, runRows, ivRows, procs, tick, handles, history, Put,
        Active, Executed
<1>1. TypeOK /\ HandlePhases /\ RunPhases /\ TickPhases
  BY DEF CoreInv
<1>2. TypeOK'
  BY <1>1 DEF TypeOK, RunStatus, Gate, HandleState, InLaunch, Verdict, Outcomes, PreMarker, PostMarker
<1>3. HandlePhases'
  BY <1>1 DEF TypeOK, HandlePhases, RunPhases, TickPhases, InLaunch, Verdict, Outcomes, PreMarker, PostMarker
<1>4. RunPhases'
  BY <1>1 DEF TypeOK, HandlePhases, RunPhases, TickPhases, InLaunch
<1>5. TickPhases'
  BY <1>1 DEF TypeOK, HandlePhases, TickPhases, InLaunch
<1>6. \A q \in Runs : SameRun(q)
  BY <1>1 DEF SameRun, TypeOK, HandlePhases, RunPhases, InLaunch
<1> QED
  BY <1>2, <1>3, <1>4, <1>5, <1>6, QuietStep DEF CoreInv

LEMMA PublishMarkerStep ==
    ASSUME NEW r \in Runs, CoreInv, PublishMarker(r)
    PROVE  CoreInv'
<1> USE DEF PublishMarker, TickMayStart, eventRows, runRows, ivRows, procs, tick, handles, history, Put,
        Active, Executed
<1>1. TypeOK /\ HandlePhases /\ RunPhases /\ TickPhases
  BY DEF CoreInv
<1>2. TypeOK'
  BY <1>1 DEF TypeOK, RunStatus, Gate, HandleState, InLaunch, Verdict, Outcomes, PreMarker, PostMarker
<1>3. HandlePhases'
  BY <1>1 DEF TypeOK, HandlePhases, RunPhases, TickPhases, InLaunch, Verdict, Outcomes, PreMarker, PostMarker
<1>4. RunPhases'
  BY <1>1 DEF TypeOK, HandlePhases, RunPhases, TickPhases, InLaunch
<1>5. TickPhases'
  BY <1>1 DEF TypeOK, HandlePhases, TickPhases, InLaunch
<1>6. \A q \in Runs : SameRun(q)
  BY <1>1 DEF SameRun, TypeOK, HandlePhases, RunPhases, InLaunch
<1> QED
  BY <1>2, <1>3, <1>4, <1>5, <1>6, QuietStep DEF CoreInv

LEMMA LaunchFailsStep ==
    ASSUME NEW r \in Runs, NEW v \in Verdict, CoreInv, LaunchFails(r, v)
    PROVE  CoreInv'
<1> USE DEF LaunchFails, FailureVerdict, TickMayStart, eventRows, runRows, ivRows, procs, tick, handles, history, Put,
        Active, Executed
<1>1. TypeOK /\ HandlePhases /\ RunPhases /\ TickPhases
  BY DEF CoreInv
<1>2. TypeOK'
  BY <1>1 DEF TypeOK, RunStatus, Gate, HandleState, InLaunch, Verdict, Outcomes, PreMarker, PostMarker
<1>3. HandlePhases'
  BY <1>1 DEF TypeOK, HandlePhases, RunPhases, TickPhases, InLaunch, Verdict, Outcomes, PreMarker, PostMarker
<1>4. RunPhases'
  BY <1>1 DEF TypeOK, HandlePhases, RunPhases, TickPhases, InLaunch
<1>5. TickPhases'
  BY <1>1 DEF TypeOK, HandlePhases, TickPhases, InLaunch
<1>6. \A q \in Runs : SameRun(q)
  BY <1>1 DEF SameRun, TypeOK, HandlePhases, RunPhases, InLaunch
<1> QED
  BY <1>2, <1>3, <1>4, <1>5, <1>6, QuietStep DEF CoreInv

LEMMA KillChildStep ==
    ASSUME NEW r \in Runs, CoreInv, KillChild(r)
    PROVE  CoreInv'
<1> USE DEF KillChild, Live, TickMayStart, eventRows, runRows, ivRows, procs, tick, handles, history, Put,
        Active, Executed
<1>1. TypeOK /\ HandlePhases /\ RunPhases /\ TickPhases
  BY DEF CoreInv
<1>2. TypeOK'
  BY <1>1 DEF TypeOK, RunStatus, Gate, HandleState, InLaunch, Verdict, Outcomes, PreMarker, PostMarker
<1>3. HandlePhases'
  BY <1>1 DEF TypeOK, HandlePhases, RunPhases, TickPhases, InLaunch, Verdict, Outcomes, PreMarker, PostMarker
<1>4. RunPhases'
  BY <1>1 DEF TypeOK, HandlePhases, RunPhases, TickPhases, InLaunch
<1>5. TickPhases'
  BY <1>1 DEF TypeOK, HandlePhases, TickPhases, InLaunch
<1>6. \A q \in Runs : SameRun(q)
  BY <1>1 DEF SameRun, TypeOK, HandlePhases, RunPhases, InLaunch
<1> QED
  BY <1>2, <1>3, <1>4, <1>5, <1>6, QuietStep DEF CoreInv

LEMMA RecordEvidenceStep ==
    ASSUME NEW r \in Runs, CoreInv, RecordEvidence(r)
    PROVE  CoreInv'
<1> USE DEF RecordEvidence, TickMayStart, eventRows, runRows, ivRows, procs, tick, handles, history, Put,
        Active, Executed
<1>1. TypeOK /\ HandlePhases /\ RunPhases /\ TickPhases
  BY DEF CoreInv
<1>2. TypeOK'
  BY <1>1 DEF TypeOK, RunStatus, Gate, HandleState, InLaunch, Verdict, Outcomes, PreMarker, PostMarker
<1>3. HandlePhases'
  BY <1>1 DEF TypeOK, HandlePhases, RunPhases, TickPhases, InLaunch, Verdict, Outcomes, PreMarker, PostMarker
<1>4. RunPhases'
  BY <1>1 DEF TypeOK, HandlePhases, RunPhases, TickPhases, InLaunch
<1>5. TickPhases'
  BY <1>1 DEF TypeOK, HandlePhases, TickPhases, InLaunch
<1>6. \A q \in Runs : SameRun(q)
  BY <1>1 DEF SameRun, TypeOK, HandlePhases, RunPhases, InLaunch
<1> QED
  BY <1>2, <1>3, <1>4, <1>5, <1>6, QuietStep DEF CoreInv

LEMMA ObserveExitStep ==
    ASSUME NEW r \in Runs, NEW v \in Outcomes, CoreInv, ObserveExit(r, v)
    PROVE  CoreInv'
<1> USE DEF ObserveExit, TickMayStart, eventRows, runRows, ivRows, procs, tick, handles, history, Put,
        Active, Executed
<1>1. TypeOK /\ HandlePhases /\ RunPhases /\ TickPhases
  BY DEF CoreInv
<1>2. TypeOK'
  BY <1>1 DEF TypeOK, RunStatus, Gate, HandleState, InLaunch, Verdict, Outcomes, PreMarker, PostMarker
<1>3. HandlePhases'
  BY <1>1 DEF TypeOK, HandlePhases, RunPhases, TickPhases, InLaunch, Verdict, Outcomes, PreMarker, PostMarker
<1>4. RunPhases'
  BY <1>1 DEF TypeOK, HandlePhases, RunPhases, TickPhases, InLaunch
<1>5. TickPhases'
  BY <1>1 DEF TypeOK, HandlePhases, TickPhases, InLaunch
<1>6. \A q \in Runs : SameRun(q)
  BY <1>1 DEF SameRun, TypeOK, HandlePhases, RunPhases, InLaunch
<1> QED
  BY <1>2, <1>3, <1>4, <1>5, <1>6, QuietStep DEF CoreInv

LEMMA TimeOutStep ==
    ASSUME NEW r \in Runs, CoreInv, TimeOut(r)
    PROVE  CoreInv'
<1> USE DEF TimeOut, MayPoll, TickMayStart, eventRows, runRows, ivRows, procs, tick, handles, history, Put,
        Active, Executed
<1>1. TypeOK /\ HandlePhases /\ RunPhases /\ TickPhases
  BY DEF CoreInv
<1>2. TypeOK'
  BY <1>1 DEF TypeOK, RunStatus, Gate, HandleState, InLaunch, Verdict, Outcomes, PreMarker, PostMarker
<1>3. HandlePhases'
  BY <1>1 DEF TypeOK, HandlePhases, RunPhases, TickPhases, InLaunch, Verdict, Outcomes, PreMarker, PostMarker
<1>4. RunPhases'
  BY <1>1 DEF TypeOK, HandlePhases, RunPhases, TickPhases, InLaunch
<1>5. TickPhases'
  BY <1>1 DEF TypeOK, HandlePhases, TickPhases, InLaunch
<1>6. \A q \in Runs : SameRun(q)
  BY <1>1 DEF SameRun, TypeOK, HandlePhases, RunPhases, InLaunch
<1> QED
  BY <1>2, <1>3, <1>4, <1>5, <1>6, QuietStep DEF CoreInv

LEMMA EmptyTempStep ==
    ASSUME NEW r \in Runs, CoreInv, EmptyTemp(r)
    PROVE  CoreInv'
<1> USE DEF EmptyTemp, MayPoll, TickMayStart, eventRows, runRows, ivRows, procs, tick, handles, history, Put,
        Active, Executed
<1>1. TypeOK /\ HandlePhases /\ RunPhases /\ TickPhases
  BY DEF CoreInv
<1>2. TypeOK'
  BY <1>1 DEF TypeOK, RunStatus, Gate, HandleState, InLaunch, Verdict, Outcomes, PreMarker, PostMarker
<1>3. HandlePhases'
  BY <1>1 DEF TypeOK, HandlePhases, RunPhases, TickPhases, InLaunch, Verdict, Outcomes, PreMarker, PostMarker
<1>4. RunPhases'
  BY <1>1 DEF TypeOK, HandlePhases, RunPhases, TickPhases, InLaunch
<1>5. TickPhases'
  BY <1>1 DEF TypeOK, HandlePhases, TickPhases, InLaunch
<1>6. \A q \in Runs : SameRun(q)
  BY <1>1 DEF SameRun, TypeOK, HandlePhases, RunPhases, InLaunch
<1> QED
  BY <1>2, <1>3, <1>4, <1>5, <1>6, QuietStep DEF CoreInv

LEMMA LoseOwnershipStep ==
    ASSUME NEW r \in Runs, CoreInv, LoseOwnership(r)
    PROVE  CoreInv'
<1> USE DEF LoseOwnership, TickMayStart, eventRows, runRows, ivRows, procs, tick, handles, history, Put,
        Active, Executed
<1>1. TypeOK /\ HandlePhases /\ RunPhases /\ TickPhases
  BY DEF CoreInv
<1>2. TypeOK'
  BY <1>1 DEF TypeOK, RunStatus, Gate, HandleState, InLaunch, Verdict, Outcomes, PreMarker, PostMarker
<1>3. HandlePhases'
  BY <1>1 DEF TypeOK, HandlePhases, RunPhases, TickPhases, InLaunch, Verdict, Outcomes, PreMarker, PostMarker
<1>4. RunPhases'
  BY <1>1 DEF TypeOK, HandlePhases, RunPhases, TickPhases, InLaunch
<1>5. TickPhases'
  BY <1>1 DEF TypeOK, HandlePhases, TickPhases, InLaunch
<1>6. \A q \in Runs : SameRun(q)
  BY <1>1 DEF SameRun, TypeOK, HandlePhases, RunPhases, InLaunch
<1> QED
  BY <1>2, <1>3, <1>4, <1>5, <1>6, QuietStep DEF CoreInv

LEMMA AgentExitsStep ==
    ASSUME NEW r \in Runs, CoreInv, AgentExits(r)
    PROVE  CoreInv'
<1> USE DEF AgentExits, TickMayStart, eventRows, runRows, ivRows, procs, tick, handles, history, Put,
        Active, Executed
<1>1. TypeOK /\ HandlePhases /\ RunPhases /\ TickPhases
  BY DEF CoreInv
<1>2. TypeOK'
  BY <1>1 DEF TypeOK, RunStatus, Gate, HandleState, InLaunch, Verdict, Outcomes, PreMarker, PostMarker
<1>3. HandlePhases'
  BY <1>1 DEF TypeOK, HandlePhases, RunPhases, TickPhases, InLaunch, Verdict, Outcomes, PreMarker, PostMarker
<1>4. RunPhases'
  BY <1>1 DEF TypeOK, HandlePhases, RunPhases, TickPhases, InLaunch
<1>5. TickPhases'
  BY <1>1 DEF TypeOK, HandlePhases, TickPhases, InLaunch
<1>6. \A q \in Runs : SameRun(q)
  BY <1>1 DEF SameRun, TypeOK, HandlePhases, RunPhases, InLaunch
<1> QED
  BY <1>2, <1>3, <1>4, <1>5, <1>6, QuietStep DEF CoreInv

LEMMA DaemonEndsStep ==
    ASSUME CoreInv, DaemonEnds, outages' \in 0..MaxOutages
    PROVE  CoreInv'
<1> USE DEF DaemonEnds, TickMayStart, eventRows, runRows, ivRows, procs, tick, handles, history, Put,
        Active, Executed
<1>1. TypeOK /\ HandlePhases /\ RunPhases /\ TickPhases
  BY DEF CoreInv
<1>2. TypeOK'
  BY <1>1 DEF TypeOK, RunStatus, Gate, HandleState, InLaunch, Verdict, Outcomes, PreMarker, PostMarker
<1>3. HandlePhases'
  BY <1>1 DEF TypeOK, HandlePhases, RunPhases, TickPhases, InLaunch, Verdict, Outcomes, PreMarker, PostMarker
<1>4. RunPhases'
  BY <1>1 DEF TypeOK, HandlePhases, RunPhases, TickPhases, InLaunch
<1>5. TickPhases'
  BY <1>1 DEF TypeOK, HandlePhases, TickPhases, InLaunch
<1>6. \A q \in Runs : SameRun(q)
  BY <1>1 DEF SameRun, TypeOK, HandlePhases, RunPhases, InLaunch
<1> QED
  BY <1>2, <1>3, <1>4, <1>5, <1>6, QuietStep DEF CoreInv

LEMMA BeginDrainStep ==
    ASSUME CoreInv, BeginDrain
    PROVE  CoreInv'
<1> USE DEF BeginDrain, TickMayStart, eventRows, runRows, ivRows, procs, tick, handles, history, Put,
        Active, Executed
<1>1. TypeOK /\ HandlePhases /\ RunPhases /\ TickPhases
  BY DEF CoreInv
<1>2. TypeOK'
  BY <1>1, MaxOutagesAssumption DEF TypeOK, RunStatus, Gate, HandleState, InLaunch, Verdict, Outcomes, PreMarker, PostMarker
<1>3. HandlePhases'
  BY <1>1 DEF TypeOK, HandlePhases, RunPhases, TickPhases, InLaunch, Verdict, Outcomes, PreMarker, PostMarker
<1>4. RunPhases'
  BY <1>1 DEF TypeOK, HandlePhases, RunPhases, TickPhases, InLaunch
<1>5. TickPhases'
  BY <1>1 DEF TypeOK, HandlePhases, TickPhases, InLaunch
<1>6. \A q \in Runs : SameRun(q)
  BY <1>1 DEF SameRun, TypeOK, HandlePhases, RunPhases, InLaunch
<1> QED
  BY <1>2, <1>3, <1>4, <1>5, <1>6, QuietStep DEF CoreInv

LEMMA RestartStep ==
    ASSUME CoreInv, Restart
    PROVE  CoreInv'
<1> USE DEF Restart, TickMayStart, eventRows, runRows, ivRows, procs, tick, handles, history, Put,
        Active, Executed
<1>1. TypeOK /\ HandlePhases /\ RunPhases /\ TickPhases
  BY DEF CoreInv
<1>2. TypeOK'
  BY <1>1 DEF TypeOK, RunStatus, Gate, HandleState, InLaunch, Verdict, Outcomes, PreMarker, PostMarker
<1>3. HandlePhases'
  BY <1>1 DEF TypeOK, HandlePhases, RunPhases, TickPhases, InLaunch, Verdict, Outcomes, PreMarker, PostMarker
<1>4. RunPhases'
  BY <1>1 DEF TypeOK, HandlePhases, RunPhases, TickPhases, InLaunch
<1>5. TickPhases'
  BY <1>1 DEF TypeOK, HandlePhases, TickPhases, InLaunch
<1>6. \A q \in Runs : SameRun(q)
  BY <1>1 DEF SameRun, TypeOK, HandlePhases, RunPhases, InLaunch
<1> QED
  BY <1>2, <1>3, <1>4, <1>5, <1>6, QuietStep DEF CoreInv

----------------------------------------------------------------------------
(* Steps that move the events of a run, or start its agent.                *)

LEMMA BindRunStep ==
    ASSUME NEW r \in Runs, CoreInv, BindRun(r)
    PROVE  CoreInv'
<1> USE DEF BindRun, InsertRun, LeftoverMarker, NoActiveRun, TickMayStart, eventRows, runRows, ivRows, procs, tick, handles, history, Put,
        Active, Executed
<1>1. TypeOK /\ HandlePhases /\ RunPhases /\ TickPhases
  BY DEF CoreInv
<1>2. TypeOK'
  BY <1>1 DEF TypeOK, RunStatus, EventStatus, Gate, HandleState, InLaunch, Verdict, Outcomes, PreMarker, PostMarker
<1>3. HandlePhases'
  BY <1>1 DEF TypeOK, HandlePhases, RunPhases, TickPhases, InLaunch, Verdict, Outcomes, PreMarker, PostMarker
<1>4. RunPhases'
  BY <1>1 DEF TypeOK, HandlePhases, RunPhases, TickPhases, InLaunch, Outcomes, Verdict, PreMarker, PostMarker
<1>5. TickPhases'
  BY <1>1 DEF TypeOK, HandlePhases, TickPhases, InLaunch
<1>6. EventsFollowRuns'
  BY <1>1 DEF CoreInv, TypeOK, EventsFollowRuns, HandlePhases, RunPhases, TickPhases, InLaunch
<1>7. NoBlindRetry'
  BY <1>1 DEF CoreInv, TypeOK, NoBlindRetry, EventsFollowRuns, HandlePhases, RunPhases, TickPhases, InLaunch, Outcomes, PreMarker, PostMarker
<1>8. OneAgentPerEvent'
  BY <1>1 DEF CoreInv, TypeOK, OneAgentPerEvent, NoBlindRetry, EventsFollowRuns, HandlePhases, RunPhases, TickPhases, InLaunch, Outcomes
<1> QED
  BY <1>2, <1>3, <1>4, <1>5, <1>6, <1>7, <1>8 DEF CoreInv

LEMMA BindUnreadStep ==
    ASSUME NEW r \in Runs, NEW released \in BOOLEAN, CoreInv, BindUnread(r, released)
    PROVE  CoreInv'
<1> USE DEF BindUnread, InsertRun, LeftoverMarker, NoActiveRun, TickMayStart, eventRows, runRows, ivRows, procs, tick, handles, history, Put,
        Active, Executed
<1>1. TypeOK /\ HandlePhases /\ RunPhases /\ TickPhases
  BY DEF CoreInv
<1>2. TypeOK'
  BY <1>1 DEF TypeOK, RunStatus, EventStatus, Gate, HandleState, InLaunch, Verdict, Outcomes, PreMarker, PostMarker
<1>3. HandlePhases'
  BY <1>1 DEF TypeOK, HandlePhases, RunPhases, TickPhases, InLaunch, Verdict, Outcomes, PreMarker, PostMarker
<1>4. RunPhases'
  BY <1>1 DEF TypeOK, HandlePhases, RunPhases, TickPhases, InLaunch, Outcomes, Verdict, PreMarker, PostMarker
<1>5. TickPhases'
  BY <1>1 DEF TypeOK, HandlePhases, TickPhases, InLaunch
<1>6. EventsFollowRuns'
  BY <1>1 DEF CoreInv, TypeOK, EventsFollowRuns, HandlePhases, RunPhases, TickPhases, InLaunch
<1>7. NoBlindRetry'
  BY <1>1 DEF CoreInv, TypeOK, NoBlindRetry, EventsFollowRuns, HandlePhases, RunPhases, TickPhases, InLaunch, Outcomes, PreMarker, PostMarker
<1>8. OneAgentPerEvent'
  BY <1>1 DEF CoreInv, TypeOK, OneAgentPerEvent, NoBlindRetry, EventsFollowRuns, HandlePhases, RunPhases, TickPhases, InLaunch, Outcomes
<1> QED
  BY <1>2, <1>3, <1>4, <1>5, <1>6, <1>7, <1>8 DEF CoreInv

LEMMA ReleaseStep ==
    ASSUME NEW r \in Runs, CoreInv, Release(r)
    PROVE  CoreInv'
<1> USE DEF Release, TickMayStart, eventRows, runRows, ivRows, procs, tick, handles, history, Put,
        Active, Executed
<1>1. TypeOK /\ HandlePhases /\ RunPhases /\ TickPhases
  BY DEF CoreInv
<1>2. TypeOK'
  BY <1>1 DEF TypeOK, RunStatus, EventStatus, Gate, HandleState, InLaunch, Verdict, Outcomes, PreMarker, PostMarker
<1>3. HandlePhases'
  BY <1>1 DEF TypeOK, HandlePhases, RunPhases, TickPhases, InLaunch, Verdict, Outcomes, PreMarker, PostMarker
<1>4. RunPhases'
  BY <1>1 DEF TypeOK, HandlePhases, RunPhases, TickPhases, InLaunch, Outcomes, Verdict, PreMarker, PostMarker
<1>5. TickPhases'
  BY <1>1 DEF TypeOK, HandlePhases, TickPhases, InLaunch
<1>6. EventsFollowRuns'
  BY <1>1 DEF CoreInv, TypeOK, EventsFollowRuns, HandlePhases, RunPhases, TickPhases, InLaunch
<1>7. NoBlindRetry'
  BY <1>1 DEF CoreInv, TypeOK, NoBlindRetry, EventsFollowRuns, HandlePhases, RunPhases, TickPhases, InLaunch, Outcomes, PreMarker, PostMarker
<1>8. OneAgentPerEvent'
  BY <1>1 DEF CoreInv, TypeOK, OneAgentPerEvent, NoBlindRetry, EventsFollowRuns, HandlePhases, RunPhases, TickPhases, InLaunch, Outcomes
<1> QED
  BY <1>2, <1>3, <1>4, <1>5, <1>6, <1>7, <1>8 DEF CoreInv

LEMMA AckDispatchStep ==
    ASSUME NEW r \in Runs, CoreInv, AckDispatch(r)
    PROVE  CoreInv'
<1> USE DEF AckDispatch, AcknowledgeDispatch, TickMayStart, eventRows, runRows, ivRows, procs, tick, handles, history, Put,
        Active, Executed
<1>1. TypeOK /\ HandlePhases /\ RunPhases /\ TickPhases
  BY DEF CoreInv
<1>2. TypeOK'
  BY <1>1 DEF TypeOK, RunStatus, EventStatus, Gate, HandleState, InLaunch, Verdict, Outcomes, PreMarker, PostMarker
<1>3. HandlePhases'
  BY <1>1 DEF TypeOK, HandlePhases, RunPhases, TickPhases, InLaunch, Verdict, Outcomes, PreMarker, PostMarker
<1>4. RunPhases'
  BY <1>1 DEF TypeOK, HandlePhases, RunPhases, TickPhases, InLaunch, Outcomes, Verdict, PreMarker, PostMarker
<1>5. TickPhases'
  BY <1>1 DEF TypeOK, HandlePhases, TickPhases, InLaunch
<1>6. EventsFollowRuns'
  BY <1>1 DEF CoreInv, TypeOK, EventsFollowRuns, HandlePhases, RunPhases, TickPhases, InLaunch
<1>7. NoBlindRetry'
  BY <1>1 DEF CoreInv, TypeOK, NoBlindRetry, EventsFollowRuns, HandlePhases, RunPhases, TickPhases, InLaunch, Outcomes, PreMarker, PostMarker
<1>8. OneAgentPerEvent'
  BY <1>1 DEF CoreInv, TypeOK, OneAgentPerEvent, NoBlindRetry, EventsFollowRuns, HandlePhases, RunPhases, TickPhases, InLaunch, Outcomes
<1> QED
  BY <1>2, <1>3, <1>4, <1>5, <1>6, <1>7, <1>8 DEF CoreInv

LEMMA AckUnreadStep ==
    ASSUME NEW r \in Runs, CoreInv, AckUnread(r)
    PROVE  CoreInv'
<1> USE DEF AckUnread, AcknowledgeDispatch, TickMayStart, eventRows, runRows, ivRows, procs, tick, handles, history, Put,
        Active, Executed
<1>1. TypeOK /\ HandlePhases /\ RunPhases /\ TickPhases
  BY DEF CoreInv
<1>2. TypeOK'
  BY <1>1 DEF TypeOK, RunStatus, EventStatus, Gate, HandleState, InLaunch, Verdict, Outcomes, PreMarker, PostMarker
<1>3. HandlePhases'
  BY <1>1 DEF TypeOK, HandlePhases, RunPhases, TickPhases, InLaunch, Verdict, Outcomes, PreMarker, PostMarker
<1>4. RunPhases'
  BY <1>1 DEF TypeOK, HandlePhases, RunPhases, TickPhases, InLaunch, Outcomes, Verdict, PreMarker, PostMarker
<1>5. TickPhases'
  BY <1>1 DEF TypeOK, HandlePhases, TickPhases, InLaunch
<1>6. EventsFollowRuns'
  BY <1>1 DEF CoreInv, TypeOK, EventsFollowRuns, HandlePhases, RunPhases, TickPhases, InLaunch
<1>7. NoBlindRetry'
  BY <1>1 DEF CoreInv, TypeOK, NoBlindRetry, EventsFollowRuns, HandlePhases, RunPhases, TickPhases, InLaunch, Outcomes, PreMarker, PostMarker
<1>8. OneAgentPerEvent'
  BY <1>1 DEF CoreInv, TypeOK, OneAgentPerEvent, NoBlindRetry, EventsFollowRuns, HandlePhases, RunPhases, TickPhases, InLaunch, Outcomes
<1> QED
  BY <1>2, <1>3, <1>4, <1>5, <1>6, <1>7, <1>8 DEF CoreInv

\* What finalization leaves behind: no active run, and events at rest.
LEMMA FinalizeLeaves ==
    ASSUME NEW r \in Runs, NEW v \in Verdict, CoreInv, Finalize(r, v)
    PROVE  /\ \A q \in Runs : ~Active(q)'
           /\ \A e \in Events : IF e \in linked[r]
                  THEN /\ evStatus[e] \in {"in_flight", "dispatched"}
                       /\ evStatus'[e] = EventEnd(e, v)
                  ELSE evStatus'[e] = evStatus[e] /\ evStatus[e] \notin {"in_flight", "dispatched"}
<1> USE DEF Finalize, CanFinalize
<1>1. \A q \in Runs : ~Active(q)'
  BY DEF CoreInv, TypeOK, RunPhases, Active, RunEnd, Outcomes
<1>2. \A e \in Events : e \notin linked[r] => evStatus[e] \notin {"in_flight", "dispatched"}
  BY DEF CoreInv, RunPhases, EventsFollowRuns
<1> QED
  BY <1>1, <1>2 DEF CoreInv, TypeOK

LEMMA FinalizeEvents ==
    ASSUME NEW r \in Runs, NEW v \in Verdict, CoreInv, Finalize(r, v),
           v \in Outcomes => child[r] = "exited",
           v \in PreMarker \cup {"pending_marker"} => ~Executed(r)
    PROVE  RunPhases' /\ EventsFollowRuns' /\ NoBlindRetry' /\ OneAgentPerEvent'
<1>1. TypeOK /\ RunPhases /\ UNCHANGED <<linked, child, marker>>
  BY DEF CoreInv, Finalize, procs
<1>2. /\ runStatus' = [runStatus EXCEPT ![r] = RunEnd(v)]
      /\ ending' = [ending EXCEPT ![r] = v]
      /\ Active(r)
  BY DEF Finalize, CanFinalize
<1>3. RunPhases'
  BY <1>1, <1>2, FinalizeLeaves DEF TypeOK, RunPhases, Executed, RunEnd, Outcomes, PreMarker, Active
<1>4. \A e \in Events : EventEnd(e, v) \in {"completed", "retry_wait", "dead_letter"}
  BY DEF EventEnd, RetryTarget
<1>5. EventsFollowRuns'
  BY <1>4, FinalizeLeaves DEF EventsFollowRuns
<1>6. ASSUME NEW q \in Runs, Executed(q), ending'[q] \notin Outcomes, NEW e \in linked[q]
      PROVE  evStatus'[e] = "dead_letter"
  <2>1. e \in Events
    BY <1>1 DEF TypeOK
  <2>2. CASE q = r
    BY <1>1, <1>2, <1>6, <2>1, <2>2, FinalizeLeaves
       DEF TypeOK, EventEnd, Outcomes, PreMarker, PostMarker
  <2>3. CASE q # r
    <3>1. ~Active(q) /\ ending[q] \notin Outcomes
      BY <1>1, <1>2, <1>6, <2>3 DEF TypeOK, RunPhases
    <3> QED
      BY <1>6, <2>1, <3>1, FinalizeLeaves DEF CoreInv, NoBlindRetry
  <2> QED
    BY <2>2, <2>3
<1>7. NoBlindRetry'
  BY <1>1, <1>6 DEF NoBlindRetry, Executed
<1>8. OneAgentPerEvent'
  BY <1>1 DEF CoreInv, OneAgentPerEvent
<1> QED
  BY <1>3, <1>5, <1>7, <1>8

LEMMA FinalizeCleanupStep ==
    ASSUME NEW r \in Runs, CoreInv, FinalizeCleanup(r)
    PROVE  CoreInv'
<1>1. TypeOK /\ HandlePhases /\ RunPhases /\ TickPhases
  BY DEF CoreInv
<1>2. /\ Finalize(r, verdict[r])
      /\ verdict[r] \in Outcomes => child[r] = "exited"
      /\ verdict[r] \in PreMarker \cup {"pending_marker"} => ~Executed(r)
  BY <1>1 DEF FinalizeCleanup, TypeOK, HandlePhases, Outcomes, PreMarker, PostMarker
<1>3. TypeOK'
  BY <1>1, <1>2 DEF FinalizeCleanup, Finalize, RunEnd, EventEnd, RetryTarget, ReturnToPending, Put, OfRun,
     procs, tick, history, TypeOK, RunStatus, EventStatus, Gate, HandleState, InLaunch, Verdict, Outcomes, PreMarker, PostMarker
<1>4. HandlePhases'
  BY <1>1 DEF FinalizeCleanup, Finalize, procs, tick, TypeOK, HandlePhases, RunPhases, Active, Executed, InLaunch
<1>5. TickPhases'
  BY <1>1, <1>2, FinalizeLeaves DEF CoreInv, FinalizeCleanup, Finalize, tick, TypeOK, TickPhases
<1>6. RunPhases' /\ EventsFollowRuns' /\ NoBlindRetry' /\ OneAgentPerEvent'
  BY <1>1, <1>2, FinalizeEvents DEF TypeOK
<1> QED
  BY <1>3, <1>4, <1>5, <1>6 DEF CoreInv

LEMMA FinalizeRunStep ==
    ASSUME NEW r \in Runs, NEW emptied \in BOOLEAN, CoreInv, FinalizeRun(r, emptied)
    PROVE  CoreInv'
<1>1. TypeOK /\ HandlePhases /\ RunPhases /\ TickPhases
  BY DEF CoreInv
<1>2. /\ Finalize(r, verdict[r])
      /\ verdict[r] \in Outcomes => child[r] = "exited"
      /\ verdict[r] \in PreMarker \cup {"pending_marker"} => ~Executed(r)
  BY <1>1 DEF FinalizeRun, TypeOK, HandlePhases, Outcomes, PreMarker, PostMarker
<1>3. TypeOK'
  BY <1>1, <1>2 DEF FinalizeRun, Finalize, RunEnd, EventEnd, RetryTarget, ReturnToPending, Put, OfRun,
     procs, tick, history, TypeOK, RunStatus, EventStatus, Gate, HandleState, InLaunch, Verdict, Outcomes, PreMarker, PostMarker
<1>4. HandlePhases'
  BY <1>1 DEF FinalizeRun, Finalize, procs, tick, TypeOK, HandlePhases, RunPhases, Active, Executed, InLaunch
<1>5. TickPhases'
  BY <1>1, <1>2, FinalizeLeaves DEF CoreInv, FinalizeRun, Finalize, tick, TypeOK, TickPhases
<1>6. RunPhases' /\ EventsFollowRuns' /\ NoBlindRetry' /\ OneAgentPerEvent'
  BY <1>1, <1>2, FinalizeEvents DEF TypeOK
<1> QED
  BY <1>3, <1>4, <1>5, <1>6 DEF CoreInv

----------------------------------------------------------------------------
(* Startup recovery ends every active run.                                 *)

\* Recovery writes a verdict for each active run, settles that run's events
\* and leaves the other events alone.
LEMMA RecoverLeaves ==
    ASSUME NEW U \in SUBSET Runs, NEW Y \in SUBSET Interventions, CoreInv, Recover(U, Y)
    PROVE  /\ \A q \in Runs : ~Active(q)'
           /\ \A q \in Runs : ending'[q] = IF Active(q) THEN RecoveryVerdict(q, U) ELSE ending[q]
           /\ \A e \in Events :
                 /\ evStatus'[e] \notin {"in_flight", "dispatched"}
                 /\ (\A q \in Runs : Active(q) => e \notin linked[q]) => evStatus'[e] = evStatus[e]
                 /\ \A q \in Runs :
                       Active(q) /\ e \in linked[q] /\ RecoveryVerdict(q, U) # "retry" =>
                           evStatus'[e] = "dead_letter"
<1> DEFINE Interrupted == {q \in Runs : Active(q)}
           Resolved(e) == {q \in Interrupted : e \in linked[q]}
<1>1. TypeOK
  BY DEF CoreInv
<1>2. /\ runStatus' = Put(runStatus, Interrupted, "failed")
      /\ ending' = [q \in Runs |-> IF q \in Interrupted THEN RecoveryVerdict(q, U) ELSE ending[q]]
  BY DEF Recover
<1>3. evStatus' = [e \in Events |->
            IF Resolved(e) = {} THEN evStatus[e]
            ELSE IF \E q \in Resolved(e) : RecoveryVerdict(q, U) # "retry" THEN "dead_letter"
            ELSE RetryTarget(e)]
  BY DEF Recover
<1>4. \A q \in Runs : ~Active(q)'
  BY <1>1, <1>2 DEF TypeOK, Put, Active
<1>5. ASSUME NEW e \in Events
      PROVE  /\ evStatus'[e] \notin {"in_flight", "dispatched"}
             /\ (\A q \in Runs : Active(q) => e \notin linked[q]) => evStatus'[e] = evStatus[e]
             /\ \A q \in Runs :
                   Active(q) /\ e \in linked[q] /\ RecoveryVerdict(q, U) # "retry" =>
                       evStatus'[e] = "dead_letter"
  <2>1. CASE Resolved(e) = {}
    <3>1. \A q \in Runs : Active(q) => e \notin linked[q]
      BY <2>1
    <3>2. evStatus[e] \notin {"in_flight", "dispatched"}
      BY <3>1 DEF CoreInv, EventsFollowRuns
    <3> QED
      BY <1>3, <2>1, <3>1, <3>2
  <2>2. CASE Resolved(e) # {}
    <3>1. PICK q \in Runs : Active(q) /\ e \in linked[q]
      BY <2>2
    <3>2. evStatus'[e] \in {"dead_letter", "retry_wait"}
      BY <1>3, <2>2 DEF RetryTarget
    <3> QED
      BY <1>3, <2>2, <3>1, <3>2
  <2> QED
    BY <2>1, <2>2
<1> QED
  BY <1>2, <1>4, <1>5

\* A run whose agent executed is never judged "retry" by recovery: its
\* marker is on disk, so it is found valid or uninspectable, never absent.
LEMMA RecoverySeesExecution ==
    ASSUME NEW U \in SUBSET Runs, NEW q \in Runs, CoreInv, Active(q), Executed(q)
    PROVE  RecoveryVerdict(q, U) = "post_unknown"
<1>1. marker[q] /\ runStatus[q] = "running" /\ gate[q] \in {"release_requested", "released"}
  BY DEF CoreInv, RunPhases
<1>2. ExecutionUnknown(q, U)
  BY <1>1 DEF ExecutionUnknown, Valid, Unsure, Candidate
<1>3. ~PendingMarkerPolicy(q, U)
  BY <1>1 DEF PendingMarkerPolicy
<1> QED
  BY <1>2, <1>3 DEF RecoveryVerdict

LEMMA RecoverStep ==
    ASSUME NEW U \in SUBSET Runs, NEW Y \in SUBSET Interventions, CoreInv, Recover(U, Y)
    PROVE  CoreInv'
<1>1. /\ TypeOK /\ HandlePhases /\ RunPhases /\ TickPhases
      /\ daemon = "recovering" /\ daemon' = "ready"
      /\ UNCHANGED <<attempts, linked, marker, child, stage, batch, held, handle, verdict, carried, outages>>
  BY DEF CoreInv, Recover, procs, tick, handles, history
<1>2. TypeOK'
  <2>1. evStatus' \in [Events -> EventStatus]
    BY <1>1 DEF Recover, TypeOK, EventStatus, RetryTarget
  <2>2. runStatus' \in [Runs -> RunStatus] /\ gate' \in [Runs -> Gate]
    BY <1>1 DEF Recover, TypeOK, RunStatus, Gate, Put
  <2>3. evidence' \in [Runs -> BOOLEAN] /\ ending' \in [Runs -> Verdict]
    BY <1>1 DEF Recover, TypeOK, RecoveryVerdict, Verdict, PostMarker, PreMarker
  <2>4. \E I : ReturnToPending(I)
    BY DEF Recover
  <2>5. /\ ivStatus' \in [Interventions -> {"none", "pending", "reserved", "applied"}]
        /\ ivRun' \in [Interventions -> Runs \cup {NoRun}]
    BY <1>1, <2>4 DEF TypeOK, ReturnToPending, Put
  <2> QED
    BY <1>1, <2>1, <2>2, <2>3, <2>5 DEF TypeOK
<1>3. HandlePhases'
  BY <1>1 DEF HandlePhases, TickPhases, InLaunch
<1>4. RunPhases'
  <2>1. \A q \in Runs : runStatus'[q] = "none" => runStatus[q] = "none"
    BY <1>1 DEF Recover, Put, TypeOK
  <2>2. \A q \in Runs : child[q] = "executing" => ending'[q] \notin Outcomes
    BY <1>1, RecoverLeaves, RecoverySeesExecution DEF RunPhases, Executed, Outcomes
  <2> QED
    BY <1>1, <2>1, <2>2, RecoverLeaves DEF RunPhases, Executed
<1>5. TickPhases'
  BY <1>1 DEF TickPhases
<1>6. EventsFollowRuns'
  BY RecoverLeaves DEF EventsFollowRuns
<1>7. NoBlindRetry'
  <2> SUFFICES ASSUME NEW q \in Runs, Executed(q), ending'[q] \notin Outcomes, NEW e \in linked[q]
               PROVE  evStatus'[e] = "dead_letter"
    BY <1>1 DEF NoBlindRetry, Executed
  <2>1. e \in Events
    BY <1>1 DEF TypeOK
  <2>2. CASE Active(q)
    BY <2>1, <2>2, RecoverLeaves, RecoverySeesExecution
  <2>3. CASE ~Active(q)
    <3>1. evStatus[e] = "dead_letter"
      BY <2>1, <2>3, RecoverLeaves DEF CoreInv, NoBlindRetry
    <3>2. \A p \in Runs : Active(p) => e \notin linked[p]
      BY <2>1, <3>1 DEF CoreInv, EventsFollowRuns
    <3> QED
      BY <2>1, <3>1, <3>2, RecoverLeaves
  <2> QED
    BY <2>2, <2>3
<1>8. OneAgentPerEvent'
  BY <1>1 DEF CoreInv, OneAgentPerEvent
<1> QED
  BY <1>2, <1>3, <1>4, <1>5, <1>6, <1>7, <1>8 DEF CoreInv
----------------------------------------------------------------------------
(* The theorems.                                                           *)

LEMMA InitCoreInv == Init => CoreInv
<1> SUFFICES ASSUME Init PROVE CoreInv
  OBVIOUS
<1>1. HandlePhases /\ RunPhases /\ TickPhases
  BY DEF Init, HandlePhases, RunPhases, TickPhases, InLaunch, Active, Executed
<1>2. EventsFollowRuns /\ NoBlindRetry /\ OneAgentPerEvent
  BY DEF Init, EventsFollowRuns, NoBlindRetry, OneAgentPerEvent, Active, Executed
<1> QED
  BY <1>1, <1>2, InitTypeOK DEF CoreInv

LEMMA StutterStep == CoreInv /\ UNCHANGED vars => CoreInv'
BY DEF vars, CoreInv, TypeOK, HandlePhases, RunPhases, TickPhases, EventsFollowRuns,
   NoBlindRetry, OneAgentPerEvent, Active, Executed

\* The invariant is inductive: each step of each actor, a crash anywhere
\* and every outcome of recovery's marker inspection preserve it.
THEOREM CoreInductive == CoreInv /\ [Next]_vars => CoreInv'
<1> SUFFICES ASSUME CoreInv, [Next]_vars PROVE CoreInv'
  OBVIOUS
<1> USE DEF Next
<1>1. ASSUME NEW e \in Events, CreateEvent(e) PROVE CoreInv'
  BY <1>1, CreateEventStep
<1>2. ASSUME NEW i \in Interventions, AddIntervention(i) PROVE CoreInv'
  BY <1>2, AddInterventionStep
<1>3. CASE SchedulerStep
  BY <1>3, SchedulerFrame, SchedulerTypeOK, WaitingMoves DEF CoreInv
<1>4. ASSUME NEW r \in Runs, LaunchStep(r) PROVE CoreInv'
  BY <1>4, BindRunStep, BindUnreadStep, SpawnStep, MarkRunningStep, RequestReleaseStep,
     PublishMarkerStep, ReleaseStep, AckDispatchStep, AckUnreadStep, LaunchFailsStep DEF LaunchStep
<1>5. ASSUME NEW r \in Runs, CleanupStep(r) PROVE CoreInv'
  BY <1>5, KillChildStep, RecordEvidenceStep, FinalizeCleanupStep DEF CleanupStep
<1>6. ASSUME NEW r \in Runs, PollStep(r) PROVE CoreInv'
  BY <1>6, ObserveExitStep, TimeOutStep, FinalizeRunStep, EmptyTempStep, LoseOwnershipStep
     DEF PollStep
<1>7. ASSUME NEW r \in Runs, AgentExits(r) PROVE CoreInv'
  BY <1>7, AgentExitsStep
<1>8. CASE Crash \/ Stop
  <2>1. DaemonEnds /\ outages' \in 0..MaxOutages
    BY <1>8, MaxOutagesAssumption DEF Crash, Stop, CoreInv, TypeOK
  <2> QED
    BY <2>1, DaemonEndsStep
<1>9. CASE BeginDrain \/ Restart
  BY <1>9, BeginDrainStep, RestartStep
<1>10. ASSUME NEW U \in SUBSET Runs, NEW Y \in SUBSET Interventions, Recover(U, Y)
       PROVE  CoreInv'
  BY <1>10, RecoverStep
<1>11. CASE UNCHANGED vars
  BY <1>11, StutterStep
<1> QED
  BY <1>1, <1>2, <1>3, <1>4, <1>5, <1>6, <1>7, <1>8, <1>9, <1>10, <1>11

\* Every reachable state of the dispatch core satisfies it.
THEOREM CoreInvariant == Spec => []CoreInv
BY InitCoreInv, CoreInductive, PTL DEF Spec

\* The variables keep their types.
THEOREM TypeCorrect == Spec => []TypeOK
<1>1. CoreInv => TypeOK
  BY DEF CoreInv
<1> QED
  BY <1>1, CoreInvariant, PTL

\* Event rows and run rows agree in every reachable state, whatever the
\* crashes: in_flight and dispatched events belong to exactly the active runs.
THEOREM EventsFollowTheirRuns == Spec => []EventsFollowRuns
<1>1. CoreInv => EventsFollowRuns
  BY DEF CoreInv
<1> QED
  BY <1>1, CoreInvariant, PTL

\* An agent that executed without a seen outcome is never repeated.
THEOREM UnknownExecutionIsNeverRetried == Spec => []NoBlindRetry
<1>1. CoreInv => NoBlindRetry
  BY DEF CoreInv
<1> QED
  BY <1>1, CoreInvariant, PTL

\* No event has two executing agents.
THEOREM OneAgentWorksOnAnEvent == Spec => []OneAgentPerEvent
<1>1. CoreInv => OneAgentPerEvent
  BY DEF CoreInv
<1> QED
  BY <1>1, CoreInvariant, PTL
============================================================================
