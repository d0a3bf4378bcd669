------------------------ MODULE AgentDeliveryProofs ------------------------
(***************************************************************************)
(* AgentDispatch implements EventDelivery: its initial states are the      *)
(* absence of every event, and each of its steps moves one set of events   *)
(* from one phase on, or no event at all.                                  *)
(***************************************************************************)
EXTENDS AgentSupervisionProofs

\* The phase of the events of an active run, and of those that have none.
RunPhase(r) == IF handle[r] = "reaped" THEN "reported"
               ELSE IF Executed(r) THEN "exposed" ELSE "bound"

RestPhase(s) == IF s = "none" THEN "absent" ELSE IF s \in Waiting THEN "waiting" ELSE "settled"

Bound(e) == \E r \in Runs : Active(r) /\ e \in linked[r]

PhaseTable ==
    \A e \in Events :
        /\ ~Bound(e) => PhaseOf(e) = RestPhase(evStatus[e])
        /\ \A r \in Runs : Active(r) /\ e \in linked[r] => PhaseOf(e) = RunPhase(r)

LEMMA PhasesOfRuns == CoreInv => PhaseTable
<1> SUFFICES ASSUME CoreInv, NEW e \in Events
             PROVE  /\ ~Bound(e) => PhaseOf(e) = RestPhase(evStatus[e])
                    /\ \A r \in Runs : Active(r) /\ e \in linked[r] => PhaseOf(e) = RunPhase(r)
  BY DEF PhaseTable
<1>1. evStatus[e] \in {"in_flight", "dispatched"} <=> Bound(e)
  BY DEF CoreInv, EventsFollowRuns, Bound
<1>2. evStatus[e] \in EventStatus
  BY DEF CoreInv, TypeOK
<1>3. ASSUME ~Bound(e) PROVE PhaseOf(e) = RestPhase(evStatus[e])
  BY <1>1, <1>2, <1>3 DEF PhaseOf, RestPhase, Waiting, EventStatus
<1>4. ASSUME NEW r \in Runs, Active(r), e \in linked[r] PROVE PhaseOf(e) = RunPhase(r)
  <2> DEFINE Attempt == {q \in Runs : Active(q) /\ e \in linked[q]}
  <2>1. Attempt = {r}
    BY <1>4 DEF CoreInv, RunPhases
  <2>2. evStatus[e] \in {"in_flight", "dispatched"}
    BY <1>1, <1>4 DEF Bound
  <2>3. PhaseOf(e) = IF \E q \in Attempt : handle[q] = "reaped" THEN "reported"
                     ELSE IF \E q \in Attempt : Executed(q) THEN "exposed" ELSE "bound"
    BY <2>2 DEF PhaseOf
  <2> HIDE DEF Attempt
  <2> QED
    BY <2>1, <2>3 DEF RunPhase
<1> QED
  BY <1>3, <1>4

\* How a step of the core is shown to be a step of EventDelivery.
LEMMA MovesSet ==
    ASSUME NEW S \in SUBSET Events, NEW p, NEW Q,
           \A e \in S : PhaseOf(e) = p /\ PhaseOf(e)' \in Q,
           \A e \in Events : e \notin S => PhaseOf(e)' = PhaseOf(e)
    PROVE  Delivery!Move(S, p, Q)
<1> DEFINE B == [e \in S |-> PhaseOf(e)']
<1>1. \A e \in S : [x \in Events |-> PhaseOf(x)][e] = p
  OBVIOUS
<1>2. B \in [S -> Q]
  OBVIOUS
<1>3. [e \in Events |-> PhaseOf(e)]' =
      [e \in Events |-> IF e \in S THEN B[e] ELSE [x \in Events |-> PhaseOf(x)][e]]
  OBVIOUS
<1> HIDE DEF B
<1> QED
  BY <1>1, <1>2, <1>3 DEF Delivery!Move

Stays == UNCHANGED [e \in Events |-> PhaseOf(e)]

DeliveryStep == Delivery!DeliveryNext \/ Stays

LEMMA Stutters ==
    ASSUME \A e \in Events : PhaseOf(e)' = PhaseOf(e)
    PROVE  DeliveryStep
BY DEF DeliveryStep, Stays

\* Steps that leave every event row and the phase of the active run.
LEMMA QuietDelivery ==
    ASSUME CoreInv, CoreInv', UNCHANGED <<linked, runStatus>>,
           \A e \in Events : ~Bound(e) => evStatus'[e] = evStatus[e],
           \A r \in Runs : Active(r) => RunPhase(r)' = RunPhase(r)
    PROVE  DeliveryStep
<1>1. PhaseTable /\ PhaseTable'
  BY PhasesOfRuns, PTL
<1>2. ASSUME NEW e \in Events PROVE PhaseOf(e)' = PhaseOf(e)
  BY <1>1 DEF PhaseTable, Bound, Active
<1> QED
  BY <1>2, Stutters
----------------------------------------------------------------------------
(* The steps that move events.                                             *)

LEMMA CreateEventDelivers ==
    ASSUME NEW e \in Events, CoreInv, CoreInv', CreateEvent(e)
    PROVE  DeliveryStep
<1>1. PhaseTable /\ PhaseTable'
  BY PhasesOfRuns, PTL
<1>2. /\ UNCHANGED <<linked, runStatus, handle, child>> /\ ~Bound(e)
      /\ evStatus[e] = "none" /\ evStatus'[e] = "pending"
      /\ \A d \in Events \ {e} : evStatus'[d] = evStatus[d]
  BY DEF CreateEvent, CoreInv, TypeOK, EventsFollowRuns, Bound, runRows, handles, procs
<1>3. PhaseOf(e) = "absent" /\ PhaseOf(e)' = "waiting"
  BY <1>1, <1>2 DEF PhaseTable, Bound, Active, RestPhase, Waiting
<1>4. \A d \in Events \ {e} : PhaseOf(d)' = PhaseOf(d)
  BY <1>1, <1>2 DEF PhaseTable, Bound, Active, RestPhase, RunPhase, Executed
<1>5. Delivery!Move({e}, "absent", {"waiting"})
  BY <1>3, <1>4, MovesSet
<1>6. Delivery!Record({e})
  BY <1>5 DEF Delivery!Record
<1> QED
  BY <1>6 DEF DeliveryStep, Delivery!DeliveryNext

LEMMA SchedulerDelivers ==
    ASSUME CoreInv, CoreInv', SchedulerStep
    PROVE  DeliveryStep
<1> DEFINE S == {e \in Events : PhaseOf(e)' # PhaseOf(e)}
<1>1. PhaseTable /\ PhaseTable'
  BY PhasesOfRuns, PTL
<1>2. UNCHANGED <<linked, runStatus, handle, child>> /\ MovesWaitingOnly
  BY SchedulerFrame DEF CoreInv, RunsUntouched, runRows, procs, handles
<1>3. ASSUME NEW e \in S PROVE PhaseOf(e) = "waiting" /\ PhaseOf(e)' \in {"settled"}
  <2>1. ~Bound(e)
    BY <1>1, <1>2 DEF PhaseTable, Bound, Active, RunPhase, Executed
  <2>2. ~Bound(e)'
    BY <1>2, <2>1 DEF Bound, Active
  <2> QED
    BY <1>1, <1>2, <2>1, <2>2 DEF PhaseTable, RestPhase, MovesWaitingOnly, Waiting
<1>4. \A e \in Events : e \notin S => PhaseOf(e)' = PhaseOf(e)
  OBVIOUS
<1>5. Delivery!Move(S, "waiting", {"settled"})
  <2> HIDE DEF S
  <2>1. S \in SUBSET Events
    BY DEF S
  <2> QED
    BY <1>3, <1>4, <2>1, MovesSet
<1>6. S \in SUBSET Events /\ Delivery!GiveUp(S)
  BY <1>5 DEF Delivery!GiveUp
<1> QED
  BY <1>6 DEF DeliveryStep, Delivery!DeliveryNext

\* The events of one active run move together, from the phase it was in.
LEMMA RunMoves ==
    ASSUME NEW r \in Runs, CoreInv, CoreInv', Active(r), UNCHANGED <<linked, runStatus>>,
           NEW Q, RunPhase(r)' \in Q,
           \A e \in Events : ~Bound(e) => evStatus'[e] = evStatus[e]
    PROVE  Delivery!Move(linked[r], RunPhase(r), Q)
<1>0. PhaseTable /\ PhaseTable'
  BY PhasesOfRuns, PTL
<1>1. PhaseTable /\ PhaseTable' /\ linked[r] \in SUBSET Events
  BY <1>0 DEF CoreInv, TypeOK
<1>2. \A e \in linked[r] : PhaseOf(e) = RunPhase(r) /\ PhaseOf(e)' \in Q
  BY <1>1 DEF PhaseTable, Active
<1>3. \A e \in Events : e \notin linked[r] => ~Bound(e) /\ ~Bound(e)'
  BY DEF CoreInv, RunPhases, Bound, Active
<1>4. \A e \in Events : e \notin linked[r] => PhaseOf(e)' = PhaseOf(e)
  BY <1>1, <1>3 DEF PhaseTable
<1> QED
  BY <1>1, <1>2, <1>4, MovesSet

LEMMA ReleaseDelivers ==
    ASSUME NEW r \in Runs, CoreInv, CoreInv', Release(r)
    PROVE  DeliveryStep
<1>1. Active(r) /\ UNCHANGED <<linked, runStatus, evStatus>> /\ linked[r] \in SUBSET Events
  BY DEF Release, CoreInv, TypeOK, HandlePhases, InLaunch, runRows, eventRows
<1>2. RunPhase(r) = "bound" /\ RunPhase(r)' \in {"exposed"}
  BY DEF Release, CoreInv, TypeOK, HandlePhases, InLaunch, RunPhase, Executed
<1>3. Delivery!Expose(linked[r])
  BY <1>1, <1>2, RunMoves DEF Delivery!Expose
<1> QED
  BY <1>1, <1>3 DEF DeliveryStep, Delivery!DeliveryNext

LEMMA ReapDelivers ==
    ASSUME NEW r \in Runs, NEW v \in Outcomes, CoreInv, CoreInv', ObserveExit(r, v) \/ TimeOut(r)
    PROVE  DeliveryStep
<1>1. Active(r) /\ UNCHANGED <<linked, runStatus, evStatus>> /\ linked[r] \in SUBSET Events
  BY DEF ObserveExit, TimeOut, CoreInv, TypeOK, HandlePhases, runRows, eventRows
<1>2. RunPhase(r) = "exposed" /\ RunPhase(r)' \in {"reported"}
  BY DEF ObserveExit, TimeOut, CoreInv, TypeOK, HandlePhases, RunPhase
<1>3. Delivery!Observe(linked[r])
  BY <1>1, <1>2, RunMoves DEF Delivery!Observe
<1> QED
  BY <1>1, <1>3 DEF DeliveryStep, Delivery!DeliveryNext

LEMMA InsertDelivers ==
    ASSUME NEW r \in Runs, CoreInv, CoreInv', InsertRun(r), handle'[r] # "reaped",
           \A q \in Runs : q # r => handle'[q] = handle[q]
    PROVE  DeliveryStep
<1>0. PhaseTable /\ PhaseTable'
  BY PhasesOfRuns, PTL
<1>1. PhaseTable /\ PhaseTable' /\ batch \in SUBSET Events
  BY <1>0 DEF CoreInv, TypeOK
<1>2. /\ linked' = [linked EXCEPT ![r] = batch] /\ child' = child /\ child[r] = "none"
      /\ runStatus' = [runStatus EXCEPT ![r] = "starting"]
      /\ \A q \in Runs : ~Active(q)
      /\ \A e \in Events : evStatus'[e] = IF e \in batch THEN "in_flight" ELSE evStatus[e]
      /\ \A e \in batch : evStatus[e] = "claimed"
      /\ linked \in [Runs -> SUBSET Events] /\ runStatus \in [Runs -> RunStatus]
  BY DEF InsertRun, NoActiveRun, CoreInv, TypeOK, RunPhases, TickPhases, Put
<1>3. \A q \in Runs : Active(q)' <=> q = r
  BY <1>2 DEF Active
<1>4. \A e \in Events : ~Bound(e) /\ (Bound(e)' <=> e \in batch)
  BY <1>2, <1>3 DEF Bound
<1>5. RunPhase(r)' = "bound"
  BY <1>2 DEF RunPhase, Executed
<1>6. \A e \in batch : PhaseOf(e) = "waiting" /\ PhaseOf(e)' \in {"bound"}
  <2> SUFFICES ASSUME NEW e \in batch PROVE PhaseOf(e) = "waiting" /\ PhaseOf(e)' \in {"bound"}
    OBVIOUS
  <2>1. e \in Events /\ evStatus[e] = "claimed" /\ e \in linked'[r] /\ Active(r)'
    BY <1>1, <1>2, <1>3
  <2> QED
    BY <1>1, <1>4, <1>5, <2>1 DEF PhaseTable, RestPhase, Waiting
<1>7. \A e \in Events : e \notin batch => PhaseOf(e)' = PhaseOf(e)
  BY <1>1, <1>2, <1>4 DEF PhaseTable
<1>8. Delivery!Bind(batch)
  BY <1>1, <1>6, <1>7, MovesSet DEF Delivery!Bind
<1> QED
  BY <1>1, <1>8 DEF DeliveryStep, Delivery!DeliveryNext

\* A run that ends hands its events back or settles them.
LEMMA EndMoves ==
    ASSUME NEW r \in Runs, CoreInv, CoreInv', Active(r), UNCHANGED linked,
           \A q \in Runs : ~Active(q)', NEW Q,
           \A e \in linked[r] : RestPhase(evStatus'[e]) \in Q,
           \A e \in Events : e \notin linked[r] => evStatus'[e] = evStatus[e]
    PROVE  Delivery!Move(linked[r], RunPhase(r), Q)
<1>0. PhaseTable /\ PhaseTable'
  BY PhasesOfRuns, PTL
<1>1. PhaseTable /\ PhaseTable' /\ linked[r] \in SUBSET Events
  BY <1>0 DEF CoreInv, TypeOK
<1>2. \A e \in Events : ~Bound(e)' /\ (Bound(e) => e \in linked[r])
  BY DEF CoreInv, RunPhases, Bound
<1>3. \A e \in linked[r] : PhaseOf(e) = RunPhase(r) /\ PhaseOf(e)' \in Q
  BY <1>1, <1>2 DEF PhaseTable
<1>4. \A e \in Events : e \notin linked[r] => PhaseOf(e)' = PhaseOf(e)
  BY <1>1, <1>2 DEF PhaseTable
<1> QED
  BY <1>1, <1>3, <1>4, MovesSet

LEMMA FinalizeDelivers ==
    ASSUME NEW r \in Runs, NEW v \in Verdict, CoreInv, CoreInv', Finalize(r, v),
           handle[r] # "reaped" => v \notin Outcomes,
           handle[r] # "reaped" /\ Executed(r) => v \in PostMarker
    PROVE  DeliveryStep
<1>1. /\ Active(r) /\ UNCHANGED linked /\ linked[r] \in SUBSET Events
      /\ \A q \in Runs : ~Active(q)'
      /\ \A e \in Events : e \notin linked[r] => evStatus'[e] = evStatus[e]
      /\ \A e \in linked[r] : evStatus'[e] = EventEnd(e, v)
  BY FinalizeLeaves DEF Finalize, CanFinalize, CoreInv, TypeOK
<1>2. \A e \in linked[r] : RestPhase(evStatus'[e]) \in {"waiting", "settled"}
  BY <1>1 DEF EventEnd, RetryTarget, RestPhase, Waiting
<1>3. CASE handle[r] = "reaped"
  <2>1. RunPhase(r) = "reported"
    BY <1>3 DEF RunPhase
  <2>2. Delivery!Conclude(linked[r])
    BY <1>1, <1>2, <2>1, EndMoves DEF Delivery!Conclude
  <2> QED
    BY <1>1, <2>2 DEF DeliveryStep, Delivery!DeliveryNext
<1>4. CASE handle[r] # "reaped" /\ Executed(r)
  <2>1. RunPhase(r) = "exposed"
    BY <1>4 DEF RunPhase
  <2>2. \A e \in linked[r] : RestPhase(evStatus'[e]) \in {"settled"}
    BY <1>1, <1>4 DEF EventEnd, RestPhase, Waiting, PostMarker
  <2>3. Delivery!Move(linked[r], RunPhase(r), {"settled"})
    BY <1>1, <2>2, EndMoves
  <2>4. Delivery!GiveUp(linked[r])
    BY <2>1, <2>3 DEF Delivery!GiveUp
  <2> QED
    BY <1>1, <2>4 DEF DeliveryStep, Delivery!DeliveryNext
<1>5. CASE handle[r] # "reaped" /\ ~Executed(r)
  <2>1. RunPhase(r) = "bound"
    BY <1>5 DEF RunPhase
  <2>2. Delivery!GiveBack(linked[r])
    BY <1>1, <1>2, <2>1, EndMoves DEF Delivery!GiveBack
  <2> QED
    BY <1>1, <2>2 DEF DeliveryStep, Delivery!DeliveryNext
<1> QED
  BY <1>3, <1>4, <1>5

\* A dying daemon forgets an outcome it has not written down yet.
LEMMA DaemonEndsDelivers ==
    ASSUME CoreInv, CoreInv', DaemonEnds
    PROVE  DeliveryStep
<1> DEFINE S == {e \in Events : PhaseOf(e)' # PhaseOf(e)}
<1>1. PhaseTable /\ PhaseTable'
  BY PhasesOfRuns, PTL
<1>2. /\ UNCHANGED <<linked, runStatus, evStatus>>
      /\ \A r \in Runs : handle'[r] = "none" /\ (Executed(r)' <=> Executed(r))
  BY DEF DaemonEnds, eventRows, runRows, CoreInv, TypeOK, Executed
<1>3. ASSUME NEW e \in S PROVE PhaseOf(e) = "reported" /\ PhaseOf(e)' \in {"exposed"}
  <2>1. PICK r \in Runs : Active(r) /\ e \in linked[r]
    BY <1>1, <1>2 DEF PhaseTable, Bound, Active
  <2>2. PhaseOf(e) = RunPhase(r) /\ PhaseOf(e)' = RunPhase(r)'
    BY <1>1, <1>2, <2>1 DEF PhaseTable, Active
  <2>3. handle[r] = "reaped" => Executed(r)
    BY DEF CoreInv, HandlePhases
  <2> QED
    BY <1>2, <2>2, <2>3 DEF RunPhase
<1>4. \A e \in Events : e \notin S => PhaseOf(e)' = PhaseOf(e)
  OBVIOUS
<1>5. S \in SUBSET Events
  OBVIOUS
<1> HIDE DEF S
<1>6. Delivery!Forget(S)
  BY <1>3, <1>4, <1>5, MovesSet DEF Delivery!Forget
<1> QED
  BY <1>5, <1>6 DEF DeliveryStep, Delivery!DeliveryNext

LEMMA RecoverDelivers ==
    ASSUME NEW U \in SUBSET Runs, NEW Y \in SUBSET Interventions,
           CoreInv, CoreInv', Recover(U, Y)
    PROVE  DeliveryStep
<1>0. PhaseTable /\ PhaseTable'
  BY PhasesOfRuns, PTL
<1>1. PhaseTable /\ PhaseTable' /\ UNCHANGED linked /\ \A q \in Runs : ~Active(q)'
  BY <1>0, RecoverLeaves DEF Recover
<1>2. CASE \A r \in Runs : ~Active(r)
  <2>1. \A e \in Events : ~Bound(e) /\ ~Bound(e)' /\ evStatus'[e] = evStatus[e]
    BY <1>1, <1>2, RecoverLeaves DEF Bound
  <2>2. \A e \in Events : PhaseOf(e)' = PhaseOf(e)
    BY <1>1, <2>1 DEF PhaseTable
  <2> QED
    BY <2>2, Stutters
<1>3. ASSUME NEW r \in Runs, Active(r) PROVE DeliveryStep
  <2>1. /\ linked[r] \in SUBSET Events /\ handle[r] = "none"
        /\ \A q \in Runs : Active(q) => q = r
    BY <1>3 DEF CoreInv, TypeOK, RunPhases, TickPhases, Recover
  <2>2. \A e \in Events : e \notin linked[r] => evStatus'[e] = evStatus[e]
    BY <2>1, RecoverLeaves
  <2>3. CASE Executed(r)
    <3>1. RunPhase(r) = "exposed"
      BY <2>1, <2>3 DEF RunPhase
    <3>2. \A e \in linked[r] : RestPhase(evStatus'[e]) \in {"settled"}
      BY <1>3, <2>1, <2>3, RecoverLeaves, RecoverySeesExecution DEF RestPhase, Waiting
    <3>3. Delivery!Move(linked[r], RunPhase(r), {"settled"})
      BY <1>1, <1>3, <2>2, <3>2, EndMoves
    <3>4. Delivery!GiveUp(linked[r])
      BY <3>1, <3>3 DEF Delivery!GiveUp
    <3> QED
      BY <2>1, <3>4 DEF DeliveryStep, Delivery!DeliveryNext
  <2>4. CASE ~Executed(r)
    <3>1. RunPhase(r) = "bound"
      BY <2>1, <2>4 DEF RunPhase
    <3>2. \A e \in linked[r] : evStatus[e] \in {"in_flight", "dispatched"}
      BY <1>3, <2>1 DEF CoreInv, EventsFollowRuns
    <3>3. \A e \in linked[r] : evStatus'[e] \in {evStatus[e], "dead_letter", RetryTarget(e)}
      BY <2>1 DEF Recover
    <3>4. \A e \in linked[r] : RestPhase(evStatus'[e]) \in {"waiting", "settled"}
      BY <3>2, <3>3 DEF RestPhase, Waiting, RetryTarget
    <3>5. Delivery!GiveBack(linked[r])
      BY <1>1, <1>3, <2>2, <3>1, <3>4, EndMoves DEF Delivery!GiveBack
    <3> QED
      BY <2>1, <3>5 DEF DeliveryStep, Delivery!DeliveryNext
  <2> QED
    BY <2>3, <2>4
<1> QED
  BY <1>2, <1>3
----------------------------------------------------------------------------
(* The steps that leave every event in its phase.                          *)

LEMMA LaunchDelivers ==
    ASSUME NEW r \in Runs, CoreInv, CoreInv', LaunchStep(r)
    PROVE  DeliveryStep
<1> USE DEF eventRows, runRows, procs, tick, handles, history
<1>1. CASE BindRun(r)
  BY <1>1, InsertDelivers DEF BindRun, CoreInv, TypeOK
<1>2. ASSUME NEW released \in BOOLEAN, BindUnread(r, released) PROVE DeliveryStep
  <2>1. InsertRun(r) /\ UNCHANGED handle /\ ~Active(r)
    BY <1>2 DEF BindUnread, InsertRun, NoActiveRun, handles
  <2> QED
    BY <2>1, InsertDelivers DEF CoreInv, HandlePhases
<1>3. CASE Release(r)
  BY <1>3, ReleaseDelivers
<1>4. CASE Spawn(r) \/ MarkRunning(r) \/ RequestRelease(r) \/ PublishMarker(r)
           \/ \E v \in Verdict : LaunchFails(r, v)
  <2>1. /\ UNCHANGED <<linked, evStatus>>
        /\ \A q \in Runs : Active(q)' <=> Active(q)
        /\ \A q \in Runs : RunPhase(q)' = RunPhase(q)
    BY <1>4 DEF Spawn, MarkRunning, RequestRelease, PublishMarker, LaunchFails, FailureVerdict,
       CoreInv, TypeOK, HandlePhases, InLaunch, PreMarker, PostMarker, RunPhase, Executed, Active
  <2>2. PhaseTable /\ PhaseTable'
    BY PhasesOfRuns, PTL
  <2>3. \A e \in Events : PhaseOf(e)' = PhaseOf(e)
    BY <2>1, <2>2 DEF PhaseTable, Bound
  <2> QED
    BY <2>3, Stutters
<1>5. CASE AckDispatch(r) \/ AckUnread(r)
  <2>1. /\ UNCHANGED <<linked, runStatus>>
        /\ \A q \in Runs : RunPhase(q)' = RunPhase(q)
        /\ \A e \in Events : e \notin linked[r] => evStatus'[e] = evStatus[e]
    BY <1>5 DEF AckDispatch, AckUnread, AcknowledgeDispatch, CoreInv, TypeOK, Put, RunPhase, Executed
  <2>2. Active(r)
    BY <1>5 DEF AckDispatch, AckUnread, AcknowledgeDispatch, CoreInv, HandlePhases, InLaunch
  <2> QED
    BY <2>1, <2>2, QuietDelivery DEF Bound
<1> QED
  BY <1>1, <1>2, <1>3, <1>4, <1>5 DEF LaunchStep

LEMMA OwnerDelivers ==
    ASSUME NEW r \in Runs, CoreInv, CoreInv', CleanupStep(r) \/ PollStep(r) \/ AgentExits(r)
    PROVE  DeliveryStep
<1> USE DEF eventRows, runRows, procs, tick, handles, history
<1>1. CASE FinalizeCleanup(r)
  <2>1. /\ Finalize(r, verdict[r]) /\ verdict[r] \in Verdict /\ verdict[r] \notin Outcomes
        /\ Executed(r) => verdict[r] \in PostMarker
    BY <1>1 DEF FinalizeCleanup, CoreInv, TypeOK, HandlePhases, Outcomes, PreMarker, PostMarker
  <2> QED
    BY <2>1, FinalizeDelivers
<1>2. ASSUME NEW emptied \in BOOLEAN, FinalizeRun(r, emptied) PROVE DeliveryStep
  BY <1>2, FinalizeDelivers DEF FinalizeRun, CoreInv, TypeOK
<1>3. CASE TimeOut(r) \/ \E v \in Outcomes : ObserveExit(r, v)
  BY <1>3, ReapDelivers DEF Outcomes
<1>4. CASE KillChild(r) \/ RecordEvidence(r) \/ EmptyTemp(r) \/ LoseOwnership(r) \/ AgentExits(r)
  <2>1. /\ UNCHANGED <<linked, runStatus, evStatus>>
        /\ \A q \in Runs : RunPhase(q)' = RunPhase(q)
    BY <1>4 DEF KillChild, RecordEvidence, EmptyTemp, LoseOwnership, AgentExits, Live, CoreInv,
       TypeOK, RunPhase, Executed
  <2> QED
    BY <2>1, QuietDelivery
<1> QED
  BY <1>1, <1>2, <1>3, <1>4 DEF CleanupStep, PollStep

LEMMA DeliveryInitially == Init => Delivery!DeliveryInit
BY DEF Init, Delivery!DeliveryInit, PhaseOf

\* The rows, gates, markers, handles and restarts of the core implement the
\* promise of EventDelivery: an event an agent may have acted on waits again
\* only after the agent's outcome was seen.
THEOREM DispatchImplementsDelivery == Spec => DeliversEvents
<1>1. ASSUME CoreInv, CoreInv', [Next]_vars PROVE DeliveryStep
  <2>1. CASE \E e \in Events : CreateEvent(e)
    BY <1>1, <2>1, CreateEventDelivers
  <2>2. CASE SchedulerStep
    BY <1>1, <2>2, SchedulerDelivers
  <2>3. ASSUME NEW r \in Runs, LaunchStep(r) \/ CleanupStep(r) \/ PollStep(r) \/ AgentExits(r)
        PROVE  DeliveryStep
    BY <1>1, <2>3, LaunchDelivers, OwnerDelivers
  <2>4. CASE Crash \/ Stop
    BY <1>1, <2>4, DaemonEndsDelivers DEF Crash, Stop
  <2>5. ASSUME NEW U \in SUBSET Runs, NEW Y \in SUBSET Interventions, Recover(U, Y)
        PROVE  DeliveryStep
    BY <1>1, <2>5, RecoverDelivers
  <2>6. CASE (\E i \in Interventions : AddIntervention(i)) \/ BeginDrain \/ Restart \/ UNCHANGED vars
    <3>1. /\ UNCHANGED <<linked, runStatus, evStatus>>
          /\ \A q \in Runs : RunPhase(q)' = RunPhase(q)
      BY <2>6 DEF AddIntervention, BeginDrain, Restart, vars, RunPhase, Executed,
         eventRows, runRows, procs, handles
    <3> QED
      BY <1>1, <3>1, QuietDelivery
  <2> QED
    BY <1>1, <2>1, <2>2, <2>3, <2>4, <2>5, <2>6 DEF Next
<1>2. CoreInv /\ CoreInv' /\ [Next]_vars => [Delivery!DeliveryNext]_([e \in Events |-> PhaseOf(e)])
  BY <1>1 DEF DeliveryStep, Stays
<1> QED
  BY <1>2, DeliveryInitially, CoreInvariant, PTL DEF Spec, DeliversEvents, Delivery!DeliverySpec
============================================================================
