---------------------- MODULE CodeChangeEditingProofs ----------------------
(***************************************************************************)
(* Proofs about CodeChangeEditing, for any number of retries and crashes.  *)
(* EditingInv is inductive: one lemma per action says that it is           *)
(* preserved.  The safety properties of the runs follow from it, and with  *)
(* it every step is one of EventDelivery's or a stutter.                   *)
(***************************************************************************)
EXTENDS CodeChangeEditing, TLAPS

\* Every outcome is an attempt row.
LEMMA OutcomeType == ASSUME NEW a \in Attempts, NEW o \in Outcome(a) PROVE o \in AttemptRow
<1> DEFINE ready == [status |-> "ready", code |-> "none", digest |-> TRUE, summary |-> TRUE]
           Failures == {FailedRow(c, d, s) : c \in FinalCodes \cup RepeatCodes, d \in BOOLEAN, s \in BOOLEAN}
<1>1. Failures \subseteq AttemptRow
  BY DEF FailedRow, AttemptRow
<1>2. ready \in AttemptRow
  BY DEF AttemptRow
<1>3. \A c \in FinalCodes \cup RepeatCodes, d, s \in BOOLEAN : FailedRow(c, d, s) \in Failures
  OBVIOUS
<1>4. /\ FailedRow("cannot_apply", TRUE, TRUE) \in Failures
      /\ FailedRow("editor_failed", FALSE, TRUE) \in Failures
      /\ \A s \in BOOLEAN : FailedRow("editor_failed", FALSE, s) \in Failures
      /\ \A d \in BOOLEAN : FailedRow("editor_session_missing", d, TRUE) \in Failures
  <2> HIDE DEF Failures
  <2>1. {"cannot_apply", "editor_failed", "editor_session_missing"} \subseteq FinalCodes \cup RepeatCodes
    BY DEF FinalCodes, RepeatCodes
  <2>2. TRUE \in BOOLEAN /\ FALSE \in BOOLEAN
    OBVIOUS
  <2> QED
    BY <1>3, <2>1, <2>2
<1>5. o = ready \/ o \in Failures
  <2> HIDE DEF ready, Failures
  <2>1. CASE o = [status |-> "ready", code |-> "none", digest |-> TRUE, summary |-> TRUE]
    BY <2>1 DEF ready
  <2>2. CASE o \in {FailedRow("editor_session_missing", d, TRUE) : d \in {FALSE, proc[a] = "exited"}}
    BY <2>2, <1>4
  <2>3. CASE o \in {FailedRow("editor_failed", FALSE, s) : s \in BOOLEAN}
    BY <2>3, <1>4
  <2>4. CASE o \in {FailedRow("cannot_apply", TRUE, TRUE), FailedRow("editor_failed", FALSE, TRUE)}
    BY <2>4, <1>4
  <2> QED
    BY <2>1, <2>2, <2>3, <2>4 DEF Outcome
<1> HIDE DEF ready, Failures
<1> QED
  BY <1>1, <1>2, <1>5

\* The vocabulary of statuses and places, and the assumptions on the bounds.
USE RetriesAssumption, CrashesAssumption
    DEF Attempts, FinalCodes, RepeatCodes, Uncertain, Claiming, Bound,
        Launching, NoAttempt, Reserved, FailedRow, AttemptRow, Fails, Live, At,
        rows, editors, place, history

LEMMA InitInv == Init => EditingInv
BY DEF Init, EditingInv, TypeOK, PlaceAgrees, RowsAgree, EditorsAgree, DoubtHolds

LEMMA StutterInv == EditingInv /\ UNCHANGED vars => EditingInv'
BY DEF EditingInv, TypeOK, PlaceAgrees, RowsAgree, EditorsAgree, DoubtHolds,
       Repeatable, vars
----------------------------------------------------------------------------
(* One lemma per action.                                                  *)

LEMMA StopOrResumeInv == ASSUME EditingInv, StopOrResume PROVE EditingInv'
BY SMTT(60) DEF StopOrResume, EditingInv, TypeOK, PlaceAgrees, RowsAgree,
       EditorsAgree, DoubtHolds, Repeatable

LEMMA WindowMovesInv == ASSUME EditingInv, WindowMoves PROVE EditingInv'
BY SMTT(60) DEF WindowMoves, EditingInv, TypeOK, PlaceAgrees, RowsAgree,
       EditorsAgree, DoubtHolds, Repeatable

LEMMA CrashInv == ASSUME EditingInv, Crash PROVE EditingInv'
<1> USE DEF Crash, EditingInv, TypeOK, PlaceAgrees, RowsAgree, EditorsAgree,
            DoubtHolds, Repeatable
<1>1. TypeOK'
  <2>1. lost' \in SUBSET Attempts
    <3> DEFINE New == {a \in Attempts : agent[a] = "active" /\ runs[a] > 0
                                           /\ att[a].status = "reserved"}
    <3>1. New \subseteq Attempts
      OBVIOUS
    <3>2. lost' = lost \cup New
      OBVIOUS
    <3> QED
      BY <3>1, <3>2
  <2> QED
    BY <2>1, SMTT(40)
<1>2. (event[2] # "none" => Repeatable)'
  BY SMTT(30)
<1>3. PlaceAgrees'
  BY SMTT(30)
<1>4. \A b \in Attempts : RowsAgree(b)'
  BY SMTT(30)
<1>5. \A b \in Attempts : EditorsAgree(b)'
  BY SMTT(30)
<1>6. \A b \in Attempts : DoubtHolds(b)'
  BY SMTT(30)
<1> QED
  BY <1>1, <1>2, <1>3, <1>4, <1>5, <1>6

LEMMA WakeCampaignInv == ASSUME EditingInv, WakeCampaign PROVE EditingInv'
BY SMTT(60) DEF WakeCampaign, Idle, EditingInv, TypeOK, PlaceAgrees,
       RowsAgree, EditorsAgree, DoubtHolds, Repeatable

LEMMA RejectFailedAttemptInv == ASSUME EditingInv, RejectFailedAttempt PROVE EditingInv'
BY SMTT(60) DEF RejectFailedAttempt, MayAdvance, Idle, NoActiveAgent,
       LastFailed, EditingInv, TypeOK, PlaceAgrees, RowsAgree, EditorsAgree,
       DoubtHolds, Repeatable

LEMMA ReserveAgentRunInv == ASSUME EditingInv, ReserveAgentRun PROVE EditingInv'
BY SMTT(60) DEF ReserveAgentRun, EditingInv, TypeOK, PlaceAgrees, RowsAgree,
       EditorsAgree, DoubtHolds, Repeatable

LEMMA DeferAgentRunInv == ASSUME EditingInv, DeferAgentRun PROVE EditingInv'
BY SMTT(60) DEF DeferAgentRun, EditingInv, TypeOK, PlaceAgrees, RowsAgree,
       EditorsAgree, DoubtHolds, Repeatable

LEMMA GiveBackClaimInv == ASSUME EditingInv, GiveBackClaim PROVE EditingInv'
BY SMTT(60) DEF GiveBackClaim, EditingInv, TypeOK, PlaceAgrees, RowsAgree,
       EditorsAgree, DoubtHolds, Repeatable

LEMMA PreBindingFailsInv == ASSUME EditingInv, PreBindingFails PROVE EditingInv'
BY SMTT(60) DEF PreBindingFails, RetryTarget, EditingInv, TypeOK, PlaceAgrees,
       RowsAgree, EditorsAgree, DoubtHolds, Repeatable

LEMMA DeadLetterDoomedInv == ASSUME EditingInv, DeadLetterDoomed PROVE EditingInv'
BY SMTT(60) DEF DeadLetterDoomed, EditingInv, TypeOK, PlaceAgrees, RowsAgree,
       EditorsAgree, DoubtHolds, Repeatable

LEMMA BindAgentRunInv == ASSUME EditingInv, BindAgentRun PROVE EditingInv'
BY SMTT(60) DEF BindAgentRun, EditingInv, TypeOK, PlaceAgrees, RowsAgree,
       EditorsAgree, DoubtHolds, Repeatable

LEMMA ReserveEditorAttemptInv == ASSUME EditingInv, ReserveEditorAttempt PROVE EditingInv'
<1> USE DEF ReserveEditorAttempt, EditingInv, TypeOK, PlaceAgrees, RowsAgree,
            EditorsAgree, DoubtHolds, Repeatable
<1>1. TypeOK'
  <2>1. Reserved \in AttemptRow
    OBVIOUS
  <2>2. att' \in [Attempts -> AttemptRow]
    <3> HIDE DEF Reserved, AttemptRow
    <3> QED
      BY <2>1
  <2> QED
    BY <2>2, SMTT(30)
<1>2. (event[2] # "none" => Repeatable)'
  BY SMTT(30)
<1>3. PlaceAgrees'
  BY SMTT(30)
<1>4. \A b \in Attempts : RowsAgree(b)'
  BY SMTT(30)
<1>5. \A b \in Attempts : EditorsAgree(b)'
  BY SMTT(30)
<1>6. \A b \in Attempts : DoubtHolds(b)'
  BY SMTT(30)
<1> QED
  BY <1>1, <1>2, <1>3, <1>4, <1>5, <1>6

LEMMA SpawnGatedInv == ASSUME EditingInv, SpawnGated PROVE EditingInv'
BY SMTT(60) DEF SpawnGated, EditingInv, TypeOK, PlaceAgrees, RowsAgree,
       EditorsAgree, DoubtHolds, Repeatable

LEMMA RequestReleaseInv == ASSUME EditingInv, RequestRelease PROVE EditingInv'
BY SMTT(60) DEF RequestRelease, EditingInv, TypeOK, PlaceAgrees, RowsAgree,
       EditorsAgree, DoubtHolds, Repeatable

LEMMA PublishMarkerInv == ASSUME EditingInv, PublishMarker PROVE EditingInv'
BY SMTT(60) DEF PublishMarker, EditingInv, TypeOK, PlaceAgrees, RowsAgree,
       EditorsAgree, DoubtHolds, Repeatable

LEMMA ReleaseInv == ASSUME EditingInv, Release PROVE EditingInv'
BY SMTT(60) DEF Release, EditingInv, TypeOK, PlaceAgrees, RowsAgree,
       EditorsAgree, DoubtHolds, Repeatable

LEMMA AcknowledgeDispatchInv == ASSUME EditingInv, AcknowledgeDispatch PROVE EditingInv'
BY SMTT(60) DEF AcknowledgeDispatch, EditingInv, TypeOK, PlaceAgrees,
       RowsAgree, EditorsAgree, DoubtHolds, Repeatable

LEMMA LaunchFailsInv == ASSUME EditingInv, LaunchFails PROVE EditingInv'
BY SMTT(60) DEF LaunchFails, EditingInv, TypeOK, PlaceAgrees, RowsAgree,
       EditorsAgree, DoubtHolds, Repeatable

LEMMA FailUnlaunchedInv == ASSUME EditingInv, FailUnlaunched PROVE EditingInv'
BY SMTT(60) DEF FailUnlaunched, EditingInv, TypeOK, PlaceAgrees, RowsAgree,
       EditorsAgree, DoubtHolds, Repeatable

LEMMA FinishUnlaunchedInv == ASSUME EditingInv, FinishUnlaunched PROVE EditingInv'
BY SMTT(60) DEF FinishUnlaunched, RetryTarget, EditingInv, TypeOK,
       PlaceAgrees, RowsAgree, EditorsAgree, DoubtHolds, Repeatable

LEMMA FinishEditorAttemptInv == ASSUME EditingInv, FinishEditorAttempt PROVE EditingInv'
<1> USE DEF FinishEditorAttempt, Outcome, EditingInv, TypeOK, PlaceAgrees,
            RowsAgree, EditorsAgree, DoubtHolds, Repeatable
<1>1. TypeOK'
  <2>1. \A out \in Outcome(cur) : out \in AttemptRow
    <3> HIDE DEF Outcome, AttemptRow
    <3> QED
      BY OutcomeType
  <2>2. att' \in [Attempts -> AttemptRow]
    <3> HIDE DEF Outcome, AttemptRow
    <3> QED
      BY <2>1
  <2> QED
    BY <2>2, SMTT(30)
<1>2. (event[2] # "none" => Repeatable)'
  BY SMTT(30)
<1>3. PlaceAgrees'
  BY SMTT(30)
<1>4. \A b \in Attempts : RowsAgree(b)'
  BY SMTT(30)
<1>5. \A b \in Attempts : EditorsAgree(b)'
  BY SMTT(30)
<1>6. \A b \in Attempts : DoubtHolds(b)'
  BY SMTT(30)
<1> QED
  BY <1>1, <1>2, <1>3, <1>4, <1>5, <1>6

LEMMA RejectRecordedInv == ASSUME EditingInv, RejectRecorded PROVE EditingInv'
BY SMTT(60) DEF RejectRecorded, RejectAtOnce, EditingInv, TypeOK, PlaceAgrees,
       RowsAgree, EditorsAgree, DoubtHolds, Repeatable

LEMMA FinishAgentRunInv == ASSUME EditingInv, FinishAgentRun PROVE EditingInv'
BY SMTT(60) DEF FinishAgentRun, RejectAtOnce, Resolve, RetryTarget,
       EditingInv, TypeOK, PlaceAgrees, RowsAgree, EditorsAgree, DoubtHolds,
       Repeatable

LEMMA RestartInv == ASSUME EditingInv, Restart PROVE EditingInv'
BY SMTT(60) DEF Restart, EditingInv, TypeOK, PlaceAgrees, RowsAgree,
       EditorsAgree, DoubtHolds, Repeatable

LEMMA RecoveredInv == ASSUME EditingInv, Recovered PROVE EditingInv'
BY SMTT(60) DEF Recovered, NoActiveAgent, EditingInv, TypeOK, PlaceAgrees,
       RowsAgree, EditorsAgree, DoubtHolds, Repeatable

LEMMA EditorEndsInv == ASSUME NEW a \in Attempts, EditingInv, EditorEnds(a) PROVE EditingInv'
BY SMTT(60) DEF EditorEnds, EditingInv, TypeOK, PlaceAgrees, RowsAgree,
       EditorsAgree, DoubtHolds, Repeatable

LEMMA LapseClaimInv == ASSUME NEW a \in Attempts, EditingInv, LapseClaim(a) PROVE EditingInv'
BY SMTT(60) DEF LapseClaim, Idle, EditingInv, TypeOK, PlaceAgrees, RowsAgree,
       EditorsAgree, DoubtHolds, Repeatable

LEMMA CheckRoundInv == ASSUME NEW a \in Attempts, EditingInv, CheckRound(a) PROVE EditingInv'
BY SMTT(60) DEF CheckRound, MayAdvance, Idle, NoActiveAgent, ReadyForCheck,
       EditingInv, TypeOK, PlaceAgrees, RowsAgree, EditorsAgree, DoubtHolds,
       Repeatable

LEMMA InsertEventInv == ASSUME NEW a \in Attempts, EditingInv, InsertEvent(a) PROVE EditingInv'
BY SMTT(60) DEF InsertEvent, MayAdvance, Idle, NoActiveAgent, NextAttempt,
       EditingInv, TypeOK, PlaceAgrees, RowsAgree, EditorsAgree, DoubtHolds,
       Repeatable

LEMMA ClaimEventInv == ASSUME NEW a \in Attempts, EditingInv, ClaimEvent(a) PROVE EditingInv'
BY SMTT(60) DEF ClaimEvent, MayAdvance, Idle, NoActiveAgent, NextAttempt,
       EditingInv, TypeOK, PlaceAgrees, RowsAgree, EditorsAgree, DoubtHolds,
       Repeatable

LEMMA MarkUncertainInv == ASSUME NEW a \in Attempts, EditingInv, MarkUncertain(a) PROVE EditingInv'
BY SMTT(60) DEF MarkUncertain, Recovering, EditingInv, TypeOK, PlaceAgrees,
       RowsAgree, EditorsAgree, DoubtHolds, Repeatable

LEMMA RequireRecoveryInv == ASSUME NEW a \in Attempts, EditingInv, RequireRecovery(a) PROVE EditingInv'
BY SMTT(60) DEF RequireRecovery, Recovering, EditingInv, TypeOK, PlaceAgrees,
       RowsAgree, EditorsAgree, DoubtHolds, Repeatable

LEMMA FinishUncertainInv == ASSUME NEW a \in Attempts, EditingInv, FinishUncertain(a) PROVE EditingInv'
BY SMTT(60) DEF FinishUncertain, Recovering, EditingInv, TypeOK, PlaceAgrees,
       RowsAgree, EditorsAgree, DoubtHolds, Repeatable

LEMMA FailNeverRanInv == ASSUME NEW a \in Attempts, EditingInv, FailNeverRan(a) PROVE EditingInv'
BY SMTT(60) DEF FailNeverRan, Recovering, MayHaveRun, EditingInv, TypeOK,
       PlaceAgrees, RowsAgree, EditorsAgree, DoubtHolds, Repeatable

LEMMA FinishStoredInv == ASSUME NEW a \in Attempts, EditingInv, FinishStored(a) PROVE EditingInv'
BY SMTT(60) DEF FinishStored, Resolve, RetryTarget, Recovering, EditingInv,
       TypeOK, PlaceAgrees, RowsAgree, EditorsAgree, DoubtHolds, Repeatable

----------------------------------------------------------------------------
(* The invariant and what follows from it.                                 *)

LEMMA NextInv == EditingInv /\ [Next]_vars => EditingInv'
<1> SUFFICES ASSUME EditingInv, [Next]_vars PROVE EditingInv'
  OBVIOUS
<1>1. CASE LaunchStep
  BY <1>1, ReserveAgentRunInv, DeferAgentRunInv, GiveBackClaimInv,
     PreBindingFailsInv, DeadLetterDoomedInv, BindAgentRunInv,
     ReserveEditorAttemptInv, SpawnGatedInv, RequestReleaseInv,
     PublishMarkerInv, ReleaseInv, AcknowledgeDispatchInv, LaunchFailsInv,
     FailUnlaunchedInv, FinishUnlaunchedInv DEF LaunchStep
<1>2. CASE OutcomeStep
  BY <1>2, FinishEditorAttemptInv, RejectRecordedInv, FinishAgentRunInv DEF OutcomeStep
<1>3. CASE AdvanceStep
  BY <1>3, RejectFailedAttemptInv, CheckRoundInv, InsertEventInv,
     ClaimEventInv DEF AdvanceStep
<1>4. CASE WakeCampaign
  BY <1>4, WakeCampaignInv
<1>5. CASE \E a \in Attempts : LapseClaim(a)
  BY <1>5, LapseClaimInv
<1>6. CASE Restart
  BY <1>6, RestartInv
<1>7. CASE RecoveryStep
  BY <1>7, RecoveredInv, MarkUncertainInv, RequireRecoveryInv,
     FinishUncertainInv, FailNeverRanInv, FinishStoredInv DEF RecoveryStep
<1>8. CASE Environment
  BY <1>8, StopOrResumeInv, WindowMovesInv, CrashInv, EditorEndsInv DEF Environment
<1>9. CASE UNCHANGED vars
  BY <1>9, StutterInv
<1> QED
  BY <1>1, <1>2, <1>3, <1>4, <1>5, <1>6, <1>7, <1>8, <1>9 DEF Next

\* An agent run is active exactly while it holds its event, in the hand of a
\* live coordinator or of the next startup, and an attempt 2 exists only after
\* attempt 1 ended for good: whatever the number of retries and crashes.
THEOREM EditingInvariant == Spec => []EditingInv
<1>1. Init => EditingInv
  BY InitInv
<1>2. EditingInv /\ [Next]_vars => EditingInv'
  BY NextInv
<1> QED
  BY <1>1, <1>2, PTL DEF Spec

\* No two editors share the candidate worktree, and none is left in it when
\* git or the cleanup takes it over.
THEOREM OneEditorTheorem == Spec => []OneEditor
<1>1. EditingInv => OneEditor
  BY SMTT(30) DEF EditingInv, TypeOK, OneEditor, RowsAgree, EditorsAgree,
                  DoubtHolds, Repeatable
<1> QED
  BY <1>1, EditingInvariant, PTL

\* An editor whose end nobody saw ends its run in recovery, without a retry.
THEOREM UnknownIsFinalTheorem == Spec => []UnknownIsFinal
<1>1. EditingInv => UnknownIsFinal
  BY SMTT(30) DEF EditingInv, TypeOK, UnknownIsFinal, RowsAgree, DoubtHolds,
                  Repeatable
<1> QED
  BY <1>1, EditingInvariant, PTL

\* An editing run's next event can be claimed after any crash.
THEOREM EditingIsClaimableTheorem == Spec => []EditingIsClaimable
<1>1. EditingInv => EditingIsClaimable
  BY SMTT(30) DEF EditingInv, TypeOK, EditingIsClaimable, RowsAgree, NextAttempt
<1> QED
  BY <1>1, EditingInvariant, PTL
----------------------------------------------------------------------------
(* The refinement: every step moves the event of one attempt, or none.     *)

phases == [a \in Attempts |-> PhaseOf(a)]

DeliveryStep == Delivery!DeliveryNext \/ UNCHANGED phases

LEMMA Stays ==
    ASSUME \A b \in Attempts : PhaseOf(b)' = PhaseOf(b)
    PROVE  DeliveryStep
BY DEF DeliveryStep, phases

\* The event of one attempt moves from one phase to another.
LEMMA MovesOne ==
    ASSUME NEW a \in Attempts, NEW p, NEW Q, PhaseOf(a) = p, PhaseOf(a)' \in Q,
           \A b \in Attempts \ {a} : PhaseOf(b)' = PhaseOf(b)
    PROVE  Delivery!Move({a}, p, Q)
<1> DEFINE B == [x \in {a} |-> PhaseOf(a)']
<1>1. \A x \in {a} : [y \in Attempts |-> PhaseOf(y)][x] = p
  OBVIOUS
<1>2. B \in [{a} -> Q]
  OBVIOUS
<1>3. [y \in Attempts |-> PhaseOf(y)]' =
      [y \in Attempts |-> IF y \in {a} THEN B[y] ELSE [z \in Attempts |-> PhaseOf(z)][y]]
  OBVIOUS
<1> HIDE DEF B
<1> QED
  BY <1>1, <1>2, <1>3 DEF Delivery!Move

\* What EventDelivery lets one event do in a step.
Onward(p) == CASE p = "absent"   -> {"waiting"}
               [] p = "waiting"  -> {"bound", "settled"}
               [] p = "bound"    -> {"exposed", "waiting", "settled"}
               [] p = "exposed"  -> {"reported", "settled"}
               [] p = "reported" -> {"waiting", "settled", "exposed"}
               [] OTHER          -> {}

LEMMA OneEventMoves ==
    ASSUME NEW a \in Attempts, PhaseOf(a) \in Delivery!Phase,
           PhaseOf(a)' \in Onward(PhaseOf(a)) \cup {PhaseOf(a)},
           \A b \in Attempts \ {a} : PhaseOf(b)' = PhaseOf(b)
    PROVE  DeliveryStep
<1> DEFINE p == PhaseOf(a)
           q == PhaseOf(a)'
<1>1. CASE q = p
  BY <1>1, Stays
<1>2. CASE q # p
  <2>1. {a} \in SUBSET Attempts
    OBVIOUS
  <2>2. \A Q : q \in Q => Delivery!Move({a}, p, Q)
    BY MovesOne
  <2> SUFFICES Delivery!DeliveryNext
    BY DEF DeliveryStep
  <2> HIDE DEF p, q
  <2>3. CASE p = "absent"
    BY <1>2, <2>1, <2>2, <2>3 DEF Onward, p, q, Delivery!DeliveryNext, Delivery!Record
  <2>4. CASE p = "waiting"
    <3>1. q \in {"bound"} \/ q \in {"settled"}
      BY <1>2, <2>4 DEF Onward, p, q
    <3> QED
      BY <2>1, <2>2, <2>4, <3>1
      DEF Delivery!DeliveryNext, Delivery!Bind, Delivery!GiveUp
  <2>5. CASE p = "bound"
    <3>1. q \in {"exposed"} \/ q \in {"waiting", "settled"}
      BY <1>2, <2>5 DEF Onward, p, q
    <3> QED
      BY <2>1, <2>2, <2>5, <3>1
      DEF Delivery!DeliveryNext, Delivery!Expose, Delivery!GiveBack
  <2>6. CASE p = "exposed"
    <3>1. q \in {"reported"} \/ q \in {"settled"}
      BY <1>2, <2>6 DEF Onward, p, q
    <3> QED
      BY <2>1, <2>2, <2>6, <3>1
      DEF Delivery!DeliveryNext, Delivery!Observe, Delivery!GiveUp
  <2>7. CASE p = "reported"
    <3>1. q \in {"exposed"} \/ q \in {"waiting", "settled"}
      BY <1>2, <2>7 DEF Onward, p, q
    <3> QED
      BY <2>1, <2>2, <2>7, <3>1
      DEF Delivery!DeliveryNext, Delivery!Forget, Delivery!Conclude
  <2>8. CASE p = "settled"
    BY <1>2, <2>8 DEF Onward, p, q
  <2>9. p \in Delivery!Phase
    BY DEF p
  <2> QED
    BY <2>3, <2>4, <2>5, <2>6, <2>7, <2>8, <2>9 DEF Delivery!Phase
<1> QED
  BY <1>1, <1>2

LEMMA PhaseType == ASSUME EditingInv, NEW a \in Attempts PROVE PhaseOf(a) \in Delivery!Phase
BY DEF PhaseOf, Delivery!Phase
----------------------------------------------------------------------------
(* The steps that move no event.                                           *)

LEMMA StopOrResumeStays == ASSUME EditingInv, StopOrResume PROVE DeliveryStep
<1>1. \A b \in Attempts : PhaseOf(b)' = PhaseOf(b)
  BY SMTT(30) DEF StopOrResume, PhaseOf, EditingInv, TypeOK, RowsAgree, PlaceAgrees,
                  EditorsAgree, DoubtHolds
<1> QED
  BY <1>1, Stays

LEMMA WindowMovesStays == ASSUME EditingInv, WindowMoves PROVE DeliveryStep
<1>1. \A b \in Attempts : PhaseOf(b)' = PhaseOf(b)
  BY SMTT(30) DEF WindowMoves, PhaseOf, EditingInv, TypeOK, RowsAgree, PlaceAgrees,
                  EditorsAgree, DoubtHolds
<1> QED
  BY <1>1, Stays

LEMMA CrashStays == ASSUME EditingInv, Crash PROVE DeliveryStep
<1>1. \A b \in Attempts : PhaseOf(b)' = PhaseOf(b)
  BY SMTT(30) DEF Crash, PhaseOf, EditingInv, TypeOK, RowsAgree, PlaceAgrees,
                  EditorsAgree, DoubtHolds
<1> QED
  BY <1>1, Stays

LEMMA WakeCampaignStays == ASSUME EditingInv, WakeCampaign PROVE DeliveryStep
<1>1. \A b \in Attempts : PhaseOf(b)' = PhaseOf(b)
  BY SMTT(30) DEF WakeCampaign, PhaseOf, EditingInv, TypeOK, RowsAgree, PlaceAgrees,
                  EditorsAgree, DoubtHolds
<1> QED
  BY <1>1, Stays

LEMMA RejectFailedAttemptStays == ASSUME EditingInv, RejectFailedAttempt PROVE DeliveryStep
<1>1. \A b \in Attempts : PhaseOf(b)' = PhaseOf(b)
  BY SMTT(30) DEF RejectFailedAttempt, PhaseOf, EditingInv, TypeOK, RowsAgree, PlaceAgrees,
                  EditorsAgree, DoubtHolds
<1> QED
  BY <1>1, Stays

LEMMA ReserveAgentRunStays == ASSUME EditingInv, ReserveAgentRun PROVE DeliveryStep
<1>1. \A b \in Attempts : PhaseOf(b)' = PhaseOf(b)
  BY SMTT(30) DEF ReserveAgentRun, PhaseOf, EditingInv, TypeOK, RowsAgree, PlaceAgrees,
                  EditorsAgree, DoubtHolds
<1> QED
  BY <1>1, Stays

LEMMA DeferAgentRunStays == ASSUME EditingInv, DeferAgentRun PROVE DeliveryStep
<1>1. \A b \in Attempts : PhaseOf(b)' = PhaseOf(b)
  BY SMTT(30) DEF DeferAgentRun, PhaseOf, EditingInv, TypeOK, RowsAgree, PlaceAgrees,
                  EditorsAgree, DoubtHolds
<1> QED
  BY <1>1, Stays

LEMMA GiveBackClaimStays == ASSUME EditingInv, GiveBackClaim PROVE DeliveryStep
<1>1. \A b \in Attempts : PhaseOf(b)' = PhaseOf(b)
  BY SMTT(30) DEF GiveBackClaim, PhaseOf, EditingInv, TypeOK, RowsAgree, PlaceAgrees,
                  EditorsAgree, DoubtHolds
<1> QED
  BY <1>1, Stays

LEMMA ReserveEditorAttemptStays == ASSUME EditingInv, ReserveEditorAttempt PROVE DeliveryStep
<1>1. \A b \in Attempts : PhaseOf(b)' = PhaseOf(b)
  BY SMTT(30) DEF ReserveEditorAttempt, PhaseOf, EditingInv, TypeOK, RowsAgree, PlaceAgrees,
                  EditorsAgree, DoubtHolds
<1> QED
  BY <1>1, Stays

LEMMA SpawnGatedStays == ASSUME EditingInv, SpawnGated PROVE DeliveryStep
<1>1. \A b \in Attempts : PhaseOf(b)' = PhaseOf(b)
  BY SMTT(30) DEF SpawnGated, PhaseOf, EditingInv, TypeOK, RowsAgree, PlaceAgrees,
                  EditorsAgree, DoubtHolds
<1> QED
  BY <1>1, Stays

LEMMA RequestReleaseStays == ASSUME EditingInv, RequestRelease PROVE DeliveryStep
<1>1. \A b \in Attempts : PhaseOf(b)' = PhaseOf(b)
  BY SMTT(30) DEF RequestRelease, PhaseOf, EditingInv, TypeOK, RowsAgree, PlaceAgrees,
                  EditorsAgree, DoubtHolds
<1> QED
  BY <1>1, Stays

LEMMA PublishMarkerStays == ASSUME EditingInv, PublishMarker PROVE DeliveryStep
<1>1. \A b \in Attempts : PhaseOf(b)' = PhaseOf(b)
  BY SMTT(30) DEF PublishMarker, PhaseOf, EditingInv, TypeOK, RowsAgree, PlaceAgrees,
                  EditorsAgree, DoubtHolds
<1> QED
  BY <1>1, Stays

LEMMA AcknowledgeDispatchStays == ASSUME EditingInv, AcknowledgeDispatch PROVE DeliveryStep
<1>1. \A b \in Attempts : PhaseOf(b)' = PhaseOf(b)
  BY SMTT(30) DEF AcknowledgeDispatch, PhaseOf, EditingInv, TypeOK, RowsAgree, PlaceAgrees,
                  EditorsAgree, DoubtHolds
<1> QED
  BY <1>1, Stays

LEMMA LaunchFailsStays == ASSUME EditingInv, LaunchFails PROVE DeliveryStep
<1>1. \A b \in Attempts : PhaseOf(b)' = PhaseOf(b)
  BY SMTT(30) DEF LaunchFails, PhaseOf, EditingInv, TypeOK, RowsAgree, PlaceAgrees,
                  EditorsAgree, DoubtHolds
<1> QED
  BY <1>1, Stays

LEMMA RejectRecordedStays == ASSUME EditingInv, RejectRecorded PROVE DeliveryStep
<1>1. \A b \in Attempts : PhaseOf(b)' = PhaseOf(b)
  BY SMTT(30) DEF RejectRecorded, PhaseOf, EditingInv, TypeOK, RowsAgree, PlaceAgrees,
                  EditorsAgree, DoubtHolds
<1> QED
  BY <1>1, Stays

LEMMA RestartStays == ASSUME EditingInv, Restart PROVE DeliveryStep
<1>1. \A b \in Attempts : PhaseOf(b)' = PhaseOf(b)
  BY SMTT(30) DEF Restart, PhaseOf, EditingInv, TypeOK, RowsAgree, PlaceAgrees,
                  EditorsAgree, DoubtHolds
<1> QED
  BY <1>1, Stays

LEMMA RecoveredStays == ASSUME EditingInv, Recovered PROVE DeliveryStep
<1>1. \A b \in Attempts : PhaseOf(b)' = PhaseOf(b)
  BY SMTT(30) DEF Recovered, PhaseOf, EditingInv, TypeOK, RowsAgree, PlaceAgrees,
                  EditorsAgree, DoubtHolds
<1> QED
  BY <1>1, Stays

LEMMA EditorEndsStays == ASSUME NEW a \in Attempts, EditingInv, EditorEnds(a) PROVE DeliveryStep
<1>1. \A b \in Attempts : PhaseOf(b)' = PhaseOf(b)
  BY SMTT(30) DEF EditorEnds, PhaseOf, EditingInv, TypeOK, RowsAgree, PlaceAgrees,
                  EditorsAgree, DoubtHolds
<1> QED
  BY <1>1, Stays

LEMMA LapseClaimStays == ASSUME NEW a \in Attempts, EditingInv, LapseClaim(a) PROVE DeliveryStep
<1>1. \A b \in Attempts : PhaseOf(b)' = PhaseOf(b)
  BY SMTT(30) DEF LapseClaim, PhaseOf, EditingInv, TypeOK, RowsAgree, PlaceAgrees,
                  EditorsAgree, DoubtHolds
<1> QED
  BY <1>1, Stays

LEMMA CheckRoundStays == ASSUME NEW a \in Attempts, EditingInv, CheckRound(a) PROVE DeliveryStep
<1>1. \A b \in Attempts : PhaseOf(b)' = PhaseOf(b)
  BY SMTT(30) DEF CheckRound, MayAdvance, Idle, NoActiveAgent, PhaseOf, EditingInv, TypeOK, RowsAgree, PlaceAgrees,
                  EditorsAgree, DoubtHolds
<1> QED
  BY <1>1, Stays

LEMMA ClaimEventStays == ASSUME NEW a \in Attempts, EditingInv, ClaimEvent(a) PROVE DeliveryStep
<1>1. \A b \in Attempts : PhaseOf(b)' = PhaseOf(b)
  BY SMTT(30) DEF ClaimEvent, PhaseOf, EditingInv, TypeOK, RowsAgree, PlaceAgrees,
                  EditorsAgree, DoubtHolds
<1> QED
  BY <1>1, Stays

LEMMA MarkUncertainStays == ASSUME NEW a \in Attempts, EditingInv, MarkUncertain(a) PROVE DeliveryStep
<1>1. \A b \in Attempts : PhaseOf(b)' = PhaseOf(b)
  BY SMTT(30) DEF MarkUncertain, Recovering, PhaseOf, EditingInv, TypeOK, RowsAgree, PlaceAgrees,
                  EditorsAgree, DoubtHolds
<1> QED
  BY <1>1, Stays

LEMMA RequireRecoveryStays == ASSUME NEW a \in Attempts, EditingInv, RequireRecovery(a) PROVE DeliveryStep
<1>1. \A b \in Attempts : PhaseOf(b)' = PhaseOf(b)
  BY SMTT(30) DEF RequireRecovery, PhaseOf, EditingInv, TypeOK, RowsAgree, PlaceAgrees,
                  EditorsAgree, DoubtHolds
<1> QED
  BY <1>1, Stays

LEMMA FailNeverRanStays == ASSUME NEW a \in Attempts, EditingInv, FailNeverRan(a) PROVE DeliveryStep
<1>1. \A b \in Attempts : PhaseOf(b)' = PhaseOf(b)
  BY SMTT(30) DEF FailNeverRan, Recovering, MayHaveRun, PhaseOf, EditingInv, TypeOK, RowsAgree, PlaceAgrees,
                  EditorsAgree, DoubtHolds
<1> QED
  BY <1>1, Stays

----------------------------------------------------------------------------
(* The steps that move the event of one attempt.                           *)

LEMMA InsertEventMoves == ASSUME NEW a \in Attempts, EditingInv, InsertEvent(a) PROVE DeliveryStep
<1>1. PhaseOf(a) \in Delivery!Phase
  BY PhaseType
<1>2. PhaseOf(a)' \in Onward(PhaseOf(a)) \cup {PhaseOf(a)}
  <2>1. PhaseOf(a) = "absent"
    BY SMTT(30) DEF InsertEvent, PhaseOf, EditingInv, TypeOK, RowsAgree, PlaceAgrees,
                    EditorsAgree, DoubtHolds
  <2>2. PhaseOf(a)' = "waiting"
    BY SMTT(30) DEF InsertEvent, PhaseOf, EditingInv, TypeOK, RowsAgree, PlaceAgrees,
                    EditorsAgree, DoubtHolds
  <2> QED
    BY <2>1, <2>2 DEF Onward
<1>3. \A b \in Attempts \ {a} : PhaseOf(b)' = PhaseOf(b)
  BY SMTT(30) DEF InsertEvent, PhaseOf, EditingInv, TypeOK
<1> QED
  BY <1>1, <1>2, <1>3, OneEventMoves

LEMMA PreBindingFailsMoves == ASSUME EditingInv, PreBindingFails PROVE DeliveryStep
<1> PICK a \in Attempts : a = cur
  BY DEF EditingInv, TypeOK
<1>1. PhaseOf(a) \in Delivery!Phase
  BY PhaseType
<1>2. PhaseOf(a)' \in Onward(PhaseOf(a)) \cup {PhaseOf(a)}
  <2>1. PhaseOf(a) = "waiting"
    BY SMTT(30) DEF PreBindingFails, RetryTarget, PhaseOf, EditingInv, TypeOK, RowsAgree, PlaceAgrees,
                    EditorsAgree, DoubtHolds
  <2>2. PhaseOf(a)' = "waiting"
    BY SMTT(30) DEF PreBindingFails, RetryTarget, PhaseOf, EditingInv, TypeOK, RowsAgree, PlaceAgrees,
                    EditorsAgree, DoubtHolds
  <2> QED
    BY <2>1, <2>2 DEF Onward
<1>3. \A b \in Attempts \ {a} : PhaseOf(b)' = PhaseOf(b)
  BY SMTT(30) DEF PreBindingFails, RetryTarget, PhaseOf, EditingInv, TypeOK
<1> QED
  BY <1>1, <1>2, <1>3, OneEventMoves

LEMMA DeadLetterDoomedMoves == ASSUME EditingInv, DeadLetterDoomed PROVE DeliveryStep
<1> PICK a \in Attempts : a = cur
  BY DEF EditingInv, TypeOK
<1>1. PhaseOf(a) \in Delivery!Phase
  BY PhaseType
<1>2. PhaseOf(a)' \in Onward(PhaseOf(a)) \cup {PhaseOf(a)}
  <2>1. PhaseOf(a) = "waiting"
    BY SMTT(30) DEF DeadLetterDoomed, PhaseOf, EditingInv, TypeOK, RowsAgree, PlaceAgrees,
                    EditorsAgree, DoubtHolds
  <2>2. PhaseOf(a)' = "settled"
    BY SMTT(30) DEF DeadLetterDoomed, PhaseOf, EditingInv, TypeOK, RowsAgree, PlaceAgrees,
                    EditorsAgree, DoubtHolds
  <2> QED
    BY <2>1, <2>2 DEF Onward
<1>3. \A b \in Attempts \ {a} : PhaseOf(b)' = PhaseOf(b)
  BY SMTT(30) DEF DeadLetterDoomed, PhaseOf, EditingInv, TypeOK
<1> QED
  BY <1>1, <1>2, <1>3, OneEventMoves

LEMMA BindAgentRunMoves == ASSUME EditingInv, BindAgentRun PROVE DeliveryStep
<1> PICK a \in Attempts : a = cur
  BY DEF EditingInv, TypeOK
<1>1. PhaseOf(a) \in Delivery!Phase
  BY PhaseType
<1>2. PhaseOf(a)' \in Onward(PhaseOf(a)) \cup {PhaseOf(a)}
  <2>1. PhaseOf(a) = "waiting"
    BY SMTT(30) DEF BindAgentRun, PhaseOf, EditingInv, TypeOK, RowsAgree, PlaceAgrees,
                    EditorsAgree, DoubtHolds
  <2>2. PhaseOf(a)' = "bound"
    BY SMTT(30) DEF BindAgentRun, PhaseOf, EditingInv, TypeOK, RowsAgree, PlaceAgrees,
                    EditorsAgree, DoubtHolds
  <2> QED
    BY <2>1, <2>2 DEF Onward
<1>3. \A b \in Attempts \ {a} : PhaseOf(b)' = PhaseOf(b)
  BY SMTT(30) DEF BindAgentRun, PhaseOf, EditingInv, TypeOK
<1> QED
  BY <1>1, <1>2, <1>3, OneEventMoves

LEMMA ReleaseMoves == ASSUME EditingInv, Release PROVE DeliveryStep
<1> PICK a \in Attempts : a = cur
  BY DEF EditingInv, TypeOK
<1>1. PhaseOf(a) \in Delivery!Phase
  BY PhaseType
<1>2. PhaseOf(a)' \in Onward(PhaseOf(a)) \cup {PhaseOf(a)}
  <2>1. PhaseOf(a) = "bound"
    BY SMTT(30) DEF Release, PhaseOf, EditingInv, TypeOK, RowsAgree, PlaceAgrees,
                    EditorsAgree, DoubtHolds
  <2>2. PhaseOf(a)' = "exposed"
    BY SMTT(30) DEF Release, PhaseOf, EditingInv, TypeOK, RowsAgree, PlaceAgrees,
                    EditorsAgree, DoubtHolds
  <2> QED
    BY <2>1, <2>2 DEF Onward
<1>3. \A b \in Attempts \ {a} : PhaseOf(b)' = PhaseOf(b)
  BY SMTT(30) DEF Release, PhaseOf, EditingInv, TypeOK
<1> QED
  BY <1>1, <1>2, <1>3, OneEventMoves

LEMMA FinishEditorAttemptMoves == ASSUME EditingInv, FinishEditorAttempt PROVE DeliveryStep
<1> PICK a \in Attempts : a = cur
  BY DEF EditingInv, TypeOK
<1>1. PhaseOf(a) \in Delivery!Phase
  BY PhaseType
<1>2. PhaseOf(a)' \in Onward(PhaseOf(a)) \cup {PhaseOf(a)}
  <2>1. \/ PhaseOf(a)' = PhaseOf(a)
        \/ PhaseOf(a) = "exposed" /\ PhaseOf(a)' = "reported"
    BY SMTT(30) DEF FinishEditorAttempt, PhaseOf, EditingInv, TypeOK, RowsAgree, PlaceAgrees,
                    EditorsAgree, DoubtHolds
  <2> QED
    BY <2>1 DEF Onward
<1>3. \A b \in Attempts \ {a} : PhaseOf(b)' = PhaseOf(b)
  BY SMTT(30) DEF FinishEditorAttempt, PhaseOf, EditingInv, TypeOK
<1> QED
  BY <1>1, <1>2, <1>3, OneEventMoves

LEMMA FailUnlaunchedMoves == ASSUME EditingInv, FailUnlaunched PROVE DeliveryStep
<1> PICK a \in Attempts : a = cur
  BY DEF EditingInv, TypeOK
<1>1. PhaseOf(a) \in Delivery!Phase
  BY PhaseType
<1>2. PhaseOf(a)' \in Onward(PhaseOf(a)) \cup {PhaseOf(a)}
  <2>1. \/ PhaseOf(a)' = PhaseOf(a)
        \/ PhaseOf(a) = "exposed" /\ PhaseOf(a)' = "reported"
    BY SMTT(30) DEF FailUnlaunched, PhaseOf, EditingInv, TypeOK, RowsAgree, PlaceAgrees,
                    EditorsAgree, DoubtHolds
  <2> QED
    BY <2>1 DEF Onward
<1>3. \A b \in Attempts \ {a} : PhaseOf(b)' = PhaseOf(b)
  BY SMTT(30) DEF FailUnlaunched, PhaseOf, EditingInv, TypeOK
<1> QED
  BY <1>1, <1>2, <1>3, OneEventMoves

LEMMA FinishUnlaunchedMoves == ASSUME EditingInv, FinishUnlaunched PROVE DeliveryStep
<1> PICK a \in Attempts : a = cur
  BY DEF EditingInv, TypeOK
<1>1. PhaseOf(a) \in Delivery!Phase
  BY PhaseType
<1>2. PhaseOf(a)' \in Onward(PhaseOf(a)) \cup {PhaseOf(a)}
  <2>1. PhaseOf(a) \in {"bound", "reported"}
    BY SMTT(30) DEF FinishUnlaunched, RetryTarget, PhaseOf, EditingInv, TypeOK, RowsAgree, PlaceAgrees,
                    EditorsAgree, DoubtHolds
  <2>2. PhaseOf(a)' \in {"waiting", "settled"}
    BY SMTT(30) DEF FinishUnlaunched, RetryTarget, PhaseOf, EditingInv, TypeOK, RowsAgree, PlaceAgrees,
                    EditorsAgree, DoubtHolds
  <2> QED
    BY <2>1, <2>2 DEF Onward
<1>3. \A b \in Attempts \ {a} : PhaseOf(b)' = PhaseOf(b)
  BY SMTT(30) DEF FinishUnlaunched, RetryTarget, PhaseOf, EditingInv, TypeOK
<1> QED
  BY <1>1, <1>2, <1>3, OneEventMoves

LEMMA FinishAgentRunMoves == ASSUME EditingInv, FinishAgentRun PROVE DeliveryStep
<1> PICK a \in Attempts : a = cur
  BY DEF EditingInv, TypeOK
<1>1. PhaseOf(a) \in Delivery!Phase
  BY PhaseType
<1>2. PhaseOf(a)' \in Onward(PhaseOf(a)) \cup {PhaseOf(a)}
  <2>1. PhaseOf(a) \in {"bound", "reported"}
    BY SMTT(30) DEF FinishAgentRun, Resolve, RetryTarget, PhaseOf, EditingInv, TypeOK, RowsAgree, PlaceAgrees,
                    EditorsAgree, DoubtHolds
  <2>2. PhaseOf(a)' \in {"waiting", "settled"}
    BY SMTT(30) DEF FinishAgentRun, Resolve, RetryTarget, PhaseOf, EditingInv, TypeOK, RowsAgree, PlaceAgrees,
                    EditorsAgree, DoubtHolds
  <2> QED
    BY <2>1, <2>2 DEF Onward
<1>3. \A b \in Attempts \ {a} : PhaseOf(b)' = PhaseOf(b)
  BY SMTT(30) DEF FinishAgentRun, Resolve, RetryTarget, PhaseOf, EditingInv, TypeOK
<1> QED
  BY <1>1, <1>2, <1>3, OneEventMoves

LEMMA FinishUncertainMoves == ASSUME NEW a \in Attempts, EditingInv, FinishUncertain(a) PROVE DeliveryStep
<1>1. PhaseOf(a) \in Delivery!Phase
  BY PhaseType
<1>2. PhaseOf(a)' \in Onward(PhaseOf(a)) \cup {PhaseOf(a)}
  <2>1. PhaseOf(a) \in {"bound", "exposed", "reported"}
    BY SMTT(30) DEF FinishUncertain, Recovering, PhaseOf, EditingInv, TypeOK, RowsAgree, PlaceAgrees,
                    EditorsAgree, DoubtHolds
  <2>2. PhaseOf(a)' = "settled"
    BY SMTT(30) DEF FinishUncertain, Recovering, PhaseOf, EditingInv, TypeOK, RowsAgree, PlaceAgrees,
                    EditorsAgree, DoubtHolds
  <2> QED
    BY <2>1, <2>2 DEF Onward
<1>3. \A b \in Attempts \ {a} : PhaseOf(b)' = PhaseOf(b)
  BY SMTT(30) DEF FinishUncertain, Recovering, PhaseOf, EditingInv, TypeOK
<1> QED
  BY <1>1, <1>2, <1>3, OneEventMoves

LEMMA FinishStoredMoves == ASSUME NEW a \in Attempts, EditingInv, FinishStored(a) PROVE DeliveryStep
<1>1. PhaseOf(a) \in Delivery!Phase
  BY PhaseType
<1>2. PhaseOf(a)' \in Onward(PhaseOf(a)) \cup {PhaseOf(a)}
  <2>1. PhaseOf(a) \in {"bound", "reported"}
    BY SMTT(30) DEF FinishStored, Resolve, RetryTarget, Recovering, PhaseOf, EditingInv, TypeOK, RowsAgree, PlaceAgrees,
                    EditorsAgree, DoubtHolds
  <2>2. PhaseOf(a)' \in {"waiting", "settled"}
    BY SMTT(30) DEF FinishStored, Resolve, RetryTarget, Recovering, PhaseOf, EditingInv, TypeOK, RowsAgree, PlaceAgrees,
                    EditorsAgree, DoubtHolds
  <2> QED
    BY <2>1, <2>2 DEF Onward
<1>3. \A b \in Attempts \ {a} : PhaseOf(b)' = PhaseOf(b)
  BY SMTT(30) DEF FinishStored, Resolve, RetryTarget, Recovering, PhaseOf, EditingInv, TypeOK
<1> QED
  BY <1>1, <1>2, <1>3, OneEventMoves

LEMMA EditingDelivers == ASSUME EditingInv, EditingInv', [Next]_vars PROVE DeliveryStep
<1>1. CASE LaunchStep
  BY <1>1, ReserveAgentRunStays, DeferAgentRunStays, GiveBackClaimStays,
     PreBindingFailsMoves, DeadLetterDoomedMoves, BindAgentRunMoves,
     ReserveEditorAttemptStays, SpawnGatedStays, RequestReleaseStays,
     PublishMarkerStays, ReleaseMoves, AcknowledgeDispatchStays,
     LaunchFailsStays, FailUnlaunchedMoves, FinishUnlaunchedMoves DEF LaunchStep
<1>2. CASE OutcomeStep
  BY <1>2, FinishEditorAttemptMoves, RejectRecordedStays, FinishAgentRunMoves DEF OutcomeStep
<1>3. CASE AdvanceStep
  BY <1>3, RejectFailedAttemptStays, CheckRoundStays, InsertEventMoves,
     ClaimEventStays DEF AdvanceStep
<1>4. CASE WakeCampaign
  BY <1>4, WakeCampaignStays
<1>5. CASE \E a \in Attempts : LapseClaim(a)
  BY <1>5, LapseClaimStays
<1>6. CASE Restart
  BY <1>6, RestartStays
<1>7. CASE RecoveryStep
  BY <1>7, RecoveredStays, MarkUncertainStays, RequireRecoveryStays,
     FinishUncertainMoves, FailNeverRanStays, FinishStoredMoves DEF RecoveryStep
<1>8. CASE Environment
  BY <1>8, StopOrResumeStays, WindowMovesStays, CrashStays, EditorEndsStays DEF Environment
<1>9. CASE UNCHANGED vars
  <2>1. \A b \in Attempts : PhaseOf(b)' = PhaseOf(b)
    BY <1>9 DEF vars, PhaseOf
  <2> QED
    BY <2>1, Stays
<1> QED
  BY <1>1, <1>2, <1>3, <1>4, <1>5, <1>6, <1>7, <1>8, <1>9 DEF Next

\* The coordinator of the editors implements the promise of EventDelivery:
\* after an editor may have written the worktree, its event waits again only
\* if the daemon that started it has seen its end.
THEOREM EditorsImplementDelivery == Spec => EditorsDeliver
<1>1. Init => Delivery!DeliveryInit
  BY DEF Init, PhaseOf, Delivery!DeliveryInit
<1>2. EditingInv /\ EditingInv' /\ [Next]_vars
      => [Delivery!DeliveryNext]_([a \in Attempts |-> PhaseOf(a)])
  BY EditingDelivers DEF DeliveryStep, phases
<1> QED
  BY <1>1, <1>2, EditingInvariant, PTL DEF Spec, EditorsDeliver, Delivery!DeliverySpec
============================================================================
