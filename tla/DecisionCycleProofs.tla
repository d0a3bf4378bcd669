----------------------- MODULE DecisionCycleProofs -----------------------
(***************************************************************************)
(* Proofs about DecisionCycle, for any set of cycles and any bounds.       *)
(* DecisionInv is inductive: one lemma per action says that it is          *)
(* preserved.  The safety properties follow from it.                       *)
(***************************************************************************)
EXTENDS DecisionCycle, TLAPS

USE CyclesAssumption, AttemptsAssumption, BoundsAssumption
    DEF TypeOK, HandFits, AttemptFits, RunFits, EventFits, OneActiveAttempt,
        OneAgent, AttemptsAreLimited, PendingIsDeliverable, Deliverable,
        DegradedIsParked, ActiveAttempt, Unbound, LostOutput, AllRecovered, Requeueable, Wakeable, Parkable,
        InHand, Steps, LockedSteps, Kinds, rows, place, bounds

LEMMA InitInv == ASSUME Init PROVE DecisionInv
<1>1. cur \in Cycles
  BY DEF Init
<1> QED
  BY <1>1, SMTT(30) DEF Init, DecisionInv

LEMMA StutterInv == DecisionInv /\ UNCHANGED vars => DecisionInv'
BY SMTT(30) DEF vars, DecisionInv
----------------------------------------------------------------------------
(* One lemma per action.                                                   *)

LEMMA PublishInv == ASSUME NEW c \in Cycles, DecisionInv, Publish(c) PROVE DecisionInv'
<1> USE DEF Publish, DecisionInv
<1>1. TypeOK'
  BY SMTT(30)
<1>2. HandFits'
  <2>1. CASE cur = c
    BY <2>1, SMTT(60)
  <2>2. CASE cur # c
    <3>1. cycle'[cur] = cycle[cur] /\ event'[cur] = event[cur]
      BY <2>2
    <3>2. c \notin batch
      BY SMTT(30)
    <3>3. step = "claimed" => AllRecovered'
      BY <2>2, SMTT(60)
    <3> QED
      BY <2>2, <3>1, <3>2, <3>3, SMTT(60)
  <2> QED
    BY <2>1, <2>2
<1>3. ASSUME NEW d \in Cycles
      PROVE (AttemptFits(d) /\ RunFits(d) /\ EventFits(d))'
  BY SMTT(30)
<1>4. PendingIsDeliverable'
  BY SMTT(30)
<1>5. OneActiveAttempt' /\ OneAgent' /\ DegradedIsParked'
  BY SMTT(30)
<1>6. AttemptsAreLimited'
  BY SMTT(30)
<1> QED
  BY <1>1, <1>2, <1>3, <1>4, <1>5, <1>6

LEMMA PauseInv == ASSUME DecisionInv, Pause PROVE DecisionInv'
<1> USE DEF Pause, Unlocked, DecisionInv
<1>1. TypeOK'
  BY SMTT(30)
<1>2. HandFits'
  BY SMTT(30)
<1>3. ASSUME NEW d \in Cycles
      PROVE (AttemptFits(d) /\ RunFits(d) /\ EventFits(d))'
  BY SMTT(30)
<1>4. PendingIsDeliverable'
  BY SMTT(30)
<1>5. OneActiveAttempt' /\ OneAgent' /\ DegradedIsParked'
  BY SMTT(30)
<1>6. AttemptsAreLimited'
  BY SMTT(30)
<1> QED
  BY <1>1, <1>2, <1>3, <1>4, <1>5, <1>6

LEMMA ResumeInv == ASSUME DecisionInv, Resume PROVE DecisionInv'
<1> USE DEF Resume, ResumedState, DecisionInv
<1>1. TypeOK'
  BY SMTT(30)
<1>2. HandFits'
  BY SMTT(30)
<1>3. ASSUME NEW d \in Cycles
      PROVE (AttemptFits(d) /\ RunFits(d) /\ EventFits(d))'
  BY SMTT(30)
<1>4. PendingIsDeliverable'
  BY SMTT(30)
<1>5. OneActiveAttempt' /\ OneAgent' /\ DegradedIsParked'
  BY SMTT(30)
<1>6. AttemptsAreLimited'
  BY SMTT(30)
<1> QED
  BY <1>1, <1>2, <1>3, <1>4, <1>5, <1>6

LEMMA RetireInv == ASSUME DecisionInv, Retire PROVE DecisionInv'
<1> USE DEF Retire, Unlocked, DecisionInv
<1>1. TypeOK'
  BY SMTT(30)
<1>2. HandFits'
  BY SMTT(30)
<1>3. ASSUME NEW d \in Cycles
      PROVE (AttemptFits(d) /\ RunFits(d) /\ EventFits(d))'
  BY SMTT(30)
<1>4. PendingIsDeliverable'
  BY SMTT(30)
<1>5. OneActiveAttempt' /\ OneAgent' /\ DegradedIsParked'
  BY SMTT(30)
<1>6. AttemptsAreLimited'
  BY SMTT(30)
<1> QED
  BY <1>1, <1>2, <1>3, <1>4, <1>5, <1>6

LEMMA RejectReviewInv == ASSUME DecisionInv, RejectReview PROVE DecisionInv'
<1> USE DEF RejectReview, Unlocked, Claimants, DecisionInv
<1>0. PICK c \in Cycles : Claimants = {c} /\ event' = [event EXCEPT ![c] = "dead_letter"]
  OBVIOUS
<1>a. cycle[c] = "completed"
  BY <1>0
<1>1. TypeOK'
  BY SMTT(30)
<1>2. HandFits'
  BY SMTT(30)
<1>3. ASSUME NEW d \in Cycles
      PROVE (AttemptFits(d) /\ RunFits(d) /\ EventFits(d))'
  BY SMTT(30)
<1>4. PendingIsDeliverable'
  <2> SUFFICES ASSUME NEW d \in Cycles, cycle'[d] = "pending"
               PROVE (Deliverable(d) \/ d \in stranded)'
    OBVIOUS
  <2>1. event'[d] = event[d]
    BY <1>0, <1>a
  <2> QED
    BY <2>1, SMTT(30)
<1>5. OneActiveAttempt' /\ OneAgent' /\ DegradedIsParked'
  BY SMTT(30)
<1>6. AttemptsAreLimited'
  BY SMTT(30)
<1> QED
  BY <1>1, <1>2, <1>3, <1>4, <1>5, <1>6

LEMMA CrashInv == ASSUME DecisionInv, Crash PROVE DecisionInv'
<1> USE DEF Crash, DecisionInv
<1>0. stranded' \in SUBSET Cycles
  BY Zenon
<1>1. TypeOK'
  BY <1>0, SMTT(30)
<1>2. HandFits'
  BY SMTT(30)
<1>3. ASSUME NEW d \in Cycles
      PROVE (AttemptFits(d) /\ RunFits(d) /\ EventFits(d))'
  BY SMTT(30)
<1>4. PendingIsDeliverable'
  BY SMTT(30)
<1>5. OneActiveAttempt' /\ OneAgent' /\ DegradedIsParked'
  BY SMTT(30)
<1>6. AttemptsAreLimited'
  BY SMTT(30)
<1> QED
  BY <1>1, <1>2, <1>3, <1>4, <1>5, <1>6

LEMMA RestartInv == ASSUME DecisionInv, Restart PROVE DecisionInv'
<1> USE DEF Restart, Interrupted, Recovered, DecisionInv
<1>0. stranded' \in SUBSET Cycles
  BY Zenon
<1>1. TypeOK'
  BY <1>0, SMTT(30)
<1>2. HandFits'
  BY SMTT(30)
<1>3. ASSUME NEW d \in Cycles
      PROVE (AttemptFits(d) /\ RunFits(d) /\ EventFits(d))'
  BY SMTT(30)
<1>4. PendingIsDeliverable'
  BY SMTT(30)
<1>5. OneActiveAttempt' /\ OneAgent' /\ DegradedIsParked'
  BY SMTT(30)
<1>6. AttemptsAreLimited'
  BY SMTT(30)
<1> QED
  BY <1>1, <1>2, <1>3, <1>4, <1>5, <1>6

LEMMA RecoverUnboundInv == ASSUME NEW c \in Cycles, DecisionInv, RecoverUnbound(c) PROVE DecisionInv'
<1> USE DEF RecoverUnbound, Unreserve, Idle, DecisionInv
<1>1. TypeOK'
  BY SMTT(30)
<1>2. HandFits'
  BY SMTT(30)
<1>3. ASSUME NEW d \in Cycles
      PROVE (AttemptFits(d) /\ RunFits(d) /\ EventFits(d))'
  BY SMTT(30)
<1>4. PendingIsDeliverable'
  BY SMTT(30)
<1>5. OneActiveAttempt' /\ OneAgent' /\ DegradedIsParked'
  BY SMTT(30)
<1>6. AttemptsAreLimited'
  BY SMTT(30)
<1> QED
  BY <1>1, <1>2, <1>3, <1>4, <1>5, <1>6

LEMMA RecoverLostOutputInv == ASSUME NEW c \in Cycles, DecisionInv, RecoverLostOutput(c) PROVE DecisionInv'
<1> USE DEF RecoverLostOutput, FailAttempt, DegradedFrom, Reopened, Idle,
            DecisionInv
<1>1. TypeOK'
  BY SMTT(30)
<1>2. HandFits'
  BY SMTT(30)
<1>3. ASSUME NEW d \in Cycles
      PROVE (AttemptFits(d) /\ RunFits(d) /\ EventFits(d))'
  BY SMTT(30)
<1>4. PendingIsDeliverable'
  BY SMTT(30)
<1>5. OneActiveAttempt' /\ OneAgent' /\ DegradedIsParked'
  BY SMTT(30)
<1>6. AttemptsAreLimited'
  BY SMTT(30)
<1> QED
  BY <1>1, <1>2, <1>3, <1>4, <1>5, <1>6

LEMMA LapseClaimInv == ASSUME NEW c \in Cycles, DecisionInv, LapseClaim(c) PROVE DecisionInv'
<1> USE DEF LapseClaim, InRound, Idle, AllRecovered, DecisionInv
<1>1. TypeOK'
  BY SMTT(30)
<1>2. HandFits'
  BY SMTT(30)
<1>3. ASSUME NEW d \in Cycles
      PROVE (AttemptFits(d) /\ RunFits(d) /\ EventFits(d))'
  BY SMTT(30)
<1>4. PendingIsDeliverable'
  BY SMTT(30)
<1>5. OneActiveAttempt' /\ OneAgent' /\ DegradedIsParked'
  BY SMTT(30)
<1>6. AttemptsAreLimited'
  BY SMTT(30)
<1> QED
  BY <1>1, <1>2, <1>3, <1>4, <1>5, <1>6

LEMMA ClaimInv == ASSUME NEW b \in SUBSET Cycles, DecisionInv, Claim(b) PROVE DecisionInv'
<1> USE DEF Claim, InRound, Idle, AllRecovered, DecisionInv
<1>1. TypeOK'
  BY SMTT(30)
<1>2. HandFits'
  BY SMTT(30)
<1>3. ASSUME NEW d \in Cycles
      PROVE (AttemptFits(d) /\ RunFits(d) /\ EventFits(d))'
  BY SMTT(30)
<1>4. PendingIsDeliverable'
  BY SMTT(30)
<1>5. OneActiveAttempt' /\ OneAgent' /\ DegradedIsParked'
  BY SMTT(30)
<1>6. AttemptsAreLimited'
  BY SMTT(30)
<1> QED
  BY <1>1, <1>2, <1>3, <1>4, <1>5, <1>6

LEMMA DeferBatchInv == ASSUME DecisionInv, DeferBatch PROVE DecisionInv'
<1> USE DEF DeferBatch, Setback, Dispatchable, NoActiveAgent, NoOtherAttempt,
            Oldest, DecisionInv
<1>1. TypeOK'
  BY SMTT(30)
<1>2. HandFits'
  BY SMTT(30)
<1>3. ASSUME NEW d \in Cycles
      PROVE (AttemptFits(d) /\ RunFits(d) /\ EventFits(d))'
  BY SMTT(30)
<1>4. PendingIsDeliverable'
  BY SMTT(30)
<1>5. OneActiveAttempt' /\ OneAgent' /\ DegradedIsParked'
  BY SMTT(30)
<1>6. AttemptsAreLimited'
  BY SMTT(30)
<1> QED
  BY <1>1, <1>2, <1>3, <1>4, <1>5, <1>6

LEMMA ConfigUnreadableInv == ASSUME DecisionInv, ConfigUnreadable PROVE DecisionInv'
<1> USE DEF ConfigUnreadable, NoActiveAgent, DecisionInv
<1>0. stranded' \in SUBSET Cycles
  BY Zenon
<1>1. TypeOK'
  BY <1>0, SMTT(30)
<1>2. HandFits'
  BY SMTT(30)
<1>3. ASSUME NEW d \in Cycles
      PROVE (AttemptFits(d) /\ RunFits(d) /\ EventFits(d))'
  BY SMTT(30)
<1>4. PendingIsDeliverable'
  BY SMTT(30)
<1>5. OneActiveAttempt' /\ OneAgent' /\ DegradedIsParked'
  BY SMTT(30)
<1>6. AttemptsAreLimited'
  BY SMTT(30)
<1> QED
  BY <1>1, <1>2, <1>3, <1>4, <1>5, <1>6

LEMMA ReserveInv == ASSUME NEW c \in Cycles, DecisionInv, Reserve(c) PROVE DecisionInv'
<1> USE DEF Reserve, Dispatchable, NoActiveAgent, NoOtherAttempt, Oldest,
            DecisionInv
<1>1. TypeOK'
  BY SMTT(30)
<1>2. HandFits'
  BY SMTT(30)
<1>3. ASSUME NEW d \in Cycles
      PROVE (AttemptFits(d) /\ RunFits(d) /\ EventFits(d))'
  BY SMTT(30)
<1>4. PendingIsDeliverable'
  BY SMTT(30)
<1>5. OneActiveAttempt' /\ OneAgent' /\ DegradedIsParked'
  BY SMTT(30)
<1>6. AttemptsAreLimited'
  BY SMTT(30)
<1> QED
  BY <1>1, <1>2, <1>3, <1>4, <1>5, <1>6

LEMMA StoreEvidenceInv == ASSUME DecisionInv, StoreEvidence PROVE DecisionInv'
<1> USE DEF StoreEvidence, DecisionInv
<1>1. TypeOK'
  BY SMTT(30)
<1>2. HandFits'
  BY SMTT(30)
<1>3. ASSUME NEW d \in Cycles
      PROVE (AttemptFits(d) /\ RunFits(d) /\ EventFits(d))'
  BY SMTT(30)
<1>4. PendingIsDeliverable'
  BY SMTT(30)
<1>5. OneActiveAttempt' /\ OneAgent' /\ DegradedIsParked'
  BY SMTT(30)
<1>6. AttemptsAreLimited'
  BY SMTT(30)
<1> QED
  BY <1>1, <1>2, <1>3, <1>4, <1>5, <1>6

LEMMA ChargeBudgetInv == ASSUME DecisionInv, ChargeBudget PROVE DecisionInv'
<1> USE DEF ChargeBudget, DecisionInv
<1>1. TypeOK'
  BY SMTT(30)
<1>2. HandFits'
  BY SMTT(30)
<1>3. ASSUME NEW d \in Cycles
      PROVE (AttemptFits(d) /\ RunFits(d) /\ EventFits(d))'
  BY SMTT(30)
<1>4. PendingIsDeliverable'
  BY SMTT(30)
<1>5. OneActiveAttempt' /\ OneAgent' /\ DegradedIsParked'
  BY SMTT(30)
<1>6. AttemptsAreLimited'
  BY SMTT(30)
<1> QED
  BY <1>1, <1>2, <1>3, <1>4, <1>5, <1>6

LEMMA RequeueInv == ASSUME DecisionInv, Requeue PROVE DecisionInv'
<1> USE DEF Requeue, Setback, Unreserve, DecisionInv
<1>1. TypeOK'
  BY SMTT(30)
<1>2. HandFits'
  BY SMTT(30)
<1>3. ASSUME NEW d \in Cycles
      PROVE (AttemptFits(d) /\ RunFits(d) /\ EventFits(d))'
  BY SMTT(30)
<1>4. PendingIsDeliverable'
  BY SMTT(30)
<1>5. OneActiveAttempt' /\ OneAgent' /\ DegradedIsParked'
  BY SMTT(30)
<1>6. AttemptsAreLimited'
  BY SMTT(30)
<1> QED
  BY <1>1, <1>2, <1>3, <1>4, <1>5, <1>6

LEMMA DeferRequeuedInv == ASSUME DecisionInv, DeferRequeued PROVE DecisionInv'
<1> USE DEF DeferRequeued, DecisionInv
<1>1. TypeOK'
  BY SMTT(30)
<1>2. HandFits'
  BY SMTT(30)
<1>3. ASSUME NEW d \in Cycles
      PROVE (AttemptFits(d) /\ RunFits(d) /\ EventFits(d))'
  BY SMTT(30)
<1>4. PendingIsDeliverable'
  BY SMTT(30)
<1>5. OneActiveAttempt' /\ OneAgent' /\ DegradedIsParked'
  BY SMTT(30)
<1>6. AttemptsAreLimited'
  BY SMTT(30)
<1> QED
  BY <1>1, <1>2, <1>3, <1>4, <1>5, <1>6

LEMMA FailBeforeRunInv == ASSUME DecisionInv, FailBeforeRun PROVE DecisionInv'
<1> USE DEF FailBeforeRun, Setback, Unreserve, DecisionInv
<1>1. TypeOK'
  BY SMTT(30)
<1>2. HandFits'
  BY SMTT(30)
<1>3. ASSUME NEW d \in Cycles
      PROVE (AttemptFits(d) /\ RunFits(d) /\ EventFits(d))'
  BY SMTT(30)
<1>4. PendingIsDeliverable'
  BY SMTT(30)
<1>5. OneActiveAttempt' /\ OneAgent' /\ DegradedIsParked'
  BY SMTT(30)
<1>6. AttemptsAreLimited'
  BY SMTT(30)
<1> QED
  BY <1>1, <1>2, <1>3, <1>4, <1>5, <1>6

LEMMA InsertRunInv == ASSUME DecisionInv, InsertRun PROVE DecisionInv'
<1> USE DEF InsertRun, DecisionInv
<1>1. TypeOK'
  BY SMTT(30)
<1>2. HandFits'
  BY SMTT(30)
<1>3. ASSUME NEW d \in Cycles
      PROVE (AttemptFits(d) /\ RunFits(d) /\ EventFits(d))'
  BY SMTT(30)
<1>4. PendingIsDeliverable'
  BY SMTT(30)
<1>5. OneActiveAttempt' /\ OneAgent' /\ DegradedIsParked'
  BY SMTT(30)
<1>6. AttemptsAreLimited'
  BY SMTT(30)
<1> QED
  BY <1>1, <1>2, <1>3, <1>4, <1>5, <1>6

LEMMA BindRunInv == ASSUME DecisionInv, BindRun PROVE DecisionInv'
<1> USE DEF BindRun, DecisionInv
<1>1. TypeOK'
  BY SMTT(30)
<1>2. HandFits'
  BY SMTT(30)
<1>3. ASSUME NEW d \in Cycles
      PROVE (AttemptFits(d) /\ RunFits(d) /\ EventFits(d))'
  BY SMTT(30)
<1>4. PendingIsDeliverable'
  BY SMTT(30)
<1>5. OneActiveAttempt' /\ OneAgent' /\ DegradedIsParked'
  BY SMTT(30)
<1>6. AttemptsAreLimited'
  BY SMTT(30)
<1> QED
  BY <1>1, <1>2, <1>3, <1>4, <1>5, <1>6

LEMMA FailToBindInv == ASSUME DecisionInv, FailToBind PROVE DecisionInv'
<1> USE DEF FailToBind, Setback, Unreserve, DecisionInv
<1>1. TypeOK'
  BY SMTT(30)
<1>2. HandFits'
  BY SMTT(30)
<1>3. ASSUME NEW d \in Cycles
      PROVE (AttemptFits(d) /\ RunFits(d) /\ EventFits(d))'
  BY SMTT(30)
<1>4. PendingIsDeliverable'
  BY SMTT(30)
<1>5. OneActiveAttempt' /\ OneAgent' /\ DegradedIsParked'
  BY SMTT(30)
<1>6. AttemptsAreLimited'
  BY SMTT(30)
<1> QED
  BY <1>1, <1>2, <1>3, <1>4, <1>5, <1>6

LEMMA LaunchInv == ASSUME DecisionInv, Launch PROVE DecisionInv'
<1> USE DEF Launch, DecisionInv
<1>1. TypeOK'
  BY SMTT(30)
<1>2. HandFits'
  BY SMTT(30)
<1>3. ASSUME NEW d \in Cycles
      PROVE (AttemptFits(d) /\ RunFits(d) /\ EventFits(d))'
  BY SMTT(30)
<1>4. PendingIsDeliverable'
  BY SMTT(30)
<1>5. OneActiveAttempt' /\ OneAgent' /\ DegradedIsParked'
  BY SMTT(30)
<1>6. AttemptsAreLimited'
  BY SMTT(30)
<1> QED
  BY <1>1, <1>2, <1>3, <1>4, <1>5, <1>6

LEMMA FailLaunchInv == ASSUME DecisionInv, FailLaunch PROVE DecisionInv'
<1> USE DEF FailLaunch, FailAttempt, DegradedFrom, Reopened, DecisionInv
<1>1. TypeOK'
  BY SMTT(30)
<1>2. HandFits'
  BY SMTT(30)
<1>3. ASSUME NEW d \in Cycles
      PROVE (AttemptFits(d) /\ RunFits(d) /\ EventFits(d))'
  BY SMTT(30)
<1>4. PendingIsDeliverable'
  BY SMTT(30)
<1>5. OneActiveAttempt' /\ OneAgent' /\ DegradedIsParked'
  BY SMTT(30)
<1>6. AttemptsAreLimited'
  BY SMTT(30)
<1> QED
  BY <1>1, <1>2, <1>3, <1>4, <1>5, <1>6

LEMMA FinalizeLaunchInv == ASSUME DecisionInv, FinalizeLaunch PROVE DecisionInv'
<1> USE DEF FinalizeLaunch, ResolveFailed, DegradedFrom, DecisionInv
<1>1. TypeOK'
  BY SMTT(30)
<1>2. HandFits'
  BY SMTT(30)
<1>3. ASSUME NEW d \in Cycles
      PROVE (AttemptFits(d) /\ RunFits(d) /\ EventFits(d))'
  BY SMTT(30)
<1>4. PendingIsDeliverable'
  BY SMTT(30)
<1>5. OneActiveAttempt' /\ OneAgent' /\ DegradedIsParked'
  BY SMTT(30)
<1>6. AttemptsAreLimited'
  BY SMTT(30)
<1> QED
  BY <1>1, <1>2, <1>3, <1>4, <1>5, <1>6

LEMMA StoreDecisionInv == ASSUME NEW c \in Cycles, DecisionInv, StoreDecision(c) PROVE DecisionInv'
<1> USE DEF StoreDecision, Ended, Idle, DecisionInv
<1>1. TypeOK'
  BY SMTT(30)
<1>2. HandFits'
  BY SMTT(30)
<1>3. ASSUME NEW d \in Cycles
      PROVE (AttemptFits(d) /\ RunFits(d) /\ EventFits(d))'
  BY SMTT(30)
<1>4. PendingIsDeliverable'
  BY SMTT(30)
<1>5. OneActiveAttempt' /\ OneAgent' /\ DegradedIsParked'
  BY SMTT(30)
<1>6. AttemptsAreLimited'
  BY SMTT(30)
<1> QED
  BY <1>1, <1>2, <1>3, <1>4, <1>5, <1>6

LEMMA MissDecisionInv == ASSUME NEW c \in Cycles, DecisionInv, MissDecision(c) PROVE DecisionInv'
<1> USE DEF MissDecision, FailAttempt, DegradedFrom, Reopened, Ended, Idle,
            DecisionInv
<1>1. TypeOK'
  BY SMTT(30)
<1>2. HandFits'
  BY SMTT(30)
<1>3. ASSUME NEW d \in Cycles
      PROVE (AttemptFits(d) /\ RunFits(d) /\ EventFits(d))'
  BY SMTT(30)
<1>4. PendingIsDeliverable'
  BY SMTT(30)
<1>5. OneActiveAttempt' /\ OneAgent' /\ DegradedIsParked'
  BY SMTT(30)
<1>6. AttemptsAreLimited'
  BY SMTT(30)
<1> QED
  BY <1>1, <1>2, <1>3, <1>4, <1>5, <1>6

LEMMA FinalizeOutcomeInv == ASSUME DecisionInv, FinalizeOutcome PROVE DecisionInv'
<1> USE DEF FinalizeOutcome, ResolveFailed, DegradedFrom, DecisionInv
<1>1. TypeOK'
  BY SMTT(30)
<1>2. HandFits'
  BY SMTT(30)
<1>3. ASSUME NEW d \in Cycles
      PROVE (AttemptFits(d) /\ RunFits(d) /\ EventFits(d))'
  BY SMTT(30)
<1>4. PendingIsDeliverable'
  <2> SUFFICES ASSUME NEW d \in Cycles, cycle'[d] = "pending"
               PROVE (Deliverable(d) \/ d \in stranded)'
    OBVIOUS
  <2>1. CASE att[cur] = "decided"
    BY <2>1, SMTT(60)
  <2>2. CASE att[cur] # "decided" /\ d = cur
    BY <2>2, SMTT(60)
  <2>3. CASE att[cur] # "decided" /\ d # cur
    <3>1. cycle[d] = "pending" /\ event'[d] = event[d] /\ agent'[d] = agent[d]
      BY <2>3
    <3> QED
      BY <2>3, <3>1, SMTT(60)
  <2> QED
    BY <2>1, <2>2, <2>3
<1>5. OneActiveAttempt' /\ OneAgent' /\ DegradedIsParked'
  BY SMTT(30)
<1>6. AttemptsAreLimited'
  BY SMTT(30)
<1> QED
  BY <1>1, <1>2, <1>3, <1>4, <1>5, <1>6

LEMMA BeginApplyInv == ASSUME NEW c \in Cycles, DecisionInv, BeginApply(c) PROVE DecisionInv'
<1> USE DEF BeginApply, InRound, Idle, AllRecovered, DecisionInv
<1>1. TypeOK'
  BY SMTT(30)
<1>2. HandFits'
  BY SMTT(30)
<1>3. ASSUME NEW d \in Cycles
      PROVE (AttemptFits(d) /\ RunFits(d) /\ EventFits(d))'
  BY SMTT(30)
<1>4. PendingIsDeliverable'
  BY SMTT(30)
<1>5. OneActiveAttempt' /\ OneAgent' /\ DegradedIsParked'
  BY SMTT(30)
<1>6. AttemptsAreLimited'
  BY SMTT(30)
<1> QED
  BY <1>1, <1>2, <1>3, <1>4, <1>5, <1>6

LEMMA ApplyWaitInv == ASSUME DecisionInv, ApplyWait PROVE DecisionInv'
<1> USE DEF ApplyWait, SettleOrFail, Settle, DecisionInv
<1>1. TypeOK'
  BY SMTT(30)
<1>2. HandFits'
  BY SMTT(30)
<1>3. ASSUME NEW d \in Cycles
      PROVE (AttemptFits(d) /\ RunFits(d) /\ EventFits(d))'
  BY SMTT(30)
<1>4. PendingIsDeliverable'
  BY SMTT(30)
<1>5. OneActiveAttempt' /\ OneAgent' /\ DegradedIsParked'
  BY SMTT(30)
<1>6. AttemptsAreLimited'
  BY SMTT(30)
<1> QED
  BY <1>1, <1>2, <1>3, <1>4, <1>5, <1>6

LEMMA AdmitProposalInv == ASSUME DecisionInv, AdmitProposal PROVE DecisionInv'
<1> USE DEF AdmitProposal, DecisionInv
<1>1. TypeOK'
  BY SMTT(30)
<1>2. HandFits'
  BY SMTT(30)
<1>3. ASSUME NEW d \in Cycles
      PROVE (AttemptFits(d) /\ RunFits(d) /\ EventFits(d))'
  BY SMTT(30)
<1>4. PendingIsDeliverable'
  BY SMTT(30)
<1>5. OneActiveAttempt' /\ OneAgent' /\ DegradedIsParked'
  BY SMTT(30)
<1>6. AttemptsAreLimited'
  BY SMTT(30)
<1> QED
  BY <1>1, <1>2, <1>3, <1>4, <1>5, <1>6

LEMMA DeferApplyInv == ASSUME DecisionInv, DeferApply PROVE DecisionInv'
<1> USE DEF DeferApply, Setback, DecisionInv
<1>1. TypeOK'
  BY SMTT(30)
<1>2. HandFits'
  BY SMTT(30)
<1>3. ASSUME NEW d \in Cycles
      PROVE (AttemptFits(d) /\ RunFits(d) /\ EventFits(d))'
  BY SMTT(30)
<1>4. PendingIsDeliverable'
  BY SMTT(30)
<1>5. OneActiveAttempt' /\ OneAgent' /\ DegradedIsParked'
  BY SMTT(30)
<1>6. AttemptsAreLimited'
  BY SMTT(30)
<1> QED
  BY <1>1, <1>2, <1>3, <1>4, <1>5, <1>6

LEMMA MarkCompletedInv == ASSUME DecisionInv, MarkCompleted PROVE DecisionInv'
<1> USE DEF MarkCompleted, SettleOrFail, Settle, DecisionInv
<1>1. TypeOK'
  BY SMTT(30)
<1>2. HandFits'
  BY SMTT(30)
<1>3. ASSUME NEW d \in Cycles
      PROVE (AttemptFits(d) /\ RunFits(d) /\ EventFits(d))'
  BY SMTT(30)
<1>4. PendingIsDeliverable'
  BY SMTT(30)
<1>5. OneActiveAttempt' /\ OneAgent' /\ DegradedIsParked'
  BY SMTT(30)
<1>6. AttemptsAreLimited'
  BY SMTT(30)
<1> QED
  BY <1>1, <1>2, <1>3, <1>4, <1>5, <1>6

LEMMA ClaimGoalInv == ASSUME DecisionInv, ClaimGoal PROVE DecisionInv'
<1> USE DEF ClaimGoal, Settle, DecisionInv
<1>1. TypeOK'
  BY SMTT(30)
<1>2. HandFits'
  BY SMTT(30)
<1>3. ASSUME NEW d \in Cycles
      PROVE (AttemptFits(d) /\ RunFits(d) /\ EventFits(d))'
  BY SMTT(30)
<1>4. PendingIsDeliverable'
  BY SMTT(30)
<1>5. OneActiveAttempt' /\ OneAgent' /\ DegradedIsParked'
  BY SMTT(30)
<1>6. AttemptsAreLimited'
  BY SMTT(30)
<1> QED
  BY <1>1, <1>2, <1>3, <1>4, <1>5, <1>6

LEMMA RejectDecisionInv == ASSUME DecisionInv, RejectDecision PROVE DecisionInv'
<1> USE DEF RejectDecision, FailAttempt, DegradedFrom, Reopened, DecisionInv
<1>1. TypeOK'
  BY SMTT(30)
<1>2. HandFits'
  BY SMTT(30)
<1>3. ASSUME NEW d \in Cycles
      PROVE (AttemptFits(d) /\ RunFits(d) /\ EventFits(d))'
  BY SMTT(30)
<1>4. PendingIsDeliverable'
  BY SMTT(30)
<1>5. OneActiveAttempt' /\ OneAgent' /\ DegradedIsParked'
  BY SMTT(30)
<1>6. AttemptsAreLimited'
  BY SMTT(30)
<1> QED
  BY <1>1, <1>2, <1>3, <1>4, <1>5, <1>6

LEMMA WakeCycleInv == ASSUME NEW c \in Cycles, DecisionInv, WakeCycle(c) PROVE DecisionInv'
<1> USE DEF WakeCycle, InRound, Idle, AllRecovered, DecisionInv
<1>1. TypeOK'
  BY SMTT(30)
<1>2. HandFits'
  BY SMTT(30)
<1>3. ASSUME NEW d \in Cycles
      PROVE (AttemptFits(d) /\ RunFits(d) /\ EventFits(d))'
  BY SMTT(30)
<1>4. PendingIsDeliverable'
  BY SMTT(30)
<1>5. OneActiveAttempt' /\ OneAgent' /\ DegradedIsParked'
  BY SMTT(30)
<1>6. AttemptsAreLimited'
  BY SMTT(30)
<1> QED
  BY <1>1, <1>2, <1>3, <1>4, <1>5, <1>6

LEMMA WakeCampaignInv == ASSUME DecisionInv, WakeCampaign PROVE DecisionInv'
<1> USE DEF WakeCampaign, InRound, Idle, AllRecovered, DecisionInv
<1>1. TypeOK'
  BY SMTT(30)
<1>2. HandFits'
  BY SMTT(30)
<1>3. ASSUME NEW d \in Cycles
      PROVE (AttemptFits(d) /\ RunFits(d) /\ EventFits(d))'
  BY SMTT(30)
<1>4. PendingIsDeliverable'
  BY SMTT(30)
<1>5. OneActiveAttempt' /\ OneAgent' /\ DegradedIsParked'
  BY SMTT(30)
<1>6. AttemptsAreLimited'
  BY SMTT(30)
<1> QED
  BY <1>1, <1>2, <1>3, <1>4, <1>5, <1>6

----------------------------------------------------------------------------
(* The invariant and what follows from it.                                 *)

LEMMA NextInv == DecisionInv /\ [Next]_vars => DecisionInv'
<1> SUFFICES ASSUME DecisionInv, [Next]_vars PROVE DecisionInv'
  OBVIOUS
<1>1. CASE Operator
  BY <1>1, PauseInv, ResumeInv, RetireInv, RejectReviewInv DEF Operator
<1>2. CASE Continue
  BY <1>2, DeferBatchInv, ConfigUnreadableInv, ReserveInv, StoreEvidenceInv,
     ChargeBudgetInv, RequeueInv, DeferRequeuedInv, FailBeforeRunInv,
     InsertRunInv, BindRunInv, FailToBindInv, LaunchInv, FailLaunchInv,
     FinalizeLaunchInv, FinalizeOutcomeInv, ApplyWaitInv, AdmitProposalInv,
     DeferApplyInv, MarkCompletedInv, ClaimGoalInv, RejectDecisionInv DEF Continue
<1>3. CASE Recover
  BY <1>3, RecoverUnboundInv, RecoverLostOutputInv DEF Recover
<1>4. CASE Crash
  BY <1>4, CrashInv
<1>5. CASE Restart
  BY <1>5, RestartInv
<1>6. CASE WakeCampaign
  BY <1>6, WakeCampaignInv
<1>7. CASE \E b \in SUBSET Cycles : Claim(b)
  BY <1>7, ClaimInv
<1>8. ASSUME NEW c \in Cycles, Publish(c) \/ LapseClaim(c) \/ EndAgent(c)
                         \/ BeginApply(c) \/ WakeCycle(c)
     PROVE DecisionInv'
  BY <1>8, PublishInv, LapseClaimInv, StoreDecisionInv, MissDecisionInv,
     BeginApplyInv, WakeCycleInv DEF EndAgent
<1>9. CASE UNCHANGED vars
  BY <1>9, StutterInv
<1> QED
  BY <1>1, <1>2, <1>3, <1>4, <1>5, <1>6, <1>7, <1>8, <1>9 DEF Next

\* The rows of a cycle fit each other and the daemon's place after every step,
\* for any number of cycles, crashes, faults and setbacks.
THEOREM DecisionInvariant == Spec => []DecisionInv
<1>1. Init => DecisionInv
  BY InitInv
<1>2. DecisionInv /\ [Next]_vars => DecisionInv'
  BY NextInv
<1> QED
  BY <1>1, <1>2, PTL DEF Spec

\* At most one attempt of the campaign is reserved, prepared or running.
THEOREM OneActiveAttemptTheorem == Spec => []OneActiveAttempt
<1>1. DecisionInv => OneActiveAttempt
  BY DEF DecisionInv
<1> QED
  BY <1>1, DecisionInvariant, PTL

\* Recovery and wake always find an event they accept.
THEOREM RecoveryNeverRefusesTheorem == Spec => []RecoveryNeverRefuses
<1>1. DecisionInv => RecoveryNeverRefuses
  BY SMTT(30) DEF DecisionInv, RecoveryNeverRefuses, Idle
<1> QED
  BY <1>1, DecisionInvariant, PTL

\* A pending cycle keeps an event that is delivered, unless one of the two
\* named accidents lost it.
THEOREM PendingIsDeliverableTheorem == Spec => []PendingIsDeliverable
<1>1. DecisionInv => PendingIsDeliverable
  BY DEF DecisionInv
<1> QED
  BY <1>1, DecisionInvariant, PTL

\* No cycle is asked more often in a row than its limit allows.
THEOREM AttemptsAreLimitedTheorem == Spec => []AttemptsAreLimited
<1>1. DecisionInv => AttemptsAreLimited
  BY DEF DecisionInv
<1> QED
  BY <1>1, DecisionInvariant, PTL

\* An exhausted cycle keeps its campaign from running until it is retired.
THEOREM DegradedIsParkedTheorem == Spec => []DegradedIsParked
<1>1. DecisionInv => DegradedIsParked
  BY DEF DecisionInv
<1> QED
  BY <1>1, DecisionInvariant, PTL
----------------------------------------------------------------------------
(* The refinement of CycleDelivery: what the steps have in common.         *)

stages == [c \in Cycles |-> StageOf(c)]

DeliveryStep ==
    \/ Delivery!CycleNext
    \/ UNCHANGED <<stages, fails, Acting, campaign = "active">>

LEMMA StagesKept ==
    ASSUME \A c \in Cycles : StageOf(c)' = StageOf(c)
    PROVE  UNCHANGED stages
BY DEF stages

LEMMA RowsKeepStages ==
    ASSUME UNCHANGED <<cycle, att>>
    PROVE  UNCHANGED stages
<1>1. \A c \in Cycles : StageOf(c)' = StageOf(c)
  BY DEF StageOf
<1> QED
  BY <1>1, StagesKept

LEMMA ActingKept ==
    ASSUME \A c \in Cycles : event'[c] = "dispatched" <=> event[c] = "dispatched"
    PROVE  UNCHANGED Acting
BY DEF Acting

LEMMA TurnOne ==
    ASSUME NEW c \in Cycles, NEW p, NEW q, StageOf(c) = p, StageOf(c)' = q,
           \A d \in Cycles \ {c} : cycle'[d] = cycle[d] /\ att'[d] = att[d]
    PROVE  Delivery!Turn(c, p, q)
<1>1. \A d \in Cycles \ {c} : StageOf(d)' = StageOf(d)
  BY DEF StageOf
<1>2. stages[c] = p /\ stages' = [stages EXCEPT ![c] = q]
  BY <1>1 DEF stages
<1> QED
  BY <1>2 DEF Delivery!Turn, stages

\* Steps that touch neither cycles nor attempts nor released runs.
LEMMA QuietStep ==
    ASSUME UNCHANGED <<cycle, att, fails>>, UNCHANGED (campaign = "active"),
           \A c \in Cycles : event'[c] = "dispatched" <=> event[c] = "dispatched"
    PROVE  DeliveryStep
BY RowsKeepStages, ActingKept DEF DeliveryStep

LEMMA SwitchStep ==
    ASSUME UNCHANGED <<cycle, att, fails>>,
           campaign' = "active" => \A c \in Cycles : cycle[c] # "degraded",
           \A c \in Cycles : event'[c] = "dispatched" <=> event[c] = "dispatched"
    PROVE  DeliveryStep
<1>1. campaign' = "active" => \A c \in Cycles : StageOf(c) # "given up"
  BY DEF StageOf
<1>2. campaign' = "active" => \A c \in Cycles : [d \in Cycles |-> StageOf(d)][c] # "given up"
  BY <1>1
<1>3. UNCHANGED <<stages, fails, Acting>>
  BY RowsKeepStages, ActingKept
<1>4. Delivery!Switch
  BY <1>2, <1>3 DEF Delivery!Switch, stages
<1> QED
  BY <1>4 DEF DeliveryStep, Delivery!CycleNext

\* An attempt that was prepared and not asked goes back.
LEMMA GiveBackStep ==
    ASSUME DecisionInv, NEW c \in Cycles, Unbound(c), Unreserve(c),
           campaign' \in {campaign, "budget_waiting"},
           \A d \in Cycles : event'[d] = "dispatched" <=> event[d] = "dispatched"
    PROVE  DeliveryStep
<1>1. Delivery!Turn(c, "prepared", "open")
  <2>1. StageOf(c) = "prepared" /\ StageOf(c)' = "open"
    BY DEF StageOf, Unreserve, DecisionInv
  <2>2. \A d \in Cycles \ {c} : cycle'[d] = cycle[d] /\ att'[d] = att[d]
    BY DEF Unreserve, DecisionInv
  <2> QED
    BY <2>1, <2>2, TurnOne
<1>2. (campaign = "active")' \in {campaign = "active", FALSE}
  OBVIOUS
<1>3. UNCHANGED <<fails, Acting>>
  BY ActingKept DEF Unreserve
<1>4. Delivery!GiveBack(c)
  BY <1>1, <1>2, <1>3 DEF Delivery!GiveBack
<1> QED
  BY <1>4 DEF DeliveryStep, Delivery!CycleNext

\* A failed attempt is counted, and the last one ends the cycle.
LEMMA FailStep ==
    ASSUME DecisionInv, NEW c \in Cycles, cycle[c] = "analyzing", FailAttempt(c),
           att[c] = "running" \/ (att[c] = "decided" /\ event[c] # "dispatched")
    PROVE  DeliveryStep
<1> DEFINE p == IF att[c] = "running" THEN "asked" ELSE "answered"
           q == IF fails[c] + 1 >= MaxAttempts THEN "given up" ELSE "open"
<1>1. StageOf(c) = p /\ stages[c] = p
  BY DEF StageOf, stages
<1>2. Delivery!Turn(c, p, q)
  <2>1. StageOf(c)' = q
    BY DEF StageOf, FailAttempt, DecisionInv
  <2>2. \A d \in Cycles \ {c} : cycle'[d] = cycle[d] /\ att'[d] = att[d]
    BY DEF FailAttempt, DecisionInv
  <2> QED
    BY <1>1, <2>1, <2>2, TurnOne
<1>3. UNCHANGED Acting
  <2>1. \A d \in Cycles : event'[d] = "dispatched" <=> event[d] = "dispatched"
    BY DEF FailAttempt, Reopened, DecisionInv
  <2> QED
    BY <2>1, ActingKept
<1>4. fails' = [fails EXCEPT ![c] = @ + 1] /\ fails'[c] = fails[c] + 1
  BY DEF FailAttempt, DecisionInv
<1>5. IF fails[c] + 1 >= MaxAttempts THEN (campaign = "active")' = FALSE
      ELSE UNCHANGED (campaign = "active")
  BY DEF FailAttempt, DegradedFrom
<1>6. p = "asked" \/ (p = "answered" /\ c \notin Acting)
  BY DEF Acting
<1>7. Delivery!Fail(c)
  <2> HIDE DEF p
  <2> QED
    BY <1>1, <1>2, <1>3, <1>4, <1>5, <1>6 DEF Delivery!Fail, stages
<1> QED
  BY <1>7 DEF DeliveryStep, Delivery!CycleNext

\* An answer is used.
LEMMA CloseStep ==
    ASSUME DecisionInv, NEW c \in Cycles, NEW s \in {"waiting", "completed"},
           campaign = "active", cycle[c] = "analyzing", att[c] = "decided",
           event[c] # "dispatched", Settle(c, s), UNCHANGED event
    PROVE  DeliveryStep
<1> DEFINE q == IF s = "waiting" THEN "waiting" ELSE "done"
<1>1. Delivery!Turn(c, "answered", q)
  <2>1. StageOf(c) = "answered" /\ StageOf(c)' = q
    BY DEF StageOf, Settle, DecisionInv
  <2>2. \A d \in Cycles \ {c} : cycle'[d] = cycle[d] /\ att'[d] = att[d]
    BY DEF Settle, DecisionInv
  <2> QED
    BY <2>1, <2>2, TurnOne
<1>2. (campaign = "active")' \in {campaign = "active", FALSE}
  BY Zenon
<1>3. UNCHANGED Acting /\ fails' = [fails EXCEPT ![c] = 0]
  BY ActingKept DEF Settle
<1>4. c \notin Acting
  BY DEF Acting
<1>5. Delivery!Turn(c, "answered", "waiting") \/ Delivery!Turn(c, "answered", "done")
  BY <1>1
<1>6. Delivery!Close(c)
  BY <1>2, <1>3, <1>4, <1>5 DEF Delivery!Close
<1> QED
  BY <1>6 DEF DeliveryStep, Delivery!CycleNext

\* The run of a failed attempt is finished: its agent is over, and the cycle
\* is given up when nobody knows what the agent did.
LEMMA ResolveStep ==
    ASSUME DecisionInv, NEW c \in Cycles, agent[c] = "active",
           cycle[c] \in {"pending", "degraded"},
           NEW unknown \in BOOLEAN, ResolveFailed(c, unknown)
    PROVE  DeliveryStep
<1>1. Acting \subseteq {c} /\ Acting' = {}
  <2>1. \A d \in Cycles \ {c} : event[d] # "dispatched" /\ event'[d] = event[d]
    BY DEF ResolveFailed, DecisionInv
  <2>2. event'[c] # "dispatched"
    BY DEF ResolveFailed, DecisionInv
  <2> QED
    BY <2>1, <2>2 DEF Acting
<1>2. CASE cycle'[c] = cycle[c]
  <2>1. UNCHANGED <<cycle, att, fails>>
    BY <1>2, SMTT(30) DEF ResolveFailed, DecisionInv
  <2>2. UNCHANGED (campaign = "active")
    BY <1>2, SMTT(30) DEF ResolveFailed, DegradedFrom, DecisionInv
  <2>3. Delivery!AgentEnds
    BY <1>1, <2>1, <2>2, RowsKeepStages DEF Delivery!AgentEnds, stages
  <2> QED
    BY <2>3 DEF DeliveryStep, Delivery!CycleNext
<1>3. CASE cycle'[c] # cycle[c]
  <2>1. cycle[c] = "pending" /\ cycle'[c] = "degraded"
    BY <1>3 DEF ResolveFailed, DecisionInv
  <2>2. Delivery!Turn(c, "open", "given up")
    <3>1. StageOf(c) = "open" /\ StageOf(c)' = "given up"
      BY <2>1 DEF StageOf
    <3>2. \A d \in Cycles \ {c} : cycle'[d] = cycle[d] /\ att'[d] = att[d]
      BY DEF ResolveFailed, DecisionInv
    <3> QED
      BY <3>1, <3>2, TurnOne
  <2>3. (campaign = "active")' = FALSE
    BY <2>1 DEF ResolveFailed, DegradedFrom
  <2>4. Delivery!GiveUp(c)
    BY <1>1, <2>2, <2>3 DEF Delivery!GiveUp, ResolveFailed
  <2> QED
    BY <2>4 DEF DeliveryStep, Delivery!CycleNext
<1> QED
  BY <1>2, <1>3
----------------------------------------------------------------------------
(* The refinement: one lemma per action or group of actions.               *)

LEMMA DeferBatchDelivers == ASSUME DecisionInv, DeferBatch PROVE DeliveryStep
<1>1. UNCHANGED <<cycle, att, fails>> /\ UNCHANGED (campaign = "active")
  BY SMTT(30) DEF DeferBatch, DecisionInv
<1>2. \A d \in Cycles : event'[d] = "dispatched" <=> event[d] = "dispatched"
  BY SMTT(30) DEF DeferBatch, DecisionInv
<1> QED
  BY <1>1, <1>2, QuietStep

LEMMA ConfigUnreadableDelivers == ASSUME DecisionInv, ConfigUnreadable PROVE DeliveryStep
<1>1. UNCHANGED <<cycle, att, fails>> /\ UNCHANGED (campaign = "active")
  BY SMTT(30) DEF ConfigUnreadable, DecisionInv
<1>2. \A d \in Cycles : event'[d] = "dispatched" <=> event[d] = "dispatched"
  BY SMTT(30) DEF ConfigUnreadable, DecisionInv
<1> QED
  BY <1>1, <1>2, QuietStep

LEMMA ChargeBudgetDelivers == ASSUME DecisionInv, ChargeBudget PROVE DeliveryStep
<1>1. UNCHANGED <<cycle, att, fails>> /\ UNCHANGED (campaign = "active")
  BY SMTT(30) DEF ChargeBudget, DecisionInv
<1>2. \A d \in Cycles : event'[d] = "dispatched" <=> event[d] = "dispatched"
  BY SMTT(30) DEF ChargeBudget, DecisionInv
<1> QED
  BY <1>1, <1>2, QuietStep

LEMMA DeferRequeuedDelivers == ASSUME DecisionInv, DeferRequeued PROVE DeliveryStep
<1>1. UNCHANGED <<cycle, att, fails>> /\ UNCHANGED (campaign = "active")
  BY SMTT(30) DEF DeferRequeued, DecisionInv
<1>2. \A d \in Cycles : event'[d] = "dispatched" <=> event[d] = "dispatched"
  BY SMTT(30) DEF DeferRequeued, DecisionInv
<1> QED
  BY <1>1, <1>2, QuietStep

LEMMA InsertRunDelivers == ASSUME DecisionInv, InsertRun PROVE DeliveryStep
<1>1. UNCHANGED <<cycle, att, fails>> /\ UNCHANGED (campaign = "active")
  BY SMTT(30) DEF InsertRun, DecisionInv
<1>2. \A d \in Cycles : event'[d] = "dispatched" <=> event[d] = "dispatched"
  BY SMTT(30) DEF InsertRun, DecisionInv
<1> QED
  BY <1>1, <1>2, QuietStep

LEMMA BeginApplyDelivers == ASSUME NEW c \in Cycles, DecisionInv, BeginApply(c) PROVE DeliveryStep
<1>1. UNCHANGED <<cycle, att, fails>> /\ UNCHANGED (campaign = "active")
  BY SMTT(30) DEF BeginApply, DecisionInv
<1>2. \A d \in Cycles : event'[d] = "dispatched" <=> event[d] = "dispatched"
  BY SMTT(30) DEF BeginApply, DecisionInv
<1> QED
  BY <1>1, <1>2, QuietStep

LEMMA AdmitProposalDelivers == ASSUME DecisionInv, AdmitProposal PROVE DeliveryStep
<1>1. UNCHANGED <<cycle, att, fails>> /\ UNCHANGED (campaign = "active")
  BY SMTT(30) DEF AdmitProposal, DecisionInv
<1>2. \A d \in Cycles : event'[d] = "dispatched" <=> event[d] = "dispatched"
  BY SMTT(30) DEF AdmitProposal, DecisionInv
<1> QED
  BY <1>1, <1>2, QuietStep

LEMMA CrashDelivers == ASSUME DecisionInv, Crash PROVE DeliveryStep
<1>1. UNCHANGED <<cycle, att, fails>> /\ UNCHANGED (campaign = "active")
  BY SMTT(30) DEF Crash, DecisionInv
<1>2. \A d \in Cycles : event'[d] = "dispatched" <=> event[d] = "dispatched"
  BY SMTT(30) DEF Crash, DecisionInv
<1> QED
  BY <1>1, <1>2, QuietStep

LEMMA ClaimDelivers == ASSUME NEW b \in SUBSET Cycles, DecisionInv, Claim(b) PROVE DeliveryStep
<1>1. UNCHANGED <<cycle, att, fails>> /\ UNCHANGED (campaign = "active")
  BY SMTT(30) DEF Claim, DecisionInv
<1>2. \A d \in Cycles : event'[d] = "dispatched" <=> event[d] = "dispatched"
  BY SMTT(30) DEF Claim, DecisionInv
<1> QED
  BY <1>1, <1>2, QuietStep

LEMMA LapseClaimDelivers == ASSUME NEW c \in Cycles, DecisionInv, LapseClaim(c) PROVE DeliveryStep
<1>1. UNCHANGED <<cycle, att, fails>> /\ UNCHANGED (campaign = "active")
  BY SMTT(30) DEF LapseClaim, DecisionInv
<1>2. \A d \in Cycles : event'[d] = "dispatched" <=> event[d] = "dispatched"
  BY SMTT(30) DEF LapseClaim, DecisionInv
<1> QED
  BY <1>1, <1>2, QuietStep

LEMMA PauseDelivers == ASSUME DecisionInv, Pause PROVE DeliveryStep
<1>1. UNCHANGED <<cycle, att, fails>>
  BY DEF Pause
<1>2. campaign' = "active" => \A d \in Cycles : cycle[d] # "degraded"
  BY SMTT(30) DEF Pause, DecisionInv
<1>3. \A d \in Cycles : event'[d] = "dispatched" <=> event[d] = "dispatched"
  BY SMTT(30) DEF Pause, DecisionInv
<1> QED
  BY <1>1, <1>2, <1>3, SwitchStep

LEMMA ResumeDelivers == ASSUME DecisionInv, Resume PROVE DeliveryStep
<1>1. UNCHANGED <<cycle, att, fails>>
  BY DEF Resume, ResumedState
<1>2. campaign' = "active" => \A d \in Cycles : cycle[d] # "degraded"
  BY SMTT(30) DEF Resume, ResumedState, DecisionInv
<1>3. \A d \in Cycles : event'[d] = "dispatched" <=> event[d] = "dispatched"
  BY SMTT(30) DEF Resume, ResumedState, DecisionInv
<1> QED
  BY <1>1, <1>2, <1>3, SwitchStep

LEMMA RetireDelivers == ASSUME DecisionInv, Retire PROVE DeliveryStep
<1>1. UNCHANGED <<cycle, att, fails>>
  BY DEF Retire
<1>2. campaign' = "active" => \A d \in Cycles : cycle[d] # "degraded"
  BY SMTT(30) DEF Retire, DecisionInv
<1>3. \A d \in Cycles : event'[d] = "dispatched" <=> event[d] = "dispatched"
  BY SMTT(30) DEF Retire, DecisionInv
<1> QED
  BY <1>1, <1>2, <1>3, SwitchStep

LEMMA RejectReviewDelivers == ASSUME DecisionInv, RejectReview PROVE DeliveryStep
<1>1. PICK c \in Cycles : Claimants = {c} /\ event' = [event EXCEPT ![c] = "dead_letter"]
  BY DEF RejectReview
<1>2. event[c] = "completed"
  BY <1>1 DEF Claimants
<1>3. UNCHANGED <<cycle, att, fails>>
  BY DEF RejectReview
<1>4. \A d \in Cycles : cycle[d] # "degraded"
  BY DEF RejectReview, DecisionInv
<1>5. \A d \in Cycles : event'[d] = "dispatched" <=> event[d] = "dispatched"
  BY <1>1, <1>2 DEF DecisionInv
<1> QED
  BY <1>3, <1>4, <1>5, SwitchStep

LEMMA DeferApplyDelivers == ASSUME DecisionInv, DeferApply PROVE DeliveryStep
<1>1. UNCHANGED <<cycle, att, fails>>
  BY DEF DeferApply
<1>2. campaign' = "active" => \A d \in Cycles : cycle[d] # "degraded"
  BY SMTT(30) DEF DeferApply, DecisionInv
<1>3. \A d \in Cycles : event'[d] = "dispatched" <=> event[d] = "dispatched"
  BY SMTT(30) DEF DeferApply, DecisionInv
<1> QED
  BY <1>1, <1>2, <1>3, SwitchStep

LEMMA WakeCampaignDelivers == ASSUME DecisionInv, WakeCampaign PROVE DeliveryStep
<1>1. UNCHANGED <<cycle, att, fails>>
  BY DEF WakeCampaign
<1>2. campaign' = "active" => \A d \in Cycles : cycle[d] # "degraded"
  BY SMTT(30) DEF WakeCampaign, DecisionInv
<1>3. \A d \in Cycles : event'[d] = "dispatched" <=> event[d] = "dispatched"
  BY SMTT(30) DEF WakeCampaign, DecisionInv
<1> QED
  BY <1>1, <1>2, <1>3, SwitchStep

LEMMA StoreEvidenceDelivers == ASSUME DecisionInv, StoreEvidence PROVE DeliveryStep
<1>1. ASSUME NEW d \in Cycles PROVE StageOf(d)' = StageOf(d)
  <2>1. CASE d = cur
    BY <2>1, SMTT(30) DEF StoreEvidence, StageOf, DecisionInv
  <2>2. CASE d # cur
    BY <2>2, SMTT(30) DEF StoreEvidence, StageOf, DecisionInv
  <2> QED
    BY <2>1, <2>2
<1>2. UNCHANGED <<fails, Acting, campaign>>
  BY ActingKept DEF StoreEvidence
<1> QED
  BY <1>1, <1>2, StagesKept DEF DeliveryStep

LEMMA PublishDelivers == ASSUME NEW c \in Cycles, DecisionInv, Publish(c) PROVE DeliveryStep
<1>1. Delivery!Turn(c, "absent", "open")
  <2>1. StageOf(c) = "absent" /\ StageOf(c)' = "open"
    BY DEF Publish, StageOf, DecisionInv
  <2>2. \A d \in Cycles \ {c} : cycle'[d] = cycle[d] /\ att'[d] = att[d]
    BY DEF Publish, DecisionInv
  <2> QED
    BY <2>1, <2>2, TurnOne
<1>2. \A d \in Cycles : d < c => stages[d] # "absent"
  <2>1. \A d \in Cycles : d < c => StageOf(d) # "absent"
    BY SMTT(30) DEF Publish, StageOf
  <2> QED
    BY <2>1 DEF stages
<1>3. UNCHANGED Acting
  <2>1. \A d \in Cycles : event'[d] = "dispatched" <=> event[d] = "dispatched"
    BY DEF Publish, DecisionInv
  <2> QED
    BY <2>1, ActingKept
<1>4. Delivery!Open(c)
  BY <1>1, <1>2, <1>3 DEF Delivery!Open, Publish, stages
<1> QED
  BY <1>4 DEF DeliveryStep, Delivery!CycleNext

LEMMA ReserveDelivers == ASSUME NEW c \in Cycles, DecisionInv, Reserve(c) PROVE DeliveryStep
<1>1. Delivery!Turn(c, "open", "prepared")
  <2>1. StageOf(c) = "open" /\ StageOf(c)' = "prepared"
    BY DEF Reserve, Dispatchable, Oldest, StageOf, DecisionInv
  <2>2. \A d \in Cycles \ {c} : cycle'[d] = cycle[d] /\ att'[d] = att[d]
    BY DEF Reserve, DecisionInv
  <2> QED
    BY <2>1, <2>2, TurnOne
<1>2. \A d \in Cycles : stages[d] \notin {"prepared", "asked"}
  <2>1. \A d \in Cycles : StageOf(d) \notin {"prepared", "asked"}
    BY SMTT(30) DEF Reserve, Dispatchable, Oldest, NoOtherAttempt, StageOf, DecisionInv
  <2> QED
    BY <2>1 DEF stages
<1>3. \A d \in Cycles : stages[d] = "open" => c <= d
  <2>1. \A d \in Cycles : StageOf(d) = "open" => cycle[d] = "pending"
    BY DEF StageOf
  <2>2. \A d \in Cycles : StageOf(d) = "open" => c <= d
    BY <2>1 DEF Reserve, Dispatchable, Oldest
  <2> QED
    BY <2>2 DEF stages
<1>4. Acting = {} /\ UNCHANGED Acting
  <2>1. \A d \in Cycles : event[d] # "dispatched"
    BY DEF Reserve, Dispatchable, NoActiveAgent, DecisionInv
  <2>2. \A d \in Cycles : event'[d] # "dispatched"
    BY <2>1 DEF Reserve, DecisionInv
  <2> QED
    BY <2>1, <2>2 DEF Acting
<1>5. Delivery!Prepare(c)
  BY <1>1, <1>2, <1>3, <1>4 DEF Delivery!Prepare, Reserve, Dispatchable, stages
<1> QED
  BY <1>5 DEF DeliveryStep, Delivery!CycleNext

LEMMA RecoverUnboundDelivers == ASSUME NEW c \in Cycles, DecisionInv, RecoverUnbound(c) PROVE DeliveryStep
<1>1. Unbound(c) /\ Unreserve(c) /\ campaign' \in {campaign, "budget_waiting"}
  BY DEF RecoverUnbound, DecisionInv
<1>2. \A d \in Cycles : event'[d] = "dispatched" <=> event[d] = "dispatched"
  BY SMTT(30) DEF RecoverUnbound, DecisionInv
<1> QED
  BY <1>1, <1>2, GiveBackStep

LEMMA RequeueDelivers == ASSUME DecisionInv, Requeue PROVE DeliveryStep
<1> PICK c \in Cycles : c = cur
  BY DEF DecisionInv
<1>1. Unbound(c) /\ Unreserve(c) /\ campaign' \in {campaign, "budget_waiting"}
  BY DEF Requeue, DecisionInv
<1>2. \A d \in Cycles : event'[d] = "dispatched" <=> event[d] = "dispatched"
  BY SMTT(30) DEF Requeue, DecisionInv
<1> QED
  BY <1>1, <1>2, GiveBackStep

LEMMA FailBeforeRunDelivers == ASSUME DecisionInv, FailBeforeRun PROVE DeliveryStep
<1> PICK c \in Cycles : c = cur
  BY DEF DecisionInv
<1>1. Unbound(c) /\ Unreserve(c) /\ campaign' \in {campaign, "budget_waiting"}
  BY DEF FailBeforeRun, DecisionInv
<1>2. \A d \in Cycles : event'[d] = "dispatched" <=> event[d] = "dispatched"
  BY SMTT(30) DEF FailBeforeRun, DecisionInv
<1> QED
  BY <1>1, <1>2, GiveBackStep

LEMMA FailToBindDelivers == ASSUME DecisionInv, FailToBind PROVE DeliveryStep
<1> PICK c \in Cycles : c = cur
  BY DEF DecisionInv
<1>1. Unbound(c) /\ Unreserve(c) /\ campaign' \in {campaign, "budget_waiting"}
  BY DEF FailToBind, DecisionInv
<1>2. \A d \in Cycles : event'[d] = "dispatched" <=> event[d] = "dispatched"
  BY SMTT(30) DEF FailToBind, DecisionInv
<1> QED
  BY <1>1, <1>2, GiveBackStep

LEMMA BindRunDelivers == ASSUME DecisionInv, BindRun PROVE DeliveryStep
<1> PICK c \in Cycles : c = cur
  BY DEF DecisionInv
<1>1. Delivery!Turn(c, "prepared", "asked")
  <2>1. StageOf(c) = "prepared" /\ StageOf(c)' = "asked"
    BY DEF BindRun, StageOf, DecisionInv
  <2>2. \A d \in Cycles \ {c} : cycle'[d] = cycle[d] /\ att'[d] = att[d]
    BY DEF BindRun, DecisionInv
  <2> QED
    BY <2>1, <2>2, TurnOne
<1>2. UNCHANGED <<fails, Acting, campaign>>
  BY ActingKept DEF BindRun
<1>3. Delivery!Ask(c)
  BY <1>1, <1>2 DEF Delivery!Ask
<1> QED
  BY <1>3 DEF DeliveryStep, Delivery!CycleNext

LEMMA LaunchDelivers == ASSUME DecisionInv, Launch PROVE DeliveryStep
<1> PICK c \in Cycles : c = cur
  BY DEF DecisionInv
<1>1. stages[c] = "asked"
  BY DEF Launch, StageOf, stages, DecisionInv
<1>2. Acting = {} /\ Acting' = {c}
  <2>1. \A d \in Cycles \ {c} : event[d] # "dispatched" /\ event'[d] = event[d]
    BY DEF Launch, DecisionInv
  <2>2. event[c] # "dispatched" /\ event'[c] = "dispatched"
    BY DEF Launch, DecisionInv
  <2> QED
    BY <2>1, <2>2 DEF Acting
<1>3. UNCHANGED <<stages, fails, campaign>>
  BY RowsKeepStages DEF Launch
<1>4. Delivery!Act(c)
  BY <1>1, <1>2, <1>3 DEF Delivery!Act, stages
<1> QED
  BY <1>4 DEF DeliveryStep, Delivery!CycleNext

LEMMA RecoverLostOutputDelivers == ASSUME NEW c \in Cycles, DecisionInv, RecoverLostOutput(c) PROVE DeliveryStep
<1>1. cycle[c] = "analyzing" /\ FailAttempt(c)
  BY DEF RecoverLostOutput, DecisionInv
<1>2. att[c] = "running" \/ (att[c] = "decided" /\ event[c] # "dispatched")
  BY SMTT(30) DEF RecoverLostOutput, DecisionInv
<1> QED
  BY <1>1, <1>2, FailStep

LEMMA MissDecisionDelivers == ASSUME NEW c \in Cycles, DecisionInv, MissDecision(c) PROVE DeliveryStep
<1>1. daemon = "up" /\ step = "idle" /\ agent[c] = "active" /\ FailAttempt(c)
  BY DEF MissDecision, Ended, Idle
<1>2. cycle[c] = "analyzing" /\ att[c] = "running"
  BY <1>1, SMTT(30) DEF DecisionInv
<1> QED
  BY <1>1, <1>2, FailStep

LEMMA FailLaunchDelivers == ASSUME DecisionInv, FailLaunch PROVE DeliveryStep
<1> PICK c \in Cycles : c = cur
  BY DEF DecisionInv
<1>1. cycle[c] = "analyzing" /\ FailAttempt(c)
  BY DEF FailLaunch, DecisionInv
<1>2. att[c] = "running" \/ (att[c] = "decided" /\ event[c] # "dispatched")
  BY SMTT(30) DEF FailLaunch, DecisionInv
<1> QED
  BY <1>1, <1>2, FailStep

LEMMA RejectDecisionDelivers == ASSUME DecisionInv, RejectDecision PROVE DeliveryStep
<1> PICK c \in Cycles : c = cur
  BY DEF DecisionInv
<1>1. cycle[c] = "analyzing" /\ FailAttempt(c)
  BY DEF RejectDecision, DecisionInv
<1>2. att[c] = "running" \/ (att[c] = "decided" /\ event[c] # "dispatched")
  BY SMTT(30) DEF RejectDecision, DecisionInv
<1> QED
  BY <1>1, <1>2, FailStep

LEMMA StoreDecisionDelivers == ASSUME NEW c \in Cycles, DecisionInv, StoreDecision(c) PROVE DeliveryStep
<1>1. Delivery!Turn(c, "asked", "answered")
  <2>1. StageOf(c) = "asked" /\ StageOf(c)' = "answered"
    BY DEF StoreDecision, Ended, Idle, StageOf, DecisionInv
  <2>2. \A d \in Cycles \ {c} : cycle'[d] = cycle[d] /\ att'[d] = att[d]
    BY DEF StoreDecision, DecisionInv
  <2> QED
    BY <2>1, <2>2, TurnOne
<1>2. c \in Acting /\ UNCHANGED <<fails, Acting, campaign>>
  BY ActingKept DEF StoreDecision, Ended, Acting
<1>3. Delivery!Answer(c)
  BY <1>1, <1>2 DEF Delivery!Answer
<1> QED
  BY <1>3 DEF DeliveryStep, Delivery!CycleNext

LEMMA SettleOrFailDelivers == ASSUME DecisionInv, NEW s \in {"waiting", "completed"}, SettleOrFail(s), step \in {"applying", "admitted", "admitted_change"}, UNCHANGED <<campaign, event>> PROVE DeliveryStep
<1> PICK c \in Cycles : c = cur
  BY DEF DecisionInv
<1>1. CASE campaign = "active"
  <2>1. Settle(c, s)
    BY <1>1 DEF SettleOrFail
  <2>2. cycle[c] = "analyzing" /\ att[c] = "decided" /\ event[c] # "dispatched"
    BY DEF DecisionInv
  <2> QED
    BY <1>1, <2>1, <2>2, CloseStep
<1>2. CASE campaign # "active"
  BY <1>2, QuietStep DEF SettleOrFail
<1> QED
  BY <1>1, <1>2

LEMMA ApplyWaitDelivers == ASSUME DecisionInv, ApplyWait PROVE DeliveryStep
BY SettleOrFailDelivers DEF ApplyWait

LEMMA MarkCompletedDelivers == ASSUME DecisionInv, MarkCompleted PROVE DeliveryStep
BY SettleOrFailDelivers DEF MarkCompleted

LEMMA ClaimGoalDelivers == ASSUME DecisionInv, ClaimGoal PROVE DeliveryStep
<1> PICK c \in Cycles : c = cur
  BY DEF DecisionInv
<1>1. campaign = "active" /\ Settle(c, "completed") /\ UNCHANGED event
  BY DEF ClaimGoal
<1>2. cycle[c] = "analyzing" /\ att[c] = "decided" /\ event[c] # "dispatched"
  BY DEF ClaimGoal, DecisionInv
<1> QED
  BY <1>1, <1>2, CloseStep

LEMMA WakeCycleDelivers == ASSUME NEW c \in Cycles, DecisionInv, WakeCycle(c) PROVE DeliveryStep
<1>1. Delivery!Turn(c, "waiting", "open")
  <2>1. StageOf(c) = "waiting" /\ StageOf(c)' = "open"
    BY DEF WakeCycle, StageOf, DecisionInv
  <2>2. \A d \in Cycles \ {c} : cycle'[d] = cycle[d] /\ att'[d] = att[d]
    BY DEF WakeCycle, DecisionInv
  <2> QED
    BY <2>1, <2>2, TurnOne
<1>2. UNCHANGED Acting
  <2>1. \A d \in Cycles : event'[d] = "dispatched" <=> event[d] = "dispatched"
    BY DEF WakeCycle, DecisionInv
  <2> QED
    BY <2>1, ActingKept
<1>3. Delivery!Reopen(c)
  BY <1>1, <1>2 DEF Delivery!Reopen, WakeCycle
<1> QED
  BY <1>3 DEF DeliveryStep, Delivery!CycleNext

LEMMA FinalizeLaunchDelivers == ASSUME DecisionInv, FinalizeLaunch PROVE DeliveryStep
<1> PICK c \in Cycles : c = cur
  BY DEF DecisionInv
<1>1. PICK unknown \in BOOLEAN : ResolveFailed(c, unknown)
  BY DEF FinalizeLaunch
<1>2. agent[c] = "active" /\ cycle[c] \in {"pending", "degraded"}
  BY SMTT(30) DEF FinalizeLaunch, DecisionInv
<1> QED
  BY <1>1, <1>2, ResolveStep

LEMMA FinalizeOutcomeDelivers == ASSUME DecisionInv, FinalizeOutcome PROVE DeliveryStep
<1> PICK c \in Cycles : c = cur
  BY DEF DecisionInv
<1>1. CASE att[c] = "decided"
  <2>1. Acting' = {}
    <3>1. \A d \in Cycles \ {c} : event[d] # "dispatched" /\ event'[d] = event[d]
      BY <1>1 DEF FinalizeOutcome, DecisionInv
    <3>2. event'[c] # "dispatched"
      BY <1>1 DEF FinalizeOutcome, DecisionInv
    <3> QED
      BY <3>1, <3>2 DEF Acting
  <2>2. UNCHANGED <<cycle, att, fails, campaign>>
    BY <1>1 DEF FinalizeOutcome
  <2>3. Delivery!AgentEnds
    BY <2>1, <2>2, RowsKeepStages DEF Delivery!AgentEnds, stages
  <2> QED
    BY <2>3 DEF DeliveryStep, Delivery!CycleNext
<1>2. CASE att[c] # "decided"
  <2>1. ResolveFailed(c, FALSE)
    BY <1>2 DEF FinalizeOutcome
  <2>2. agent[c] = "active" /\ cycle[c] \in {"pending", "degraded"}
    BY <1>2, SMTT(30) DEF FinalizeOutcome, DecisionInv
  <2> QED
    BY <2>1, <2>2, ResolveStep
<1> QED
  BY <1>1, <1>2

LEMMA RestartDelivers == ASSUME DecisionInv, Restart PROVE DeliveryStep
<1>1. Acting' = {}
  <2>1. \A d \in Cycles : event'[d] # "dispatched"
    BY SMTT(30) DEF Restart, Interrupted, Recovered, DecisionInv
  <2> QED
    BY <2>1 DEF Acting
<1>2. UNCHANGED <<cycle, att, fails, campaign>>
  BY DEF Restart
<1>3. Delivery!AgentEnds
  BY <1>1, <1>2, RowsKeepStages DEF Delivery!AgentEnds, stages
<1> QED
  BY <1>3 DEF DeliveryStep, Delivery!CycleNext

LEMMA CyclesDeliverStep == ASSUME DecisionInv, [Next]_vars PROVE DeliveryStep
<1>1. CASE Operator
  BY <1>1, PauseDelivers, ResumeDelivers, RetireDelivers, RejectReviewDelivers DEF Operator
<1>2. CASE Continue
  BY <1>2, DeferBatchDelivers, ConfigUnreadableDelivers, ReserveDelivers,
     StoreEvidenceDelivers, ChargeBudgetDelivers, RequeueDelivers,
     DeferRequeuedDelivers, FailBeforeRunDelivers, InsertRunDelivers,
     BindRunDelivers, FailToBindDelivers, LaunchDelivers, FailLaunchDelivers,
     FinalizeLaunchDelivers, FinalizeOutcomeDelivers, ApplyWaitDelivers,
     AdmitProposalDelivers, DeferApplyDelivers, MarkCompletedDelivers,
     ClaimGoalDelivers, RejectDecisionDelivers DEF Continue
<1>3. CASE Recover
  BY <1>3, RecoverUnboundDelivers, RecoverLostOutputDelivers DEF Recover
<1>4. CASE Crash \/ Restart \/ WakeCampaign
  BY <1>4, CrashDelivers, RestartDelivers, WakeCampaignDelivers
<1>5. CASE \E b \in SUBSET Cycles : Claim(b)
  BY <1>5, ClaimDelivers
<1>6. ASSUME NEW c \in Cycles, Publish(c) \/ LapseClaim(c) \/ EndAgent(c)
                         \/ BeginApply(c) \/ WakeCycle(c)
     PROVE DeliveryStep
  BY <1>6, PublishDelivers, LapseClaimDelivers, StoreDecisionDelivers,
     MissDecisionDelivers, BeginApplyDelivers, WakeCycleDelivers DEF EndAgent
<1>7. CASE UNCHANGED vars
  BY <1>7, QuietStep DEF vars
<1> QED
  BY <1>1, <1>2, <1>3, <1>4, <1>5, <1>6, <1>7 DEF Next

\* The transactions on cycles, attempts, events and runs keep the promise of
\* CycleDelivery: an attempt that reached its agent is counted whatever crashes
\* in between, one that did not is given back, one agent acts at a time, and a
\* cycle given up stops the campaign for good.
THEOREM DecisionsImplementDelivery == Spec => CyclesDeliver
<1>1. Init => Delivery!CycleInit
  <2> SUFFICES ASSUME Init PROVE Delivery!CycleInit
    OBVIOUS
  <2>1. \A c \in Cycles : StageOf(c) = "absent" /\ c \notin Acting
    BY DEF Init, StageOf, Acting
  <2>2. Acting = {}
    BY <2>1 DEF Acting
  <2> QED
    BY <2>1, <2>2 DEF Init, Delivery!CycleInit
<1>2. DecisionInv /\ [Next]_vars => [Delivery!CycleNext]_(Delivery!cycleVars)
  BY CyclesDeliverStep DEF DeliveryStep, stages, Delivery!cycleVars
<1> QED
  BY <1>1, <1>2, DecisionInvariant, PTL DEF Spec, CyclesDeliver, Delivery!CycleSpec
============================================================================
