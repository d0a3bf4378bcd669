--------------------- MODULE CodeChangePromotionProofs ---------------------
(***************************************************************************)
(* Proofs about CodeChangePromotion, for any number of checks, writes,     *)
(* moves and crashes.  PromotionInv is inductive: one lemma per action     *)
(* says that it is preserved.  The safety properties follow from it, and   *)
(* with it every step is one of CandidateDelivery's or a stutter.          *)
(***************************************************************************)
EXTENDS CodeChangePromotion, TLAPS

\* The vocabulary of states and places, and the assumptions on the bounds.
USE ChecksAssumption, BoundsAssumption
    DEF Checks, Ends, Values, Outcomes, NoIntent, Early, Kept, Submitted,
        Promoting, Checked, HasProjectCheck, AllPassed, At,
        run, campaigns, git, memory, bounds, history

LEMMA InitInv == ASSUME Init PROVE PromotionInv
<1> USE DEF Init, PromotionInv, TypeOK, PlaceInv, RoundInv, IntentInv
<1>1. /\ ready \in BOOLEAN /\ intact \in BOOLEAN
      /\ onCandidate \in BOOLEAN /\ moved \in BOOLEAN
  BY Zenon
<1> QED
  BY <1>1, SMTT(30)

LEMMA StutterInv == PromotionInv /\ UNCHANGED vars => PromotionInv'
BY SMTT(30) DEF vars, PromotionInv, TypeOK, PlaceInv, RoundInv, IntentInv
----------------------------------------------------------------------------
(* One lemma per action.                                                   *)

LEMMA PrepareInv == ASSUME PromotionInv, Prepare PROVE PromotionInv'
BY SMTT(60) DEF Prepare, MayAdvance, Idle, PromotionInv, TypeOK, PlaceInv,
       RoundInv, IntentInv

LEMMA CreateWorktreeInv == ASSUME PromotionInv, CreateWorktree PROVE PromotionInv'
BY SMTT(60) DEF CreateWorktree, Fail, PromotionInv, TypeOK, PlaceInv,
       RoundInv, IntentInv

LEMMA EnterEditingInv == ASSUME PromotionInv, EnterEditing PROVE PromotionInv'
BY SMTT(60) DEF EnterEditing, PromotionInv, TypeOK, PlaceInv, RoundInv,
       IntentInv

LEMMA BeginRoundInv == ASSUME PromotionInv, BeginRound PROVE PromotionInv'
BY SMTT(60) DEF BeginRound, Retained, MayAdvance, Idle, Fail, PromotionInv,
       TypeOK, PlaceInv, RoundInv, IntentInv

LEMMA VerifyTreeInv == ASSUME PromotionInv, VerifyTree PROVE PromotionInv'
BY SMTT(60) DEF VerifyTree, Fail, PromotionInv, TypeOK, PlaceInv, RoundInv,
       IntentInv

LEMMA RecordDiffInv == ASSUME PromotionInv, RecordDiff PROVE PromotionInv'
<1> USE DEF RecordDiff, Retry, Correctable, Fail, PromotionInv, TypeOK,
            PlaceInv, RoundInv, IntentInv
<1>1. ready' \in BOOLEAN
  BY Zenon
<1> QED
  BY <1>1, SMTT(60)

LEMMA PlanChecksInv == ASSUME PromotionInv, PlanChecks PROVE PromotionInv'
BY SMTT(60) DEF PlanChecks, Fail, PromotionInv, TypeOK, PlaceInv, RoundInv,
       IntentInv

LEMMA RunCheckInv == ASSUME NEW c \in Checks, PromotionInv, RunCheck(c) PROVE PromotionInv'
BY SMTT(60) DEF RunCheck, NextCheck, Fail, PromotionInv, TypeOK, PlaceInv,
       RoundInv, IntentInv

LEMMA FailedBeforeInv == ASSUME PromotionInv, FailedBefore PROVE PromotionInv'
BY SMTT(60) DEF FailedBefore, PromotionInv, TypeOK, PlaceInv, RoundInv,
       IntentInv

LEMMA VerifyAgainInv == ASSUME PromotionInv, VerifyAgain PROVE PromotionInv'
BY SMTT(60) DEF VerifyAgain, Fail, PromotionInv, TypeOK, PlaceInv, RoundInv,
       IntentInv

LEMMA FinishFailedRoundInv == ASSUME PromotionInv, FinishFailedRound PROVE PromotionInv'
<1> USE DEF FinishFailedRound, Retry, PromotionInv, TypeOK, PlaceInv,
            RoundInv, IntentInv
<1>1. ready' \in BOOLEAN
  BY Zenon
<1> QED
  BY <1>1, SMTT(60)

LEMMA EnterCommittingInv == ASSUME PromotionInv, EnterCommitting PROVE PromotionInv'
BY SMTT(60) DEF EnterCommitting, PromotionInv, TypeOK, PlaceInv, RoundInv,
       IntentInv

LEMMA CommitCandidateInv == ASSUME PromotionInv, CommitCandidate PROVE PromotionInv'
BY SMTT(60) DEF CommitCandidate, Fail, PromotionInv, TypeOK, PlaceInv,
       RoundInv, IntentInv

LEMMA ResetWorktreeInv == ASSUME PromotionInv, ResetWorktree PROVE PromotionInv'
BY SMTT(60) DEF ResetWorktree, Fail, PromotionInv, TypeOK, PlaceInv, RoundInv,
       IntentInv

LEMMA RecordCandidateInv == ASSUME PromotionInv, RecordCandidate PROVE PromotionInv'
BY SMTT(60) DEF RecordCandidate, PromotionInv, TypeOK, PlaceInv, RoundInv,
       IntentInv

LEMMA PublishCandidateInv == ASSUME PromotionInv, PublishCandidate PROVE PromotionInv'
BY SMTT(60) DEF PublishCandidate, PromotionInv, TypeOK, PlaceInv, RoundInv,
       IntentInv

LEMMA ResumeCommittingInv == ASSUME PromotionInv, ResumeCommitting PROVE PromotionInv'
BY SMTT(60) DEF ResumeCommitting, Recorded, Clean, Committed, Uncommitted,
       MayAdvance, Idle, Fail, PromotionInv, TypeOK, PlaceInv, RoundInv,
       IntentInv

LEMMA RequireRecoveryInv == ASSUME PromotionInv, RequireRecovery PROVE PromotionInv'
BY SMTT(60) DEF RequireRecovery, PromotionInv, TypeOK, PlaceInv, RoundInv,
       IntentInv

LEMMA SubmitCandidateInv == ASSUME PromotionInv, SubmitCandidate PROVE PromotionInv'
BY SMTT(60) DEF SubmitCandidate, DaemonFails, Clean, Committed, Idle,
       PromotionInv, TypeOK, PlaceInv, RoundInv, IntentInv

LEMMA IngestResultInv == ASSUME PromotionInv, IngestResult PROVE PromotionInv'
BY SMTT(60) DEF IngestResult, DaemonFails, Clean, Committed, Idle,
       PromotionInv, TypeOK, PlaceInv, RoundInv, IntentInv

LEMMA ProjectEndInv == ASSUME PromotionInv, ProjectEnd PROVE PromotionInv'
BY SMTT(60) DEF ProjectEnd, Idle, PromotionInv, TypeOK, PlaceInv, RoundInv,
       IntentInv

LEMMA ReopenResultInv == ASSUME PromotionInv, ReopenResult PROVE PromotionInv'
BY SMTT(60) DEF ReopenResult, Clean, Committed, Idle, Fail, PromotionInv,
       TypeOK, PlaceInv, RoundInv, IntentInv

LEMMA ReadBestInv == ASSUME PromotionInv, ReadBest PROVE PromotionInv'
BY SMTT(60) DEF ReadBest, Fail, PromotionInv, TypeOK, PlaceInv, RoundInv,
       IntentInv

LEMMA PreparePromotionInv == ASSUME PromotionInv, PreparePromotion PROVE PromotionInv'
BY SMTT(60) DEF PreparePromotion, Preview, Beats, Onward, Fail, PromotionInv,
       TypeOK, PlaceInv, RoundInv, IntentInv

LEMMA MoveBranchInv == ASSUME PromotionInv, MoveBranch PROVE PromotionInv'
<1> USE DEF MoveBranch, Fail, PromotionInv, TypeOK, PlaceInv, RoundInv,
            IntentInv
<1>1. moved' \in BOOLEAN
  BY Zenon
<1> QED
  BY <1>1, SMTT(60)

LEMMA CheckMoveInv == ASSUME PromotionInv, CheckMove PROVE PromotionInv'
<1> USE DEF CheckMove, Fail, PromotionInv, TypeOK, PlaceInv, RoundInv,
            IntentInv
<1>1. moved' \in BOOLEAN
  BY Zenon
<1> QED
  BY <1>1, SMTT(60)

LEMMA BranchIsElsewhereInv == ASSUME PromotionInv, BranchIsElsewhere PROVE PromotionInv'
BY SMTT(60) DEF BranchIsElsewhere, Fail, PromotionInv, TypeOK, PlaceInv,
       RoundInv, IntentInv

LEMMA ConfirmBranchInv == ASSUME PromotionInv, ConfirmBranch PROVE PromotionInv'
BY SMTT(60) DEF ConfirmBranch, Fail, PromotionInv, TypeOK, PlaceInv, RoundInv,
       IntentInv

LEMMA VerifyCandidateInv == ASSUME PromotionInv, VerifyCandidate PROVE PromotionInv'
BY SMTT(60) DEF VerifyCandidate, Clean, Committed, Fail, PromotionInv, TypeOK,
       PlaceInv, RoundInv, IntentInv

LEMMA FinalizePromotionInv == ASSUME PromotionInv, FinalizePromotion PROVE PromotionInv'
BY SMTT(60) DEF FinalizePromotion, Fail, PromotionInv, TypeOK, PlaceInv,
       RoundInv, IntentInv

LEMMA ScheduleCleanupInv == ASSUME PromotionInv, ScheduleCleanup PROVE PromotionInv'
BY SMTT(60) DEF ScheduleCleanup, Idle, PromotionInv, TypeOK, PlaceInv,
       RoundInv, IntentInv

LEMMA RemoveWorktreeInv == ASSUME PromotionInv, RemoveWorktree PROVE PromotionInv'
BY SMTT(60) DEF RemoveWorktree, Cleanable, Retained, Clean, Committed, Idle,
       PromotionInv, TypeOK, PlaceInv, RoundInv, IntentInv

LEMMA FinishCleanupInv == ASSUME PromotionInv, FinishCleanup PROVE PromotionInv'
BY SMTT(60) DEF FinishCleanup, PromotionInv, TypeOK, PlaceInv, RoundInv,
       IntentInv

LEMMA EditorReportsInv == ASSUME PromotionInv, EditorReports PROVE PromotionInv'
BY SMTT(60) DEF EditorReports, Idle, PromotionInv, TypeOK, PlaceInv, RoundInv,
       IntentInv

LEMMA EditorFailsInv == ASSUME PromotionInv, EditorFails PROVE PromotionInv'
BY SMTT(60) DEF EditorFails, Idle, PromotionInv, TypeOK, PlaceInv, RoundInv,
       IntentInv

LEMMA RestartInv == ASSUME PromotionInv, Restart PROVE PromotionInv'
BY SMTT(60) DEF Restart, PromotionInv, TypeOK, PlaceInv, RoundInv, IntentInv

LEMMA StopOrResumeInv == ASSUME PromotionInv, StopOrResume PROVE PromotionInv'
BY SMTT(60) DEF StopOrResume, PromotionInv, TypeOK, PlaceInv, RoundInv,
       IntentInv

LEMMA WriteTreeInv == ASSUME PromotionInv, WriteTree PROVE PromotionInv'
BY SMTT(60) DEF WriteTree, PromotionInv, TypeOK, PlaceInv, RoundInv, IntentInv

LEMMA MoveBestInv == ASSUME PromotionInv, MoveBest PROVE PromotionInv'
BY SMTT(60) DEF MoveBest, PromotionInv, TypeOK, PlaceInv, RoundInv, IntentInv

LEMMA MoveOtherInv == ASSUME PromotionInv, MoveOther PROVE PromotionInv'
<1> USE DEF MoveOther, PromotionInv, TypeOK, PlaceInv, RoundInv, IntentInv
<1>1. intact' \in BOOLEAN
  BY Zenon
<1> QED
  BY <1>1, SMTT(60)

LEMMA TaskEndsInv == ASSUME PromotionInv, TaskEnds PROVE PromotionInv'
BY SMTT(60) DEF TaskEnds, PromotionInv, TypeOK, PlaceInv, RoundInv, IntentInv

LEMMA OtherWinsInv == ASSUME PromotionInv, OtherWins PROVE PromotionInv'
BY SMTT(60) DEF OtherWins, Idle, PromotionInv, TypeOK, PlaceInv, RoundInv,
       IntentInv

LEMMA CrashInv == ASSUME PromotionInv, Crash PROVE PromotionInv'
BY SMTT(60) DEF Crash, PromotionInv, TypeOK, PlaceInv, RoundInv, IntentInv

----------------------------------------------------------------------------
(* The invariant and what follows from it.                                 *)

LEMMA NextInv == PromotionInv /\ [Next]_vars => PromotionInv'
<1> SUFFICES ASSUME PromotionInv, [Next]_vars PROVE PromotionInv'
  OBVIOUS
<1>1. CASE RoundStep
  BY <1>1, PrepareInv, CreateWorktreeInv, EnterEditingInv, BeginRoundInv,
     VerifyTreeInv, RecordDiffInv, PlanChecksInv, RunCheckInv,
     FailedBeforeInv, VerifyAgainInv, FinishFailedRoundInv,
     EnterCommittingInv, CommitCandidateInv, ResetWorktreeInv,
     RecordCandidateInv, PublishCandidateInv, ResumeCommittingInv,
     RequireRecoveryInv DEF RoundStep
<1>2. CASE ExperimentStep
  BY <1>2, SubmitCandidateInv, IngestResultInv, ProjectEndInv DEF ExperimentStep
<1>3. CASE PromotionStep
  BY <1>3, ReopenResultInv, ReadBestInv, PreparePromotionInv, MoveBranchInv,
     CheckMoveInv, BranchIsElsewhereInv, ConfirmBranchInv, VerifyCandidateInv,
     FinalizePromotionInv, ScheduleCleanupInv DEF PromotionStep
<1>4. CASE CleanupStep
  BY <1>4, RemoveWorktreeInv, FinishCleanupInv DEF CleanupStep
<1>5. CASE EditorStep
  BY <1>5, EditorReportsInv, EditorFailsInv DEF EditorStep
<1>6. CASE Restart
  BY <1>6, RestartInv
<1>7. CASE Environment
  BY <1>7, StopOrResumeInv, WriteTreeInv, MoveBestInv, MoveOtherInv,
     TaskEndsInv, OtherWinsInv, CrashInv DEF Environment
<1>8. CASE UNCHANGED vars
  BY <1>8, StutterInv
<1> QED
  BY <1>1, <1>2, <1>3, <1>4, <1>5, <1>6, <1>7, <1>8 DEF Next

\* The round of checks, the worktree, the candidate branch, the intent and the
\* experiment agree at every place a crash, a write or a move of a branch may
\* find them: whatever the number of checks, writes, moves and crashes.
THEOREM PromotionInvariant == Spec => []PromotionInv
<1>1. Init => PromotionInv
  BY InitInv
<1>2. PromotionInv /\ [Next]_vars => PromotionInv'
  BY NextInv
<1> QED
  BY <1>1, <1>2, PTL DEF Spec

\* Unchecked bytes are never committed.
THEOREM CommittedWasCheckedTheorem == Spec => []CommittedWasChecked
<1>1. PromotionInv => CommittedWasChecked
  BY SMTT(30) DEF PromotionInv, RoundInv, CommittedWasChecked
<1> QED
  BY <1>1, PromotionInvariant, PTL

\* The database's best experiment is one whose branch was installed and whose
\* checkout its experiment left as it was committed.
THEOREM BestWasInstalledTheorem == Spec => []BestWasInstalled
<1>1. PromotionInv => BestWasInstalled
  BY SMTT(30) DEF PromotionInv, IntentInv, BestWasInstalled
<1> QED
  BY <1>1, PromotionInvariant, PTL
----------------------------------------------------------------------------
(* The refinement of CandidateDelivery.                                    *)

promised == <<ref, task, ranOn, intent, best, moved, winner>>

DeliveryStep ==
    \/ Delivery!CandidateNext
    \/ UNCHANGED <<Approved, ref, task, ranOn, intent.outcome, intent.old, best,
                   moved, winner = "candidate">>

\* Steps that change nothing CandidateDelivery speaks of.
LEMMA QuietStep ==
    ASSUME UNCHANGED <<digest, rows, passedOn>>, UNCHANGED promised
    PROVE  DeliveryStep
BY DEF DeliveryStep, Approved, promised

\* Steps of a round of checks.
LEMMA ApproveStep ==
    ASSUME PromotionInv', ref = 0, UNCHANGED promised
    PROVE  DeliveryStep
<1>1. Approved' \in Nat
  BY SMTT(30) DEF Approved, PromotionInv, TypeOK
<1>2. Delivery!Approve
  BY <1>1 DEF Delivery!Approve, promised
<1> QED
  BY <1>2 DEF DeliveryStep, Delivery!CandidateNext

\* Steps that leave the approved version as it is.
LEMMA ApprovedStays ==
    ASSUME UNCHANGED <<digest, rows, passedOn>>
    PROVE  UNCHANGED Approved
BY DEF Approved

LEMMA QuietDelivers ==
    ASSUME Prepare \/ CreateWorktree \/ EnterEditing \/ BeginRound \/
           VerifyTree \/ FailedBefore \/ VerifyAgain \/ EnterCommitting \/
           ResetWorktree \/ RecordCandidate \/ PublishCandidate \/
           ResumeCommitting \/ RequireRecovery \/ IngestResult \/
           ProjectEnd \/ ReopenResult \/ ReadBest \/ BranchIsElsewhere \/
           ConfirmBranch \/ VerifyCandidate \/ ScheduleCleanup \/
           RemoveWorktree \/ FinishCleanup \/ EditorReports \/
           EditorFails \/ Restart \/ StopOrResume \/ WriteTree \/
           MoveOther \/ Crash
    PROVE  DeliveryStep
<1>1. UNCHANGED <<digest, rows, passedOn>> /\ UNCHANGED promised
  BY SMTT(30) DEF promised, Prepare, CreateWorktree, EnterEditing, BeginRound, VerifyTree,
     FailedBefore, VerifyAgain, EnterCommitting, ResetWorktree,
     RecordCandidate, PublishCandidate, ResumeCommitting, RequireRecovery,
     IngestResult, ProjectEnd, ReopenResult, ReadBest, BranchIsElsewhere,
     ConfirmBranch, VerifyCandidate, ScheduleCleanup, RemoveWorktree,
     FinishCleanup, EditorReports, EditorFails, Restart, StopOrResume,
     WriteTree, MoveOther, Crash
<1> QED
  BY <1>1, QuietStep

LEMMA RoundDelivers ==
    ASSUME PromotionInv, PromotionInv',
           \/ RecordDiff \/ PlanChecks \/ FinishFailedRound
           \/ \E c \in Checks : RunCheck(c)
    PROVE  DeliveryStep
<1>1. ref = 0
  BY DEF RecordDiff, PlanChecks, FinishFailedRound, RunCheck, PromotionInv,
     PlaceInv, RoundInv
<1>2. UNCHANGED promised
  BY DEF RecordDiff, PlanChecks, FinishFailedRound, RunCheck, Retry, promised
<1> QED
  BY <1>1, <1>2, ApproveStep

LEMMA CommitCandidateDelivers == ASSUME PromotionInv, CommitCandidate PROVE DeliveryStep
<1>1. UNCHANGED Approved
  BY ApprovedStays DEF CommitCandidate
<1>2. CASE ref' = ref
  BY <1>1, <1>2 DEF CommitCandidate, DeliveryStep
<1>3. CASE ref' # ref
  <2>1. ref' = expected /\ Approved = expected /\ expected # 0
    BY <1>3 DEF CommitCandidate, Approved, PromotionInv, PlaceInv, RoundInv
  <2>2. ref = 0
    BY <1>3, <2>1 DEF CommitCandidate, PromotionInv, PlaceInv, RoundInv
  <2>3. Delivery!Commit
    BY <1>1, <2>1, <2>2 DEF CommitCandidate, Delivery!Commit
  <2> QED
    BY <2>3 DEF DeliveryStep, Delivery!CandidateNext
<1> QED
  BY <1>2, <1>3

LEMMA SubmitCandidateDelivers == ASSUME PromotionInv, SubmitCandidate PROVE DeliveryStep
<1>1. UNCHANGED Approved
  BY ApprovedStays DEF SubmitCandidate
<1>2. CASE Clean
  <2>1. ref # 0 /\ task = "none" /\ task' = "live"
    BY <1>2, SMTT(30) DEF SubmitCandidate, Idle, Clean, Committed, PromotionInv, TypeOK, IntentInv
  <2>2. Delivery!Try
    BY <1>1, <2>1 DEF SubmitCandidate, Delivery!Try
  <2> QED
    BY <2>2 DEF DeliveryStep, Delivery!CandidateNext
<1>3. CASE ~Clean
  BY <1>1, <1>3 DEF SubmitCandidate, DeliveryStep
<1> QED
  BY <1>2, <1>3

LEMMA TaskEndsDelivers == ASSUME PromotionInv, TaskEnds PROVE DeliveryStep
<1>1. UNCHANGED Approved
  BY ApprovedStays DEF TaskEnds
<1>2. ranOn' \in Nat
  BY DEF TaskEnds, PromotionInv, TypeOK
<1>3. Delivery!EndTrial
  BY <1>1, <1>2 DEF TaskEnds, Delivery!EndTrial, Delivery!Ends
<1> QED
  BY <1>3 DEF DeliveryStep, Delivery!CandidateNext

LEMMA PreparePromotionDelivers ==
    ASSUME PromotionInv, PromotionInv', PreparePromotion
    PROVE  DeliveryStep
<1>1. UNCHANGED Approved
  BY ApprovedStays DEF PreparePromotion
<1>2. CASE intent' = intent
  BY <1>1, <1>2 DEF PreparePromotion, DeliveryStep
<1>3. CASE intent' # intent
  <2>1. intent = NoIntent /\ intent' # NoIntent
    BY <1>3, SMTT(30) DEF PreparePromotion, PromotionInv, TypeOK
  <2>2. task \in Ends /\ UNCHANGED task
    BY DEF PreparePromotion, PromotionInv, PlaceInv, IntentInv
  <2>3. intent'.outcome \in Delivery!Verdicts /\ intent'.old \in Delivery!Places
    BY <2>1, SMTT(30) DEF PromotionInv, TypeOK, IntentInv, Delivery!Verdicts, Delivery!Places
  <2>4. intent'.outcome = "improved" => task = "succeeded"
    BY <2>2, SMTT(30) DEF PreparePromotion, PromotionInv, IntentInv
  <2>5. Delivery!Judge
    BY <1>1, <2>1, <2>2, <2>3, <2>4 DEF PreparePromotion, Delivery!Judge, Delivery!Ends
  <2> QED
    BY <2>5 DEF DeliveryStep, Delivery!CandidateNext
<1> QED
  BY <1>2, <1>3

LEMMA MoveBranchDelivers == ASSUME PromotionInv, MoveBranch PROVE DeliveryStep
<1>1. UNCHANGED Approved
  BY ApprovedStays DEF MoveBranch
<1>2. CASE best = intent.old /\ intact
  <2>1. intent.outcome = "improved" /\ winner # "candidate"
    BY DEF MoveBranch, PromotionInv, PlaceInv, IntentInv
  <2>2. Delivery!Install
    BY <1>1, <1>2, <2>1 DEF MoveBranch, Delivery!Install
  <2> QED
    BY <2>2 DEF DeliveryStep, Delivery!CandidateNext
<1>3. CASE ~(best = intent.old /\ intact)
  BY <1>1, <1>3 DEF MoveBranch, DeliveryStep
<1> QED
  BY <1>2, <1>3

LEMMA CheckMoveDelivers == ASSUME PromotionInv, CheckMove PROVE DeliveryStep
<1>1. UNCHANGED Approved
  BY ApprovedStays DEF CheckMove
<1>2. CASE best = "candidate" /\ ~intact
  <2>1. winner # "candidate"
    BY DEF CheckMove, PromotionInv, PlaceInv, IntentInv
  <2>2. Delivery!TakeBack
    BY <1>1, <1>2, <2>1 DEF CheckMove, Delivery!TakeBack
  <2> QED
    BY <2>2 DEF DeliveryStep, Delivery!CandidateNext
<1>3. CASE ~(best = "candidate" /\ ~intact)
  BY <1>1, <1>3 DEF CheckMove, DeliveryStep
<1> QED
  BY <1>2, <1>3

LEMMA MoveBestDelivers == ASSUME MoveBest PROVE DeliveryStep
<1>1. UNCHANGED Approved
  BY ApprovedStays DEF MoveBest
<1>2. Delivery!MoveAway
  BY <1>1 DEF MoveBest, Delivery!MoveAway, Delivery!Places
<1> QED
  BY <1>2 DEF DeliveryStep, Delivery!CandidateNext

LEMMA FinalizePromotionDelivers == ASSUME PromotionInv, FinalizePromotion PROVE DeliveryStep
<1>1. UNCHANGED Approved
  BY ApprovedStays DEF FinalizePromotion
<1>2. CASE winner' = winner
  BY <1>1, <1>2 DEF FinalizePromotion, DeliveryStep
<1>3. CASE winner' # winner
  <2>1. winner' = "candidate" /\ intent.outcome = "improved" /\ moved /\ ranOn = ref
    BY <1>3 DEF FinalizePromotion, PromotionInv, IntentInv
  <2>2. Delivery!Crown
    BY <1>1, <2>1 DEF FinalizePromotion, Delivery!Crown
  <2> QED
    BY <2>2 DEF DeliveryStep, Delivery!CandidateNext
<1> QED
  BY <1>2, <1>3

LEMMA OtherWinsDelivers == ASSUME OtherWins PROVE DeliveryStep
<1>1. UNCHANGED Approved
  BY ApprovedStays DEF OtherWins
<1> QED
  BY <1>1 DEF OtherWins, DeliveryStep

LEMMA PromotionDelivers == ASSUME PromotionInv, PromotionInv', [Next]_vars PROVE DeliveryStep
<1>1. CASE RoundStep
  BY <1>1, QuietDelivers, RoundDelivers, CommitCandidateDelivers DEF RoundStep
<1>2. CASE ExperimentStep
  BY <1>2, QuietDelivers, SubmitCandidateDelivers DEF ExperimentStep
<1>3. CASE PromotionStep
  BY <1>3, QuietDelivers, PreparePromotionDelivers, MoveBranchDelivers,
     CheckMoveDelivers, FinalizePromotionDelivers DEF PromotionStep
<1>4. CASE CleanupStep \/ EditorStep \/ Restart
  BY <1>4, QuietDelivers DEF CleanupStep, EditorStep
<1>5. CASE Environment
  BY <1>5, QuietDelivers, MoveBestDelivers, TaskEndsDelivers, OtherWinsDelivers DEF Environment
<1>6. CASE UNCHANGED vars
  BY <1>6, QuietStep DEF vars, promised
<1> QED
  BY <1>1, <1>2, <1>3, <1>4, <1>5, <1>6 DEF Next

\* The rows, git and Pueue keep the promise of CandidateDelivery: one commit of
\* the approved files, one judgement that a restart cannot change, and a best
\* experiment that ran on what was committed.
THEOREM PromotionImplementsDelivery == Spec => CandidatesDeliver
<1>1. Init => Delivery!CandidateInit
  BY DEF Init, Approved, Delivery!CandidateInit
<1>2. PromotionInv /\ PromotionInv' /\ [Next]_vars
      => [Delivery!CandidateNext]_(Delivery!candidateVars)
  BY PromotionDelivers DEF DeliveryStep, Delivery!candidateVars
<1> QED
  BY <1>1, <1>2, PromotionInvariant, PTL
     DEF Spec, CandidatesDeliver, Delivery!CandidateSpec
=============================================================================
