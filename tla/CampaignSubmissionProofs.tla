---------------------- MODULE CampaignSubmissionProofs ----------------------
(***************************************************************************)
(* Proofs about CampaignSubmission.  CoreInv is inductive: one lemma per   *)
(* action says that it is preserved.  The safety properties follow, with   *)
(* them every step is one of IntentDelivery's or a stutter, and the limit  *)
(* of a campaign bounds its tasks in Pueue.                                *)
(***************************************************************************)
EXTENDS CampaignSubmission, FiniteSetTheorems, TLAPS

Inv == TypeOK /\ CoreInv

LEMMA InitInv == Init => Inv
<1> SUFFICES ASSUME Init PROVE Inv
  OBVIOUS
<1> USE DEF Init, Submitters
<1>1. TypeOK
  BY BaselineAssumption, BoundsAssumption DEF TypeOK, Status
<1>2. RowsAgree /\ BoundToOwnTask /\ TruthfulResults
  BY DEF RowsAgree, BoundToOwnTask, TruthfulResults, Ended
<1>3. SubmittersAgree /\ AddsAgree /\ AddedAtMostOnce
  BY BaselineAssumption DEF SubmittersAgree, AddsAgree, AddedAtMostOnce
<1>4. RoundAgrees
  BY DEF RoundAgrees
<1> QED
  BY <1>1, <1>2, <1>3, <1>4 DEF Inv, CoreInv
----------------------------------------------------------------------------
(* Steps that leave the rows and Pueue alone, or only run Pueue on.        *)

\* What the submitters and the daemon do in memory disturbs no row.
LEMMA RowsKept ==
    ASSUME Inv, UNCHANGED <<status, row, bound, owner, life, made, late>>
    PROVE  RowsAgree' /\ AddsAgree' /\ AddedAtMostOnce' /\ BoundToOwnTask' /\ TruthfulResults'
<1> USE DEF Inv, CoreInv
<1>1. RowsAgree' /\ AddsAgree'
  BY DEF RowsAgree, AddsAgree, Made
<1>2. AddedAtMostOnce' /\ BoundToOwnTask' /\ TruthfulResults'
  BY DEF AddedAtMostOnce, BoundToOwnTask, TruthfulResults
<1> QED
  BY <1>1, <1>2

LEMMA SubmittersKept ==
    ASSUME Inv, UNCHANGED <<status, owner, life, made, late, pc, cur, sig, lock>>
    PROVE  SubmittersAgree'
BY DEF Inv, CoreInv, SubmittersAgree, Made

\* A run keeps its command and, once it ended, how it ended.
RunsPersist ==
    \A r \in Runs : life[r] # "none" =>
        /\ owner'[r] = owner[r]
        /\ life'[r] # "none"
        /\ life[r] \in RunEnded => life'[r] = life[r]

LEMMA QueueStep ==
    ASSUME Inv, TypeOK', RunsPersist, \A r \in present' : life'[r] # "none",
           UNCHANGED <<intents, decisions, observed, made, late, submitters, round>>
    PROVE  Inv'
<1> USE DEF Inv, CoreInv, intents, decisions, observed, submitters, round, RunsPersist, TypeOK
<1>1. \A x \in Experiments :
         /\ bound[x] # NoRun => bound[x] \in Runs /\ life[bound[x]] # "none"
         /\ status[x] \in Ended => bound[x] \in Runs
  BY DEF RowsAgree, Ended
<1>2. RowsAgree' /\ BoundToOwnTask' /\ TruthfulResults'
  <2>1. RowsAgree'
    BY <1>1 DEF RowsAgree
  <2>2. BoundToOwnTask'
    BY <1>1 DEF BoundToOwnTask
  <2>3. TruthfulResults'
    BY <1>1 DEF TruthfulResults, RunEnded
  <2> QED
    BY <2>1, <2>2, <2>3
<1>3. AddsAgree' /\ AddedAtMostOnce'
  BY DEF AddsAgree, AddedAtMostOnce, Made
<1>4. SubmittersAgree'
  BY DEF SubmittersAgree, AddsAgree, Made
<1>5. RoundAgrees'
  BY DEF RoundAgrees, RunEnded
<1> QED
  BY <1>1, <1>2, <1>3, <1>4, <1>5

LEMMA TaskEndsStep ==
    ASSUME Inv, NEW r \in Runs, NEW result \in Endings, TaskEnds(r, result)
    PROVE  Inv'
<1> USE DEF TaskEnds
<1>1. TypeOK'
  BY EndingsAssumption DEF Inv, TypeOK, RunEnded, intents, decisions, observed, submitters, round
<1>2. RunsPersist /\ \A q \in present' : life'[q] # "none"
  BY EndingsAssumption DEF Inv, CoreInv, RoundAgrees, RunsPersist, TypeOK, RunEnded
<1> QED
  BY <1>1, <1>2, QueueStep

LEMMA CleanStep == ASSUME Inv, NEW r \in Runs, Clean(r) PROVE Inv'
<1> USE DEF Clean
<1>1. TypeOK'
  BY DEF Inv, TypeOK, intents, decisions, observed, submitters, round
<1>2. RunsPersist /\ \A q \in present' : life'[q] # "none"
  BY DEF Inv, CoreInv, RoundAgrees, RunsPersist, TypeOK
<1> QED
  BY <1>1, <1>2, QueueStep

\* A new run disturbs no other.
LEMMA EnqueueKeeps ==
    ASSUME Inv, NEW r \in Runs, NEW i \in Ids \cup {NoId}, NEW x \in Experiments \cup {Nobody},
           NEW replaced, Enqueue(r, i, x, replaced)
    PROVE  /\ owner' \in [Runs -> Experiments \cup {Nobody}]
           /\ tid' \in [Runs -> Ids \cup {NoId}]
           /\ life' \in [Runs -> {"none", "live"} \cup RunEnded]
           /\ present' \in SUBSET Runs
           /\ RunsPersist
           /\ \A q \in present' : life'[q] # "none"
           /\ r \notin made /\ owner'[r] = x /\ life'[r] = "live"
           /\ \A q \in made : owner'[q] = owner[q]
<1> USE DEF Enqueue, NextRun, Inv, TypeOK
<1>1. /\ owner' \in [Runs -> Experiments \cup {Nobody}]
      /\ tid' \in [Runs -> Ids \cup {NoId}]
      /\ life' \in [Runs -> {"none", "live"} \cup RunEnded]
      /\ present' \in SUBSET Runs
  OBVIOUS
<1>2. RunsPersist /\ \A q \in present' : life'[q] # "none"
  BY DEF RunsPersist, CoreInv, RoundAgrees
<1>3. r \notin made /\ owner'[r] = x /\ life'[r] = "live" /\ \A q \in made : owner'[q] = owner[q]
  BY DEF CoreInv, AddsAgree
<1> QED
  BY <1>1, <1>2, <1>3

LEMMA AddByHandStep == ASSUME Inv, AddByHand PROVE Inv'
<1>1. PICK r \in Runs, i \in Ids : Enqueue(r, i, Nobody, {})
  BY DEF AddByHand
<1>2. TypeOK'
  BY <1>1, EnqueueKeeps DEF AddByHand, Inv, TypeOK, intents, decisions, observed, submitters, round
<1> QED
  BY <1>1, <1>2, EnqueueKeeps, QueueStep DEF AddByHand

LEMMA RestartInPlaceStep == ASSUME Inv, NEW r \in Runs, RestartInPlace(r) PROVE Inv'
<1>1. PICK n \in Runs : Enqueue(n, tid[r], owner[r], {r})
  BY DEF RestartInPlace
<1>2. tid[r] \in Ids \cup {NoId} /\ owner[r] \in Experiments \cup {Nobody}
  BY DEF Inv, TypeOK
<1>3. TypeOK'
  BY <1>1, <1>2, EnqueueKeeps DEF RestartInPlace, Inv, TypeOK, intents, decisions, observed, submitters, round
<1> QED
  BY <1>1, <1>2, <1>3, EnqueueKeeps, QueueStep DEF RestartInPlace

LEMMA TogglePermissionStep == ASSUME Inv, TogglePermission PROVE Inv'
<1>1. TypeOK' /\ RunsPersist /\ \A q \in present' : life'[q] # "none"
  BY DEF TogglePermission, Inv, TypeOK, CoreInv, RoundAgrees, RunsPersist, intents, decisions,
     observed, pueue, submitters, round
<1> QED
  BY <1>1, QueueStep DEF TogglePermission, pueue
----------------------------------------------------------------------------
(* Adds.                                                                   *)

\* A task created for an experiment that has none disturbs only who adds.
LEMMA AddKeeps ==
    ASSUME Inv, TypeOK', NEW x \in Experiments, NEW r \in Runs, NEW i \in Ids,
           Enqueue(r, i, x, {}), made' = made \cup {r}, late' \in {late, late \ {x}},
           Made(x) = {}, x \notin late', status[x] \in {"submitting", "unreconciled"},
           UNCHANGED <<intents, decisions, observed, round>>
    PROVE  RowsAgree' /\ AddsAgree' /\ RoundAgrees' /\ AddedAtMostOnce' /\ BoundToOwnTask' /\ TruthfulResults'
<1> USE DEF Inv, CoreInv, intents, decisions, observed, round, TypeOK
<1>1. RunsPersist /\ (\A q \in present' : life'[q] # "none") /\ r \notin made
      /\ owner'[r] = x /\ life'[r] = "live" /\ \A q \in made : owner'[q] = owner[q]
  BY EnqueueKeeps
<1>2. \A y \in Experiments :
         /\ bound[y] # NoRun => bound[y] \in Runs /\ life[bound[y]] # "none"
         /\ status[y] \in Ended => bound[y] \in Runs
  BY DEF RowsAgree, Ended
<1>3. RowsAgree' /\ BoundToOwnTask' /\ TruthfulResults'
  <2>1. RowsAgree'
    BY <1>1, <1>2 DEF RowsAgree, RunsPersist
  <2>2. BoundToOwnTask'
    BY <1>1, <1>2 DEF BoundToOwnTask, RunsPersist
  <2>3. TruthfulResults'
    BY <1>1, <1>2 DEF TruthfulResults, RunsPersist, RunEnded
  <2> QED
    BY <2>1, <2>2, <2>3
<1>4. AddsAgree'
  <2>1. \A y \in late' : Made(y)' = {}
    BY <1>1 DEF AddsAgree, Made
  <2> QED
    BY <1>1, <2>1 DEF AddsAgree, RunsPersist
<1>5. AddedAtMostOnce'
  BY <1>1 DEF AddedAtMostOnce, Made
<1>6. RoundAgrees'
  BY <1>1 DEF RoundAgrees, RunEnded, RunsPersist
<1> QED
  BY <1>3, <1>4, <1>5, <1>6

LEMMA LateAddStep == ASSUME Inv, NEW x \in Experiments, LateAdd(x) PROVE Inv'
<1> USE DEF LateAdd, submitters
<1>1. PICK r \in Runs, i \in Ids : Enqueue(r, i, x, {}) /\ made' = made \cup {r}
  BY DEF TaskAppears
<1>2. TypeOK'
  BY <1>1, EnqueueKeeps DEF Inv, TypeOK, intents, decisions, observed, round
<1>3. Made(x) = {} /\ x \notin late' /\ status[x] \in {"submitting", "unreconciled"}
  BY DEF Inv, CoreInv, AddsAgree
<1>4. SubmittersAgree'
  BY <1>1, EnqueueKeeps DEF Inv, CoreInv, SubmittersAgree, Made, RunsPersist, TypeOK, intents
<1> QED
  BY <1>1, <1>2, <1>3, <1>4, AddKeeps DEF Inv, CoreInv

LEMMA AddStep == ASSUME Inv, NEW p \in Submitters, Add(p) PROVE Inv'
<1> USE DEF Add
<1>1. pc[p] = "adding" /\ lock = p /\ cur[p] \in Experiments /\ Made(cur[p]) = {} /\ cur[p] \notin late
      /\ status[cur[p]] \in {"submitting", "unreconciled"}
  BY DEF Inv, CoreInv, SubmittersAgree
<1>2. CASE UNCHANGED <<pueue, got>> /\ pc' = [pc EXCEPT ![p] = "doubt"]
  <2>1. TypeOK'
    BY <1>1, <1>2, BoundsAssumption DEF Inv, TypeOK, Fault, pueue, intents, decisions, observed, round
  <2>2. SubmittersAgree'
    BY <1>1, <1>2 DEF Inv, CoreInv, SubmittersAgree, Made, TypeOK, Submitters, pueue, intents
  <2>3. RoundAgrees'
    BY <1>2 DEF Inv, CoreInv, RoundAgrees, pueue, intents, decisions, observed, round
  <2> QED
    BY <1>2, <2>1, <2>2, <2>3, RowsKept DEF Inv, CoreInv, pueue, intents
<1>3. CASE \E r \in Runs, i \in Ids : Enqueue(r, i, cur[p], {}) /\ made' = made \cup {r}
  <2>1. PICK r \in Runs, i \in Ids : Enqueue(r, i, cur[p], {}) /\ made' = made \cup {r}
    BY <1>3
  <2>2. TypeOK'
    <3>1. /\ owner' \in [Runs -> Experiments \cup {Nobody}] /\ tid' \in [Runs -> Ids \cup {NoId}]
          /\ life' \in [Runs -> {"none", "live"} \cup RunEnded] /\ present' \in SUBSET Runs
      BY <1>1, <2>1, EnqueueKeeps
    <3>2. made' \in SUBSET Runs /\ faults' \in 0..MaxFaults
      BY <2>1, BoundsAssumption DEF Inv, TypeOK, Fault, pueue
    <3>3. pc' \in [Submitters -> {"idle", "read", "admitted", "held", "adding",
                                   "verifying", "accepting", "doubt", "gone"}]
          /\ got' \in [Submitters -> Ids \cup {NoId}]
      BY DEF Inv, TypeOK
    <3> QED
      BY <3>1, <3>2, <3>3 DEF Inv, TypeOK, intents, decisions, observed, round
  <2>3. pc' \in {[pc EXCEPT ![p] = "verifying"], [pc EXCEPT ![p] = "doubt"]}
    OBVIOUS
  <2>4. SubmittersAgree'
    BY <1>1, <2>1, <2>3, EnqueueKeeps
       DEF Inv, CoreInv, SubmittersAgree, Made, TypeOK, Submitters, RunsPersist, intents
  <2> QED
    BY <1>1, <2>1, <2>2, <2>4, AddKeeps DEF Inv, CoreInv
<1> QED
  BY <1>2, <1>3 DEF TaskAppears
----------------------------------------------------------------------------
(* Submitters.                                                             *)

WorkTyped ==
    /\ pc \in [Submitters -> {"idle", "read", "admitted", "held", "adding",
                              "verifying", "accepting", "doubt", "gone"}]
    /\ cur \in [Submitters -> Experiments \cup {Nobody}]
    /\ saw \in [Submitters -> Status]
    /\ got \in [Submitters -> Ids \cup {NoId}]
    /\ sig \in [Submitters -> Runs \cup {NoRun}]
    /\ lock \in Submitters \cup {"free"}
    /\ phase \in {"down", "idle", "dispatch", "reconcile", "backfill", "apply"}
    /\ todo \in SUBSET Experiments
    /\ snap \in SUBSET Runs /\ due \in SUBSET Runs
    /\ at \in Runs \cup {NoRun}
    /\ step \in {"none", "resolve", "record", "publish"}

LEMMA ForgetEffect ==
    ASSUME Inv, NEW p \in Submitters, Leave(p) \/ Fail(p)
    PROVE  /\ pc' \in {[pc EXCEPT ![p] = "gone"], [pc EXCEPT ![p] = "idle"]}
           /\ p = "cli" => pc'[p] = "gone"
           /\ cur' = [cur EXCEPT ![p] = Nobody] /\ sig' = [sig EXCEPT ![p] = NoRun]
           /\ saw' = [saw EXCEPT ![p] = "none"] /\ got' = [got EXCEPT ![p] = NoId]
           /\ lock' = IF lock = p THEN "free" ELSE lock
           /\ \/ UNCHANGED <<phase, snap, due, at, step>>
              \/ phase' = "down" /\ step' = "none" /\ at' = NoRun /\ snap' = {} /\ due' = {}
           /\ todo' \in SUBSET Experiments
BY DEF Leave, Fail, Forget, StopRound, LockAfter, Inv, TypeOK, round, Submitters

\* A submitter that gives its work up, in the way Leave or Fail does, having
\* changed nothing but the intent it held the lock for.
LEMMA ForgetKeeps ==
    ASSUME Inv, NEW p \in Submitters, Leave(p) \/ Fail(p),
           UNCHANGED <<owner, life, present, made, seenEnd, cycle>>,
           \A x \in Experiments :
              status'[x] # status[x] \/ bound'[x] # bound[x] \/ x \in late' \ late =>
                 x = cur[p] /\ lock = p /\ status[x] \notin Ended \cup {"none"}
    PROVE  WorkTyped' /\ SubmittersAgree' /\ RoundAgrees'
<1> USE DEF Inv, TypeOK
<1>1. /\ pc' \in {[pc EXCEPT ![p] = "gone"], [pc EXCEPT ![p] = "idle"]}
      /\ p = "cli" => pc'[p] = "gone"
      /\ cur' = [cur EXCEPT ![p] = Nobody] /\ sig' = [sig EXCEPT ![p] = NoRun]
      /\ saw' = [saw EXCEPT ![p] = "none"] /\ got' = [got EXCEPT ![p] = NoId]
      /\ lock' = IF lock = p THEN "free" ELSE lock
  BY ForgetEffect
<1>2. \/ UNCHANGED <<phase, snap, due, at, step>>
      \/ phase' = "down" /\ step' = "none" /\ at' = NoRun /\ snap' = {} /\ due' = {}
  BY ForgetEffect
<1>3. WorkTyped'
  BY <1>1, <1>2, ForgetEffect DEF WorkTyped, Status
<1>4. SubmittersAgree'
  <2>1. ASSUME NEW q \in Submitters, q # p
        PROVE  /\ pc'[q] = pc[q] /\ cur'[q] = cur[q] /\ sig'[q] = sig[q]
               /\ lock' = q <=> lock = q
               /\ lock = q => lock # p
    BY <1>1, <2>1 DEF Submitters
  <2>2. pc'[p] \in {"gone", "idle"} /\ lock' # p
    BY <1>1 DEF Submitters
  <2>3. status[Baseline] = "none" => status'[Baseline] = "none"
    BY BaselineAssumption
  <2>4. pc'["cli"] = "idle" => pc["cli"] = "idle"
    BY <1>1, <2>1 DEF Submitters
  <2> QED
    BY <2>1, <2>2, <2>3, <2>4 DEF CoreInv, SubmittersAgree, Made
<1>5. RoundAgrees'
  <2>1. \A x \in Experiments : status[x] \in Ended => status'[x] = status[x] /\ bound'[x] = bound[x]
    BY DEF Ended
  <2> QED
    BY <1>2, <2>1 DEF CoreInv, RoundAgrees
<1> QED
  BY <1>3, <1>4, <1>5

LEMMA CrashStep == ASSUME Inv, NEW p \in Submitters, Crash(p) PROVE Inv'
<1> USE DEF Crash, intents, decisions, observed, pueue
<1>1. late' \ late # {} => pc[p] = "adding" /\ late' = late \cup {cur[p]}
  OBVIOUS
<1>2. pc[p] = "adding" => lock = p /\ cur[p] \in Experiments /\ Made(cur[p]) = {}
                          /\ status[cur[p]] \in {"submitting", "unreconciled"}
  BY DEF Inv, CoreInv, SubmittersAgree
<1>3. WorkTyped' /\ SubmittersAgree' /\ RoundAgrees'
  BY <1>1, <1>2, ForgetKeeps DEF Ended
<1>4. TypeOK'
  BY <1>2, <1>3, BoundsAssumption DEF Inv, TypeOK, WorkTyped, Fault
<1>5. AddsAgree'
  BY <1>2 DEF Inv, CoreInv, AddsAgree, Made
<1>6. RowsAgree' /\ AddedAtMostOnce' /\ BoundToOwnTask' /\ TruthfulResults'
  BY DEF Inv, CoreInv, RowsAgree, AddedAtMostOnce, BoundToOwnTask, TruthfulResults
<1> QED
  BY <1>3, <1>4, <1>5, <1>6 DEF Inv, CoreInv

\* A new intent disturbs no other, and no submitter has it yet.
LEMMA ReserveKeeps ==
    ASSUME Inv, NEW x \in Experiments, status[x] = "none", Reserve(x),
           UNCHANGED <<decisions, observed, pueue, late, round>>
    PROVE  /\ status' \in [Experiments -> Status]
           /\ row' \in [Experiments -> {"none", "pending", "accepted", "unreconciled"}]
           /\ budget' \in [Experiments -> {"none", "reserved", "consumed"}]
           /\ RowsAgree' /\ AddsAgree' /\ RoundAgrees'
           /\ AddedAtMostOnce' /\ BoundToOwnTask' /\ TruthfulResults'
<1> USE DEF Inv, TypeOK, CoreInv, Reserve, decisions, observed, pueue, round
<1>1. status' \in [Experiments -> Status] /\ row' \in [Experiments -> {"none", "pending", "accepted", "unreconciled"}]
      /\ budget' \in [Experiments -> {"none", "reserved", "consumed"}]
  BY DEF Status
<1>2. RowsAgree'
  BY DEF RowsAgree
<1>3. AddsAgree' /\ AddedAtMostOnce'
  BY DEF AddsAgree, AddedAtMostOnce, Made
<1>4. RoundAgrees'
  BY DEF RoundAgrees, Ended
<1>5. BoundToOwnTask' /\ TruthfulResults'
  BY DEF BoundToOwnTask, TruthfulResults, Ended
<1> QED
  BY <1>1, <1>2, <1>3, <1>4, <1>5

LEMMA StartBaselineStep == ASSUME Inv, StartBaseline PROVE Inv'
<1> USE DEF StartBaseline
<1>1. status[Baseline] = "none"
  BY DEF Inv, CoreInv, SubmittersAgree
<1>2. TypeOK'
  BY <1>1, BaselineAssumption, ReserveKeeps
     DEF Inv, TypeOK, Submitters, Status, Reserve, decisions, observed, pueue, round
<1>3. SubmittersAgree'
  BY <1>1, BaselineAssumption DEF Inv, TypeOK, CoreInv, SubmittersAgree, Submitters, Reserve, Made, pueue
<1> QED
  BY <1>1, <1>2, <1>3, BaselineAssumption, ReserveKeeps DEF Inv, CoreInv

LEMMA AdmitProposalStep == ASSUME Inv, NEW x \in Experiments, AdmitProposal(x) PROVE Inv'
<1> USE DEF AdmitProposal
<1>1. CASE status[x] = "none" /\ Reserve(x)
  <2>1. TypeOK'
    BY <1>1, ReserveKeeps DEF Inv, TypeOK, Submitters, Reserve, decisions, observed, pueue, round
  <2>2. SubmittersAgree'
    BY <1>1 DEF Inv, TypeOK, CoreInv, SubmittersAgree, Submitters, Reserve, Made, pueue
  <2> QED
    BY <1>1, <2>1, <2>2, ReserveKeeps DEF Inv, CoreInv
<1>2. CASE UNCHANGED intents
  <2> USE <1>2 DEF intents, decisions, observed, pueue, round
  <2>1. TypeOK'
    BY DEF Inv, TypeOK, Submitters
  <2>2. SubmittersAgree'
    BY DEF Inv, TypeOK, CoreInv, SubmittersAgree, Submitters, Made
  <2>3. RoundAgrees'
    BY DEF Inv, CoreInv, RoundAgrees
  <2> QED
    BY <2>1, <2>2, <2>3, RowsKept DEF Inv, CoreInv
<1> QED
  BY <1>1, <1>2

LEMMA CompleteAttemptStep == ASSUME Inv, CompleteAttempt PROVE Inv'
<1> USE DEF CompleteAttempt, intents, observed, pueue, round
<1>1. TypeOK'
  BY DEF Inv, TypeOK, CoreInv, SubmittersAgree, Submitters
<1>2. SubmittersAgree'
  BY DEF Inv, TypeOK, CoreInv, SubmittersAgree, Submitters, Made
<1>3. RoundAgrees'
  BY DEF Inv, CoreInv, RoundAgrees
<1> QED
  BY <1>1, <1>2, <1>3, RowsKept DEF Inv, CoreInv

LEMMA ReadIntentStep == ASSUME Inv, NEW x \in Experiments, ReadIntent(x) PROVE Inv'
<1> USE DEF ReadIntent, intents, decisions, observed, pueue, round
<1>1. TypeOK'
  BY DEF Inv, TypeOK, Submitters
<1>2. SubmittersAgree'
  BY DEF Inv, TypeOK, CoreInv, SubmittersAgree, Submitters, Made
<1>3. RoundAgrees'
  BY DEF Inv, CoreInv, RoundAgrees
<1> QED
  BY <1>1, <1>2, <1>3, RowsKept DEF Inv, CoreInv

LEMMA TakeLockStep == ASSUME Inv, TakeLock PROVE Inv'
<1> USE DEF TakeLock, intents, decisions, observed, pueue
<1>1. CASE Leave("daemon")
  <2>1. WorkTyped' /\ SubmittersAgree' /\ RoundAgrees'
    BY <1>1, ForgetKeeps DEF Submitters
  <2>2. TypeOK'
    BY <2>1 DEF Inv, TypeOK, WorkTyped
  <2> QED
    BY <2>1, <2>2, RowsKept DEF Inv, CoreInv
<1>2. CASE UNCHANGED <<local, round>> /\ lock = "free" /\ lock' = "daemon"
           /\ pc' = [pc EXCEPT !["daemon"] = "held"]
  <2> USE <1>2 DEF local, round
  <2>1. TypeOK'
    BY DEF Inv, TypeOK, Submitters
  <2>2. SubmittersAgree'
    BY DEF Inv, TypeOK, CoreInv, SubmittersAgree, Submitters, Made
  <2>3. RoundAgrees'
    BY DEF Inv, CoreInv, RoundAgrees
  <2> QED
    BY <2>1, <2>2, <2>3, RowsKept DEF Inv, CoreInv
<1> QED
  BY <1>1, <1>2

LEMMA BeginStep == ASSUME Inv, NEW p \in Submitters, Begin(p) PROVE Inv'
<1> USE DEF Begin, decisions, observed, pueue
<1>1. lock = p /\ cur[p] \in Experiments
  BY DEF Inv, CoreInv, SubmittersAgree
<1>2. CASE UNCHANGED intents /\ (Leave(p) \/ Fail(p))
  <2> USE <1>2 DEF intents
  <2>1. WorkTyped' /\ SubmittersAgree' /\ RoundAgrees'
    BY ForgetKeeps
  <2>2. TypeOK'
    BY <2>1 DEF Inv, TypeOK, WorkTyped
  <2> QED
    BY <2>1, <2>2, RowsKept DEF Inv, CoreInv
<1>3. CASE UNCHANGED <<intents, local, lock, round>> /\ pc' = [pc EXCEPT ![p] = "doubt"]
  <2> USE <1>3 DEF intents, local, round
  <2>1. TypeOK'
    BY DEF Inv, TypeOK
  <2>2. SubmittersAgree'
    BY DEF Inv, TypeOK, CoreInv, SubmittersAgree, Submitters, Made
  <2>3. RoundAgrees'
    BY DEF Inv, CoreInv, RoundAgrees
  <2> QED
    BY <2>1, <2>2, <2>3, RowsKept DEF Inv, CoreInv
<1>4. CASE /\ StillReserved(cur[p])
           /\ status' = [status EXCEPT ![cur[p]] = "submitting"]
           /\ pc' = [pc EXCEPT ![p] = "adding"]
           /\ UNCHANGED <<row, bound, budget, local, lock, round>>
  <2> USE <1>4 DEF StillReserved, local, round
  <2>1. TypeOK'
    BY DEF Inv, TypeOK, Status
  <2>2. Made(cur[p]) = {} /\ cur[p] \notin late
    BY DEF Inv, CoreInv, AddsAgree, Made
  <2>3. SubmittersAgree'
    BY <1>1, <2>2 DEF Inv, TypeOK, CoreInv, SubmittersAgree, Submitters, Made
  <2>4. RowsAgree'
    BY <1>1 DEF Inv, TypeOK, CoreInv, RowsAgree
  <2>5. AddsAgree' /\ AddedAtMostOnce' /\ BoundToOwnTask'
    BY <1>1, <2>2 DEF Inv, TypeOK, CoreInv, AddsAgree, AddedAtMostOnce, BoundToOwnTask, Made
  <2>6. RoundAgrees' /\ TruthfulResults'
    BY <1>1 DEF Inv, TypeOK, CoreInv, RoundAgrees, TruthfulResults, Ended
  <2> QED
    BY <2>1, <2>3, <2>4, <2>5, <2>6 DEF Inv, CoreInv
<1> QED
  BY <1>2, <1>3, <1>4

LEMMA VerifyStep == ASSUME Inv, NEW p \in Submitters, Verify(p) PROVE Inv'
<1> USE DEF Verify, intents, decisions, observed, pueue, round
<1>1. lock = p /\ cur[p] \in Experiments /\ cur[p] \notin late
      /\ status[cur[p]] \in {"submitting", "unreconciled"}
  BY DEF Inv, CoreInv, SubmittersAgree
<1>2. RoundAgrees'
  BY DEF Inv, CoreInv, RoundAgrees
<1>3. CASE \E r \in Shown(p) : sig' = [sig EXCEPT ![p] = r] /\ pc' = [pc EXCEPT ![p] = "accepting"]
                               /\ UNCHANGED faults
  <2>1. PICK r \in Shown(p) : sig' = [sig EXCEPT ![p] = r] /\ pc' = [pc EXCEPT ![p] = "accepting"]
    BY <1>3
  <2>2. r \in Runs /\ owner[r] = cur[p] /\ life[r] # "none"
    BY DEF Shown, Inv, TypeOK, CoreInv, RoundAgrees
  <2>3. TypeOK'
    BY <1>3, <2>1, <2>2 DEF Inv, TypeOK
  <2>4. SubmittersAgree'
    BY <1>1, <2>1, <2>2 DEF Inv, TypeOK, CoreInv, SubmittersAgree, Submitters, Made
  <2> QED
    BY <1>2, <2>3, <2>4, RowsKept DEF Inv, CoreInv
<1>4. CASE pc' = [pc EXCEPT ![p] = "doubt"] /\ UNCHANGED sig
  <2>1. TypeOK'
    BY <1>4, BoundsAssumption DEF Inv, TypeOK, Fault
  <2>2. SubmittersAgree'
    BY <1>1, <1>4 DEF Inv, TypeOK, CoreInv, SubmittersAgree, Submitters, Made
  <2> QED
    BY <1>2, <2>1, <2>2, RowsKept DEF Inv, CoreInv
<1> QED
  BY <1>3, <1>4

LEMMA MarkAcceptedStep == ASSUME Inv, NEW p \in Submitters, MarkAccepted(p) PROVE Inv'
<1> USE DEF MarkAccepted, decisions, observed, pueue
<1>1. /\ lock = p /\ cur[p] \in Experiments /\ cur[p] \notin late
      /\ sig[p] \in Runs /\ owner[sig[p]] = cur[p] /\ life[sig[p]] # "none"
  BY DEF Inv, CoreInv, SubmittersAgree
<1>2. CASE UNCHANGED <<intents, local, lock, round>> /\ pc' = [pc EXCEPT ![p] = "doubt"]
  <2> USE <1>2 DEF intents, local, round
  <2>1. TypeOK'
    BY BoundsAssumption DEF Inv, TypeOK, Fault
  <2>2. SubmittersAgree'
    BY <1>1 DEF Inv, TypeOK, CoreInv, SubmittersAgree, Submitters, Made
  <2>3. RoundAgrees'
    BY DEF Inv, CoreInv, RoundAgrees
  <2> QED
    BY <2>1, <2>2, <2>3, RowsKept DEF Inv, CoreInv
<1>3. CASE /\ status[cur[p]] = "submitting"
           /\ status' = [status EXCEPT ![cur[p]] = "accepted"]
           /\ row' = [row EXCEPT ![cur[p]] = "accepted"]
           /\ bound' = [bound EXCEPT ![cur[p]] = sig[p]]
           /\ Leave(p) /\ UNCHANGED <<budget, faults>>
  <2> USE <1>3
  <2>1. WorkTyped' /\ SubmittersAgree' /\ RoundAgrees'
    BY <1>1, ForgetKeeps DEF Inv, TypeOK, Ended
  <2>2. TypeOK'
    BY <1>1, <2>1 DEF Inv, TypeOK, Status, WorkTyped
  <2>3. RowsAgree'
    BY <1>1, RunsAssumption DEF Inv, TypeOK, CoreInv, RowsAgree
  <2>4. AddsAgree' /\ AddedAtMostOnce'
    BY <1>1 DEF Inv, TypeOK, CoreInv, AddsAgree, AddedAtMostOnce, Made
  <2>5. BoundToOwnTask' /\ TruthfulResults'
    BY <1>1 DEF Inv, TypeOK, CoreInv, BoundToOwnTask, TruthfulResults, Ended
  <2> QED
    BY <2>1, <2>2, <2>3, <2>4, <2>5 DEF Inv, CoreInv
<1> QED
  BY <1>2, <1>3

LEMMA MarkUnreconciledStep == ASSUME Inv, NEW p \in Submitters, MarkUnreconciled(p) PROVE Inv'
<1> USE DEF MarkUnreconciled, intents, decisions, observed, pueue
<1>1. lock = p /\ cur[p] \in Experiments
  BY DEF Inv, CoreInv, SubmittersAgree
<1>2. WorkTyped' /\ SubmittersAgree' /\ RoundAgrees'
  BY <1>1, ForgetKeeps DEF Inv, TypeOK, Ended
<1>3. TypeOK'
  BY <1>1, <1>2 DEF Inv, TypeOK, Status, WorkTyped
<1>4. RowsAgree'
  BY <1>1 DEF Inv, TypeOK, CoreInv, RowsAgree
<1>5. AddsAgree' /\ AddedAtMostOnce'
  BY <1>1 DEF Inv, TypeOK, CoreInv, AddsAgree, AddedAtMostOnce, Made
<1>6. BoundToOwnTask' /\ TruthfulResults'
  BY <1>1 DEF Inv, TypeOK, CoreInv, BoundToOwnTask, TruthfulResults, Ended
<1> QED
  BY <1>2, <1>3, <1>4, <1>5, <1>6 DEF Inv, CoreInv
----------------------------------------------------------------------------
(* The daemon's rounds.                                                    *)

LEMMA RecoverBoundariesStep == ASSUME Inv, RecoverBoundaries PROVE Inv'
<1> USE DEF RecoverBoundaries, Interrupted, AfterRecovery, decisions, observed, pueue, submitters
<1>1. TypeOK'
  BY DEF Inv, TypeOK, Status
<1>2. RowsAgree'
  BY DEF Inv, TypeOK, CoreInv, RowsAgree
<1>3. SubmittersAgree'
  BY BaselineAssumption DEF Inv, TypeOK, CoreInv, SubmittersAgree, Made
<1>4. AddsAgree' /\ AddedAtMostOnce'
  BY DEF Inv, TypeOK, CoreInv, AddsAgree, AddedAtMostOnce, Made
<1>5. RoundAgrees'
  BY DEF Inv, TypeOK, CoreInv, RoundAgrees, Ended
<1>6. BoundToOwnTask' /\ TruthfulResults'
  BY DEF Inv, TypeOK, CoreInv, BoundToOwnTask, TruthfulResults, Ended
<1> QED
  BY <1>1, <1>2, <1>3, <1>4, <1>5, <1>6 DEF Inv, CoreInv

\* Steps of a round that write no intent.
RoundStep ==
    \/ ListReserved \/ ReadStatus \/ EndReconcile \/ StartApplying \/ EndRound \/ MaterializeEnd
    \/ \E r \in Runs : ObserveEnd(r)
    \/ \E x \in Experiments : PublishCycle(x) \/ BackfillCycle(x)

LEMMA RoundStepKeeps == ASSUME Inv, RoundStep PROVE Inv'
<1> USE DEF Inv, intents, decisions, observed, pueue, submitters, round
<1>1. CASE ListReserved
  BY <1>1, RowsKept, SubmittersKept DEF ListReserved, Listed, TypeOK, CoreInv, RoundAgrees
<1>2. CASE ReadStatus
  BY <1>2, RowsKept, SubmittersKept DEF ReadStatus, EndsToProcess, TypeOK, CoreInv, RoundAgrees
<1>3. CASE EndReconcile
  BY <1>3, RowsKept, SubmittersKept DEF EndReconcile, TypeOK, CoreInv, RoundAgrees
<1>4. CASE StartApplying \/ EndRound
  BY <1>4, RowsKept, SubmittersKept DEF StartApplying, EndRound, TypeOK, CoreInv, RoundAgrees
<1>5. CASE MaterializeEnd
  BY <1>5, RowsKept, SubmittersKept DEF MaterializeEnd, TypeOK, CoreInv, RoundAgrees
<1>6. ASSUME NEW r \in Runs, ObserveEnd(r) PROVE Inv'
  BY <1>6, RunsAssumption, RowsKept, SubmittersKept DEF ObserveEnd, TypeOK, CoreInv, RoundAgrees
<1>7. ASSUME NEW x \in Experiments, PublishCycle(x) PROVE Inv'
  BY <1>7, RowsKept, SubmittersKept
     DEF PublishCycle, Matches, Candidates, SameRun, TypeOK, CoreInv, RoundAgrees, BoundToOwnTask
<1>8. ASSUME NEW x \in Experiments, BackfillCycle(x) PROVE Inv'
  BY <1>8, RowsKept, SubmittersKept DEF BackfillCycle, Unpublished, TypeOK, CoreInv, RoundAgrees
<1> QED
  BY <1>1, <1>2, <1>3, <1>4, <1>5, <1>6, <1>7, <1>8 DEF RoundStep

LEMMA QuarantineStaleStep == ASSUME Inv, NEW x \in Experiments, QuarantineStale(x) PROVE Inv'
<1> USE DEF QuarantineStale, MayQuarantine, decisions, observed, pueue
<1>1. CASE UNCHANGED intents /\ Fail("daemon")
  <2> USE <1>1 DEF intents
  <2>1. WorkTyped' /\ SubmittersAgree' /\ RoundAgrees'
    BY ForgetKeeps DEF Submitters
  <2>2. TypeOK'
    BY <2>1 DEF Inv, TypeOK, WorkTyped
  <2> QED
    BY <2>1, <2>2, RowsKept DEF Inv, CoreInv
<1>2. CASE /\ status[x] = "accepted"
           /\ status' = [status EXCEPT ![x] = "unreconciled"]
           /\ row' = [row EXCEPT ![x] = "unreconciled"]
           /\ UNCHANGED <<bound, budget, submitters, round>>
  <2> USE <1>2 DEF submitters, round
  <2>1. TypeOK'
    BY DEF Inv, TypeOK, Status
  <2>2. RowsAgree'
    BY DEF Inv, TypeOK, CoreInv, RowsAgree
  <2>3. SubmittersAgree'
    BY BaselineAssumption DEF Inv, TypeOK, CoreInv, SubmittersAgree, Made
  <2>4. AddsAgree' /\ AddedAtMostOnce'
    BY DEF Inv, TypeOK, CoreInv, AddsAgree, AddedAtMostOnce, Made
  <2>5. RoundAgrees'
    BY DEF Inv, TypeOK, CoreInv, RoundAgrees, Ended
  <2>6. BoundToOwnTask' /\ TruthfulResults'
    BY DEF Inv, TypeOK, CoreInv, BoundToOwnTask, TruthfulResults, Ended
  <2> QED
    BY <2>1, <2>2, <2>3, <2>4, <2>5, <2>6 DEF Inv, CoreInv
<1> QED
  BY <1>1, <1>2

LEMMA ProjectResultStep == ASSUME Inv, NEW x \in Experiments, ProjectResult(x) PROVE Inv'
<1> USE DEF ProjectResult, decisions, observed, pueue, submitters
<1>1. bound[x] = at /\ at \in Runs /\ life[at] \in RunEnded
  BY DEF Inv, CoreInv, RoundAgrees, TypeOK, Matches, Candidates, SameRun
<1>2. Outcome[life[at]] \in Ended
  BY <1>1 DEF Outcome, RunEnded, Ended
<1>3. /\ status' = [status EXCEPT ![x] = Outcome[life[at]]]
      /\ status[x] = "accepted" \/ status'[x] = status[x]
      /\ UNCHANGED <<row, bound>>
  BY <1>2 DEF Inv, TypeOK, intents
<1>4. TypeOK'
  BY <1>2, <1>3 DEF Inv, TypeOK, Status, Ended, intents
<1>5. RowsAgree'
  BY <1>2, <1>3 DEF Inv, TypeOK, CoreInv, RowsAgree, Ended
<1>6. SubmittersAgree'
  BY <1>2, <1>3, BaselineAssumption DEF Inv, TypeOK, CoreInv, SubmittersAgree, Made, Ended
<1>7. AddsAgree' /\ AddedAtMostOnce'
  BY <1>2, <1>3 DEF Inv, TypeOK, CoreInv, AddsAgree, AddedAtMostOnce, Made, Ended
<1>8. RoundAgrees'
  BY <1>1, <1>2, <1>3 DEF Inv, TypeOK, CoreInv, RoundAgrees, Ended
<1>9. BoundToOwnTask' /\ TruthfulResults'
  BY <1>1, <1>2, <1>3 DEF Inv, TypeOK, CoreInv, BoundToOwnTask, TruthfulResults, Ended
<1> QED
  BY <1>4, <1>5, <1>6, <1>7, <1>8, <1>9 DEF Inv, CoreInv
----------------------------------------------------------------------------
(* The theorems.                                                           *)

LEMMA StutterStep == Inv /\ UNCHANGED vars => Inv'
<1> SUFFICES ASSUME Inv, UNCHANGED vars PROVE Inv'
  OBVIOUS
<1> USE DEF vars
<1>1. TypeOK' /\ RoundAgrees'
  BY DEF Inv, TypeOK, CoreInv, RoundAgrees
<1> QED
  BY <1>1, RowsKept, SubmittersKept DEF Inv, CoreInv

\* The invariant is inductive: every operation, whoever else is in the middle
\* of one and wherever a crash falls, keeps rows, locks and Pueue in step.
THEOREM SubmissionInductive == Inv /\ [Next]_vars => Inv'
<1> SUFFICES ASSUME Inv, [Next]_vars PROVE Inv'
  OBVIOUS
<1>1. ASSUME NEW p \in Submitters, Submitting(p) PROVE Inv'
  BY <1>1, BeginStep, AddStep, VerifyStep, MarkAcceptedStep, MarkUnreconciledStep DEF Submitting
<1>2. CASE Reconciling
  BY <1>2, QuarantineStaleStep, ProjectResultStep, RoundStepKeeps DEF Reconciling, RoundStep
<1>3. CASE Applying
  BY <1>3, CompleteAttemptStep, AdmitProposalStep DEF Applying
<1>4. CASE Daemon
  BY <1>1, <1>2, <1>3, <1>4, RecoverBoundariesStep, RoundStepKeeps, TakeLockStep, ReadIntentStep
     DEF Daemon, RoundStep, Submitters
<1>5. CASE Command
  BY <1>1, <1>5, StartBaselineStep DEF Command, Submitters
<1>6. CASE Environment
  BY <1>6, TaskEndsStep, CleanStep, RestartInPlaceStep, LateAddStep, AddByHandStep,
     TogglePermissionStep, CrashStep DEF Environment, Pueue
<1>7. CASE UNCHANGED vars
  BY <1>7, StutterStep
<1> QED
  BY <1>4, <1>5, <1>6, <1>7 DEF Next

\* Every reachable state satisfies the invariant.
LEMMA Invariance == Spec => []Inv
<1> QED
  BY InitInv, SubmissionInductive, PTL DEF Spec

\* Every variable keeps its type.
THEOREM SubmissionTypeCorrect == Spec => []TypeOK
<1>1. Inv => TypeOK
  BY DEF Inv
<1> QED
  BY <1>1, Invariance, PTL

\* Rows, locks, adds and rounds agree in every reachable state.
THEOREM CoreAgrees == Spec => []CoreInv
<1>1. Inv => CoreInv
  BY DEF Inv
<1> QED
  BY <1>1, Invariance, PTL

\* No experiment is ever added to Pueue twice.
THEOREM NoSecondAdd == Spec => []AddedAtMostOnce
<1>1. CoreInv => AddedAtMostOnce
  BY DEF CoreInv
<1> QED
  BY <1>1, CoreAgrees, PTL

\* A stored identity is always a run of the experiment's own command.
THEOREM IdentityIsOwn == Spec => []BoundToOwnTask
<1>1. CoreInv => BoundToOwnTask
  BY DEF CoreInv
<1> QED
  BY <1>1, CoreAgrees, PTL

\* A result is always the end of the run that was bound.
THEOREM ResultsAreTruthful == Spec => []TruthfulResults
<1>1. CoreInv => TruthfulResults
  BY DEF CoreInv
<1> QED
  BY <1>1, CoreAgrees, PTL

\* A daemon that starts is never refused by the consistency check of its own
\* recovery, whatever was interrupted.
RecoveryIsAccepted == \A x \in Interrupted : row[x] = "pending" /\ bound[x] = NoRun

\* The check that recover_boundaries begins with holds in every reachable state.
THEOREM RecoveryNeverRefused == Spec => []RecoveryIsAccepted
<1>1. CoreInv => RecoveryIsAccepted
  BY DEF CoreInv, RowsAgree, RecoveryIsAccepted, Interrupted
<1> QED
  BY <1>1, CoreAgrees, PTL
----------------------------------------------------------------------------
(* The refinement of IntentDelivery.                                       *)

Fates == [x \in Experiments |-> fateOf(x)]
Sent  == [x \in Experiments |-> Cardinality(Made(x))]

\* An experiment was added to Pueue not at all or once.
LEMMA SentOnce ==
    ASSUME Inv, NEW x \in Experiments
    PROVE  /\ Sent[x] = IF Made(x) = {} THEN 0 ELSE 1
           /\ Made(x) # {} => \E r \in Runs : Made(x) = {r}
<1>1. Made(x) # {} => \E r \in Runs : Made(x) = {r}
  BY DEF Inv, TypeOK, CoreInv, AddedAtMostOnce, Made
<1>2. Cardinality({}) = 0 /\ \A r \in Runs : Cardinality({r}) = 1
  BY FS_EmptySet, FS_Singleton
<1> QED
  BY <1>1, <1>2 DEF Sent

LEMMA SentKept == ASSUME UNCHANGED <<made, owner>> PROVE Sent' = Sent
BY DEF Sent, Made

\* One experiment's status changes, and nothing is added.
LEMMA TurnStep ==
    ASSUME Inv, NEW x \in Experiments, NEW s \in Status,
           status' = [status EXCEPT ![x] = s], UNCHANGED <<made, owner>>,
           \/ status[x] = "none" /\ s = "reserved"
           \/ status[x] = "reserved" /\ s = "submitting"
           \/ status[x] = "submitting" /\ s = "accepted" /\ Made(x) # {}
           \/ status[x] = "submitting" /\ s = "unreconciled"
           \/ status[x] = "accepted" /\ s \in Ended \cup {"unreconciled"}
    PROVE  Delivery!IntentNext
<1>1. UNCHANGED Sent
  BY SentKept
<1>2. Fates' = [Fates EXCEPT ![x] = fateOf(x)'] /\ Fates[x] = fateOf(x)
  <2>1. \A y \in Experiments \ {x} : status'[y] = status[y]
    BY DEF Inv, TypeOK
  <2>2. \A y \in Experiments \ {x} : fateOf(y)' = fateOf(y)
    BY <2>1 DEF fateOf
  <2> DEFINE F(y) == fateOf(y)
             G(y) == fateOf(y)'
  <2>4. Fates = [y \in Experiments |-> F(y)] /\ Fates' = [y \in Experiments |-> G(y)]
    BY DEF Fates
  <2>5. \A y \in Experiments \ {x} : G(y) = F(y)
    BY <2>2
  <2> HIDE DEF F, G
  <2>6. Fates' = [Fates EXCEPT ![x] = G(x)] /\ Fates[x] = F(x)
    BY <2>4, <2>5
  <2> QED
    BY <2>6 DEF F, G
<1>3. CASE s \in {"reserved", "submitting"} \cup Ended
  <2>1. \/ Fates[x] = "absent" /\ fateOf(x)' = "promised"
        \/ Fates[x] = "promised" /\ fateOf(x)' = "exposed"
        \/ Fates[x] = "owned" /\ fateOf(x)' = "settled"
    BY <1>2, <1>3 DEF Inv, TypeOK, fateOf, Ended
  <2> QED
    BY <1>1, <1>2, <2>1 DEF Delivery!IntentNext, Delivery!Promise, Delivery!Expose, Delivery!Settle,
       Delivery!Turn, Fates, Sent
<1>4. CASE s = "accepted"
  <2>1. Fates[x] = "exposed" /\ fateOf(x)' = "owned" /\ Sent[x] = 1
    BY <1>2, <1>4, SentOnce DEF Inv, TypeOK, fateOf, Ended
  <2> QED
    BY <1>1, <1>2, <2>1 DEF Delivery!IntentNext, Delivery!Own, Delivery!Turn, Fates, Sent
<1>5. CASE s = "unreconciled"
  <2>1. Fates[x] \in {"exposed", "owned"} /\ fateOf(x)' = "doubtful"
    BY <1>2, <1>5 DEF Inv, TypeOK, fateOf, Ended
  <2>2. Fates' = [y \in Experiments |-> IF y \in {x} THEN "doubtful" ELSE Fates[y]]
    BY <1>2, <2>1 DEF Fates
  <2>3. Delivery!Doubt({x})
    BY <1>1, <2>1, <2>2 DEF Delivery!Doubt, Fates, Sent
  <2> QED
    BY <2>3 DEF Delivery!IntentNext
<1> QED
  BY <1>3, <1>4, <1>5

\* What changes no status and adds nothing is a stutter of the promise.
LEMMA StillStep ==
    ASSUME Inv, UNCHANGED <<status, made, owner>>
    PROVE  UNCHANGED <<Fates, Sent>>
<1>1. UNCHANGED Sent
  BY SentKept
<1>2. UNCHANGED Fates
  BY DEF Fates, fateOf
<1> QED
  BY <1>1, <1>2

\* An enqueued run that the campaign did not add is no experiment's add.
LEMMA OtherRunStep ==
    ASSUME Inv, RunsPersist, UNCHANGED <<status, made>>
    PROVE  UNCHANGED <<Fates, Sent>>
<1>1. UNCHANGED Fates
  BY DEF Fates, fateOf
<1>2. \A r \in made : owner'[r] = owner[r]
  BY DEF Inv, TypeOK, CoreInv, AddsAgree, RunsPersist
<1>3. UNCHANGED Sent
  BY <1>2 DEF Sent, Made
<1> QED
  BY <1>1, <1>3

\* A `pueue add` that arrives is the send of an exposed or doubtful intent.
LEMMA SendStep ==
    ASSUME Inv, NEW x \in Experiments, NEW r \in Runs, NEW i \in Ids,
           Enqueue(r, i, x, {}), made' = made \cup {r}, UNCHANGED status,
           status[x] \in {"submitting", "unreconciled"}, Made(x) = {}
    PROVE  Delivery!IntentNext
<1>1. UNCHANGED Fates
  BY DEF Fates, fateOf
<1>2. r \notin made /\ owner'[r] = x /\ \A q \in made : owner'[q] = owner[q]
  BY EnqueueKeeps
<1>3. Made(x)' = {r} /\ \A y \in Experiments \ {x} : Made(y)' = Made(y)
  BY <1>2 DEF Made, Inv, TypeOK
<1>4. Cardinality({}) = 0 /\ Cardinality({r}) = 1
  BY FS_EmptySet, FS_Singleton
<1>5. Sent[x] = 0 /\ Sent' = [Sent EXCEPT ![x] = 1]
  <2> DEFINE F(y) == Cardinality(Made(y))
             G(y) == Cardinality(Made(y)')
  <2>1. Sent = [y \in Experiments |-> F(y)] /\ Sent' = [y \in Experiments |-> G(y)]
    BY DEF Sent
  <2>2. F(x) = 0 /\ G(x) = 1 /\ \A y \in Experiments \ {x} : G(y) = F(y)
    BY <1>3, <1>4
  <2> HIDE DEF F, G
  <2> QED
    BY <2>1, <2>2
<1>6. Fates[x] \in {"exposed", "doubtful"}
  BY DEF Fates, fateOf, Ended
<1> QED
  BY <1>1, <1>5, <1>6 DEF Delivery!IntentNext, Delivery!Send, Fates, Sent

\* Startup recovery leaves every interrupted intent in doubt.
LEMMA DoubtStep == ASSUME Inv, RecoverBoundaries PROVE Delivery!IntentNext
<1> USE DEF RecoverBoundaries, AfterRecovery, pueue
<1>1. UNCHANGED Sent
  BY SentKept
<1>2. \A x \in Interrupted : x \in Experiments /\ Fates[x] = "exposed"
  BY DEF Interrupted, Fates, fateOf, Ended
<1>3. \A x \in Experiments :
         fateOf(x)' = IF x \in Interrupted THEN "doubtful" ELSE fateOf(x)
  <2> TAKE x \in Experiments
  <2>1. CASE x \in Interrupted
    BY <2>1 DEF fateOf, Ended
  <2>2. CASE x \notin Interrupted
    <3>1. status'[x] = status[x]
      BY <2>2
    <3>2. fateOf(x)' = fateOf(x)
      <4> HIDE DEF RecoverBoundaries, AfterRecovery
      <4> QED
        BY <3>1 DEF fateOf
    <3> QED
      BY <2>2, <3>2
  <2> QED
    BY <2>1, <2>2
<1>4. Fates' = [x \in Experiments |-> IF x \in Interrupted THEN "doubtful" ELSE Fates[x]]
  <2> DEFINE F(y) == fateOf(y)
             G(y) == fateOf(y)'
  <2>1. Fates = [y \in Experiments |-> F(y)] /\ Fates' = [y \in Experiments |-> G(y)]
    BY DEF Fates
  <2>2. \A y \in Experiments : G(y) = IF y \in Interrupted THEN "doubtful" ELSE F(y)
    BY <1>3
  <2> HIDE DEF F, G, RecoverBoundaries
  <2> QED
    BY <2>1, <2>2
<1>5. Delivery!Doubt(Interrupted)
  BY <1>1, <1>2, <1>4 DEF Delivery!Doubt, Fates, Sent
<1>6. Interrupted \in SUBSET Experiments
  BY DEF Interrupted
<1> QED
  BY <1>5, <1>6 DEF Delivery!IntentNext

\* The initial state promises nothing, and every step keeps the promise.
LEMMA DeliveryInit == Init => Delivery!IntentInit
<1> SUFFICES ASSUME Init PROVE Delivery!IntentInit
  OBVIOUS
<1>1. \A x \in Experiments : fateOf(x) = "absent" /\ Made(x) = {}
  BY DEF Init, fateOf, Made, Ended
<1>2. Cardinality({}) = 0
  BY FS_EmptySet
<1> QED
  BY <1>1, <1>2 DEF Delivery!IntentInit

LEMMA SubmitterDelivers ==
    ASSUME Inv, NEW p \in Submitters, Submitting(p)
    PROVE  Delivery!IntentNext \/ UNCHANGED <<Fates, Sent>>
<1> USE DEF intents, pueue, WorkTyped
<1>1. CASE Begin(p)
  <2>1. cur[p] \in Experiments
    BY <1>1 DEF Begin, Inv, CoreInv, SubmittersAgree
  <2>2. CASE UNCHANGED status
    BY <1>1, <2>2, StillStep DEF Begin
  <2>3. CASE status' = [status EXCEPT ![cur[p]] = "submitting"] /\ status[cur[p]] = "reserved"
    BY <1>1, <2>1, <2>3, TurnStep DEF Begin, Status
  <2> QED
    BY <1>1, <2>2, <2>3 DEF Begin, StillReserved
<1>2. CASE Add(p)
  <2>1. /\ cur[p] \in Experiments /\ Made(cur[p]) = {}
        /\ status[cur[p]] \in {"submitting", "unreconciled"}
    BY <1>2 DEF Add, Inv, CoreInv, SubmittersAgree
  <2>2. CASE UNCHANGED pueue
    BY <1>2, <2>2, StillStep DEF Add
  <2>3. CASE \E r \in Runs, i \in Ids : Enqueue(r, i, cur[p], {}) /\ made' = made \cup {r}
    BY <1>2, <2>1, <2>3, SendStep DEF Add
  <2> QED
    BY <1>2, <2>2, <2>3 DEF Add, TaskAppears
<1>3. CASE Verify(p)
  BY <1>3, StillStep DEF Verify
<1>4. CASE MarkAccepted(p)
  <2>1. cur[p] \in Experiments /\ Made(cur[p]) # {}
    BY <1>4 DEF MarkAccepted, Inv, CoreInv, SubmittersAgree
  <2>2. CASE UNCHANGED status
    BY <1>4, <2>2, StillStep DEF MarkAccepted
  <2>3. CASE status' = [status EXCEPT ![cur[p]] = "accepted"] /\ status[cur[p]] = "submitting"
    BY <1>4, <2>1, <2>3, TurnStep DEF MarkAccepted, Status
  <2> QED
    BY <1>4, <2>2, <2>3 DEF MarkAccepted
<1>5. CASE MarkUnreconciled(p)
  <2>1. cur[p] \in Experiments
    BY <1>5 DEF MarkUnreconciled, Inv, CoreInv, SubmittersAgree
  <2>2. CASE UNCHANGED status
    BY <1>5, <2>2, StillStep DEF MarkUnreconciled
  <2>3. CASE status' = [status EXCEPT ![cur[p]] = "unreconciled"] /\ status[cur[p]] = "submitting"
    BY <1>5, <2>1, <2>3, TurnStep DEF MarkUnreconciled, Status
  <2> QED
    BY <1>5, <2>2, <2>3 DEF MarkUnreconciled
<1> QED
  BY <1>1, <1>2, <1>3, <1>4, <1>5 DEF Submitting

LEMMA RoundDelivers ==
    ASSUME Inv, Reconciling
    PROVE  Delivery!IntentNext \/ UNCHANGED <<Fates, Sent>>
<1> USE DEF intents, pueue, submitters
<1>1. CASE RoundStep
  BY <1>1, StillStep
     DEF RoundStep, ListReserved, ReadStatus, EndReconcile, StartApplying, EndRound, MaterializeEnd,
         ObserveEnd, PublishCycle, BackfillCycle
<1>2. ASSUME NEW x \in Experiments, QuarantineStale(x)
      PROVE  Delivery!IntentNext \/ UNCHANGED <<Fates, Sent>>
  <2>1. CASE UNCHANGED status
    BY <1>2, <2>1, StillStep DEF QuarantineStale
  <2>2. CASE status[x] = "accepted" /\ status' = [status EXCEPT ![x] = "unreconciled"]
    BY <1>2, <2>2, TurnStep DEF QuarantineStale, Status
  <2> QED
    BY <1>2, <2>1, <2>2 DEF QuarantineStale, MayQuarantine
<1>3. ASSUME NEW x \in Experiments, ProjectResult(x)
      PROVE  Delivery!IntentNext \/ UNCHANGED <<Fates, Sent>>
  <2>1. CASE status[x] # "accepted"
    BY <1>3, <2>1, StillStep DEF ProjectResult
  <2>2. CASE status[x] = "accepted"
    <3>1. Outcome[life[at]] \in Ended
      BY <1>3 DEF ProjectResult, Matches, Candidates, SameRun, Inv, CoreInv, RoundAgrees,
                  TypeOK, Outcome, RunEnded, Ended
    <3>2. status' = [status EXCEPT ![x] = Outcome[life[at]]] /\ UNCHANGED <<made, owner>>
      BY <1>3, <2>2 DEF ProjectResult
    <3> QED
      BY <2>2, <3>1, <3>2, TurnStep DEF Status
  <2> QED
    BY <2>1, <2>2
<1> QED
  BY <1>1, <1>2, <1>3 DEF Reconciling, RoundStep

LEMMA DaemonDelivers ==
    ASSUME Inv, Daemon
    PROVE  Delivery!IntentNext \/ UNCHANGED <<Fates, Sent>>
<1> USE DEF intents, pueue, submitters
<1>1. CASE RecoverBoundaries
  BY <1>1, DoubtStep
<1>2. CASE ListReserved \/ ReadStatus \/ EndRound \/ TakeLock \/ \E x \in Experiments : ReadIntent(x)
  BY <1>2, StillStep DEF ListReserved, ReadStatus, EndRound, TakeLock, ReadIntent
<1>3. CASE CompleteAttempt
  BY <1>3, StillStep DEF CompleteAttempt
<1>4. ASSUME NEW x \in Experiments, AdmitProposal(x)
      PROVE  Delivery!IntentNext \/ UNCHANGED <<Fates, Sent>>
  <2>1. CASE UNCHANGED status
    BY <1>4, <2>1, StillStep DEF AdmitProposal
  <2>2. CASE status[x] = "none" /\ status' = [status EXCEPT ![x] = "reserved"]
    BY <1>4, <2>2, TurnStep DEF AdmitProposal, Status
  <2> QED
    BY <1>4, <2>1, <2>2 DEF AdmitProposal, Reserve
<1> QED
  BY <1>1, <1>2, <1>3, <1>4, SubmitterDelivers, RoundDelivers DEF Daemon, Applying, Submitters

LEMMA OthersDeliver ==
    ASSUME Inv, Command \/ Environment
    PROVE  Delivery!IntentNext \/ UNCHANGED <<Fates, Sent>>
<1> USE DEF intents, pueue, submitters
<1>1. CASE StartBaseline
  <2>1. status[Baseline] = "none" /\ status' = [status EXCEPT ![Baseline] = "reserved"]
    BY <1>1 DEF StartBaseline, Reserve, Inv, CoreInv, SubmittersAgree
  <2> QED
    BY <1>1, <2>1, TurnStep, BaselineAssumption DEF StartBaseline, Status
<1>2. ASSUME NEW x \in Experiments, LateAdd(x) PROVE Delivery!IntentNext
  <2>1. Made(x) = {} /\ status[x] \in {"submitting", "unreconciled"}
    BY <1>2 DEF LateAdd, Inv, CoreInv, AddsAgree
  <2> QED
    BY <1>2, <2>1, SendStep DEF LateAdd, TaskAppears
<1>3. ASSUME NEW r \in Runs, NEW result \in Endings, TaskEnds(r, result)
      PROVE  UNCHANGED <<Fates, Sent>>
  BY <1>3, StillStep DEF TaskEnds
<1>4. ASSUME NEW r \in Runs, Clean(r) PROVE UNCHANGED <<Fates, Sent>>
  BY <1>4, StillStep DEF Clean
<1>5. ASSUME NEW r \in Runs, RestartInPlace(r) PROVE UNCHANGED <<Fates, Sent>>
  <2>1. RunsPersist
    BY <1>5, EnqueueKeeps DEF RestartInPlace, Inv, TypeOK
  <2> QED
    BY <1>5, <2>1, OtherRunStep DEF RestartInPlace
<1>6. CASE AddByHand
  <2>1. RunsPersist
    BY <1>6, EnqueueKeeps DEF AddByHand
  <2> QED
    BY <1>6, <2>1, OtherRunStep DEF AddByHand
<1>7. CASE TogglePermission \/ \E p \in Submitters : Crash(p)
  BY <1>7, StillStep DEF TogglePermission, Crash
<1> QED
  BY <1>1, <1>2, <1>3, <1>4, <1>5, <1>6, <1>7, SubmitterDelivers
     DEF Command, Environment, Pueue, Submitters

\* The two stores and the two submitters implement the abstract promise: what
\* is done to one experiment is, in the eyes of the campaign, one of its turns.
THEOREM SubmissionImplementsDelivery == Spec => IntentsDelivered
<1>1. Inv /\ [Next]_vars => [Delivery!IntentNext]_Delivery!intentVars
  <2> SUFFICES ASSUME Inv, [Next]_vars
               PROVE  Delivery!IntentNext \/ UNCHANGED Delivery!intentVars
    OBVIOUS
  <2>1. UNCHANGED vars => UNCHANGED <<Fates, Sent>>
    BY StillStep DEF vars
  <2>2. Delivery!IntentNext \/ UNCHANGED <<Fates, Sent>>
    BY <2>1, DaemonDelivers, OthersDeliver DEF Next
  <2> QED
    BY <2>2 DEF Delivery!intentVars, Fates, Sent
<1> QED
  BY <1>1, DeliveryInit, Invariance, PTL DEF Spec, IntentsDelivered, Delivery!IntentSpec

----------------------------------------------------------------------------
(* The limit on the intents a campaign admits also bounds its tasks in     *)
(* Pueue, for every limit and whatever Pueue's users restart or enqueue by *)
(* hand.                                                                   *)

Extended == Inv /\ RunsAgree /\ CapacityAgrees

----------------------------------------------------------------------------
(* The runs of an experiment's command.                                    *)

LEMMA RunsKept ==
    ASSUME RunsAgree, Inv, UNCHANGED <<owner, made>>,
           \A r \in Runs : /\ life[r] # "none" => life'[r] # "none"
                           /\ life[r] \in RunEnded => life'[r] \in RunEnded
    PROVE  RunsAgree'
BY DEF RunsAgree, Inv, TypeOK

\* A run the campaign did not add belongs to nobody, or continues one that ended.
LEMMA ForeignRun ==
    ASSUME RunsAgree, Inv, NEW n \in Runs, NEW i, NEW x, NEW gone,
           Enqueue(n, i, x, gone), UNCHANGED made,
           x = Nobody \/ \E r \in Runs : x = owner[r] /\ life[r] \in RunEnded
    PROVE  RunsAgree'
<1>1. /\ life[n] = "none" /\ n \notin made
      /\ \A q \in Runs : owner'[q] = IF q = n THEN x ELSE owner[q]
      /\ \A q \in Runs : life'[q] = IF q = n THEN "live" ELSE life[q]
      /\ \A r \in made : r \in Runs /\ owner[r] \in Experiments
  BY DEF Enqueue, NextRun, Inv, TypeOK, CoreInv, AddsAgree
<1>2. \A r \in made : r # n /\ owner'[r] = owner[r]
  BY <1>1
<1>3. ASSUME NEW q \in Runs, owner'[q] \in Experiments
      PROVE  life'[q] # "none" /\ \E r \in made' : owner'[r] = owner'[q]
  <2>1. CASE q = n
    <3>1. PICK r \in Runs : x = owner[r]
      BY <1>1, <1>3, <2>1, NobodyAssumption
    <3> QED
      BY <1>1, <1>2, <1>3, <2>1, <3>1 DEF RunsAgree
  <2>2. CASE q # n
    BY <1>1, <1>2, <1>3, <2>2 DEF RunsAgree
  <2> QED
    BY <2>1, <2>2
<1>4. ASSUME NEW q \in Runs, NEW r \in made, q # r, owner'[q] = owner'[r]
      PROVE  life'[r] \in RunEnded
  <2>1. r # n /\ owner'[r] = owner[r] /\ life'[r] = life[r] /\ owner[r] # Nobody
    BY <1>1, NobodyAssumption
  <2>2. CASE q = n
    <3>1. PICK m \in Runs : x = owner[m] /\ life[m] \in RunEnded
      BY <1>1, <1>4, <2>1, <2>2
    <3> QED
      BY <1>1, <1>4, <2>1, <2>2, <3>1 DEF RunsAgree
  <2>3. CASE q # n
    BY <1>1, <1>4, <2>1, <2>3 DEF RunsAgree
  <2> QED
    BY <2>2, <2>3
<1> QED
  BY <1>3, <1>4 DEF RunsAgree

\* The one `pueue add` of an experiment is the first run of its command.
LEMMA FirstRun ==
    ASSUME RunsAgree, Inv, NEW n \in Runs, NEW i \in Ids, NEW x \in Experiments, NEW gone,
           Enqueue(n, i, x, gone), made' = made \cup {n}, Made(x) = {}
    PROVE  RunsAgree'
<1>1. /\ life[n] = "none" /\ n \notin made /\ made \in SUBSET Runs
      /\ \A q \in Runs : owner'[q] = IF q = n THEN x ELSE owner[q]
      /\ \A q \in Runs : life'[q] = IF q = n THEN "live" ELSE life[q]
  BY DEF Enqueue, NextRun, Inv, TypeOK, CoreInv, AddsAgree
<1>2. \A q \in Runs : owner[q] # x
  BY DEF RunsAgree, Made
<1>3. ASSUME NEW q \in Runs, owner'[q] \in Experiments
      PROVE  life'[q] # "none" /\ \E r \in made' : owner'[r] = owner'[q]
  <2>1. CASE q = n
    BY <1>1, <2>1
  <2>2. CASE q # n
    <3>1. life[q] # "none" /\ \E r \in made : owner[r] = owner[q]
      BY <1>1, <1>3, <2>2 DEF RunsAgree
    <3> QED
      BY <1>1, <2>2, <3>1
  <2> QED
    BY <2>1, <2>2
<1>4. ASSUME NEW q \in Runs, NEW r \in made', q # r, owner'[q] = owner'[r]
      PROVE  life'[r] \in RunEnded
  BY <1>1, <1>2, <1>4 DEF RunsAgree
<1> QED
  BY <1>3, <1>4 DEF RunsAgree
----------------------------------------------------------------------------
(* The intents in flight.                                                  *)

\* A step that admits no intent.
AdmitsNone ==
    /\ \A x \in Experiments : /\ status[x] = "none" => status'[x] = "none"
                              /\ status'[x] \in Holding => status[x] \in Holding
    /\ pc'["cli"] = "idle" => pc["cli"] = "idle"

LEMMA CapacityKept == ASSUME CapacityAgrees, AdmitsNone PROVE CapacityAgrees'
<1>1. InFlight' \in SUBSET InFlight
  BY DEF InFlight, AdmitsNone
<1>2. IsFiniteSet(InFlight') /\ Cardinality(InFlight') <= Cardinality(InFlight)
  BY <1>1, FS_Subset DEF CapacityAgrees
<1>3. Cardinality(InFlight) \in Nat /\ Cardinality(InFlight') \in Nat
  BY <1>2, FS_CardinalityType DEF CapacityAgrees
<1> QED
  BY <1>2, <1>3, LimitAssumption DEF CapacityAgrees, AdmitsNone

LEMMA CapacityReserved ==
    ASSUME Inv, CapacityAgrees, NEW x \in Experiments, status[x] = "none", Reserve(x),
           Cardinality(InFlight) < MaxParallel, pc'["cli"] # "idle"
    PROVE  CapacityAgrees'
<1>1. InFlight' = InFlight \cup {x} /\ x \notin InFlight
  BY DEF InFlight, Reserve, Holding, Inv, TypeOK
<1>2. IsFiniteSet(InFlight') /\ Cardinality(InFlight') = Cardinality(InFlight) + 1
  BY <1>1, FS_AddElement DEF CapacityAgrees
<1>3. Cardinality(InFlight) \in Nat
  BY FS_CardinalityType DEF CapacityAgrees
<1> QED
  BY <1>2, <1>3, LimitAssumption DEF CapacityAgrees
----------------------------------------------------------------------------
(* The steps.                                                              *)

\* Steps that run nothing and admit nothing.
LEMMA ExtendedKept ==
    ASSUME Extended, AdmitsNone, UNCHANGED <<owner, made, life>>
    PROVE  RunsAgree' /\ CapacityAgrees'
BY RunsKept, CapacityKept DEF Extended

LEMMA StartBaselineExtended ==
    ASSUME Extended, StartBaseline PROVE RunsAgree' /\ CapacityAgrees'
<1>1. InFlight = {} /\ status[Baseline] = "none"
  BY BaselineAssumption DEF StartBaseline, Extended, CapacityAgrees, InFlight, Holding
<1>2. pc'["cli"] # "idle" /\ UNCHANGED <<owner, made, life>>
  BY DEF StartBaseline, pueue, Extended, Inv, TypeOK, Submitters
<1>3. CapacityAgrees'
  BY <1>1, <1>2, BaselineAssumption, LimitAssumption, FS_EmptySet, CapacityReserved
     DEF StartBaseline, Extended
<1> QED
  BY <1>2, <1>3, RunsKept DEF Extended

LEMMA AdmitProposalExtended ==
    ASSUME Extended, NEW x \in Experiments, AdmitProposal(x) PROVE RunsAgree' /\ CapacityAgrees'
<1>1. UNCHANGED <<owner, made, life>> /\ pc'["cli"] = pc["cli"]
  BY DEF AdmitProposal, pueue, Extended, Inv, TypeOK, Submitters
<1>2. CASE UNCHANGED intents
  <2>1. AdmitsNone
    BY <1>1, <1>2 DEF AdmitsNone, intents
  <2> QED
    BY <1>1, <2>1, ExtendedKept
<1>3. CASE status[x] = "none" /\ Reserve(x) /\ HasCapacity /\ \E source \in Experiments : cycle[source]
  <2>1. pc["cli"] # "idle"
    BY <1>3 DEF Extended, CapacityAgrees, Inv, CoreInv, RoundAgrees, Ended
  <2>2. Cardinality(InFlight) < MaxParallel
    BY <1>3 DEF HasCapacity, InFlight
  <2> QED
    BY <1>1, <1>3, <2>1, <2>2, CapacityReserved, RunsKept DEF Extended
<1> QED
  BY <1>2, <1>3 DEF AdmitProposal

LEMMA AddExtended ==
    ASSUME Extended, NEW p \in Submitters, Add(p) PROVE RunsAgree' /\ CapacityAgrees'
<1>1. cur[p] \in Experiments /\ Made(cur[p]) = {}
  BY DEF Add, Extended, Inv, CoreInv, SubmittersAgree
<1>2. AdmitsNone
  BY DEF Add, AdmitsNone, intents, Extended, Inv, TypeOK, Submitters
<1>3. CASE UNCHANGED pueue
  BY <1>2, <1>3, ExtendedKept DEF pueue
<1>4. CASE \E r \in Runs, i \in Ids : Enqueue(r, i, cur[p], {}) /\ made' = made \cup {r}
  BY <1>1, <1>2, <1>4, FirstRun, CapacityKept DEF Extended
<1> QED
  BY <1>3, <1>4 DEF Add, TaskAppears

LEMMA SubmittingExtended ==
    ASSUME Extended, NEW p \in Submitters, Submitting(p) PROVE RunsAgree' /\ CapacityAgrees'
<1>1. CASE Add(p)
  BY <1>1, AddExtended
<1> USE DEF Extended, Inv, TypeOK, pueue, intents
<1>2. Leave(p) \/ Fail(p) => (pc'["cli"] = "idle" => pc["cli"] = "idle")
  BY ForgetEffect DEF Submitters
<1>3. CASE Begin(p)
  <2>1. AdmitsNone
    BY <1>2, <1>3 DEF Begin, AdmitsNone, StillReserved, Holding, Submitters
  <2> QED
    BY <1>3, <2>1, ExtendedKept DEF Begin
<1>4. CASE Verify(p)
  <2>1. AdmitsNone
    BY <1>4 DEF Verify, AdmitsNone, Submitters
  <2> QED
    BY <1>4, <2>1, ExtendedKept DEF Verify
<1>5. CASE MarkAccepted(p)
  <2>1. AdmitsNone
    BY <1>2, <1>5 DEF MarkAccepted, AdmitsNone, Holding, Submitters
  <2> QED
    BY <1>5, <2>1, ExtendedKept DEF MarkAccepted
<1>6. CASE MarkUnreconciled(p)
  <2>1. AdmitsNone
    BY <1>2, <1>6 DEF MarkUnreconciled, AdmitsNone, Holding, Submitters
  <2> QED
    BY <1>6, <2>1, ExtendedKept DEF MarkUnreconciled
<1> QED
  BY <1>1, <1>3, <1>4, <1>5, <1>6 DEF Submitting

LEMMA RoundExtended ==
    ASSUME Extended,
           \/ Reconciling \/ RecoverBoundaries \/ ListReserved \/ ReadStatus \/ EndRound
           \/ TakeLock \/ CompleteAttempt \/ \E x \in Experiments : ReadIntent(x)
    PROVE  RunsAgree' /\ CapacityAgrees'
<1> USE DEF Extended, Inv, TypeOK
<1> SUFFICES AdmitsNone /\ UNCHANGED <<owner, made, life>>
  BY ExtendedKept
<1>1. CASE Reconciling
  <2>1. ASSUME NEW x \in Experiments, QuarantineStale(x)
        PROVE  AdmitsNone /\ UNCHANGED <<owner, made, life>>
    <3>1. Fail("daemon") => pc'["cli"] = pc["cli"]
      BY DEF Fail, Forget, Submitters
    <3> QED
      BY <2>1, <3>1 DEF QuarantineStale, MayQuarantine, AdmitsNone, Holding, pueue, intents, submitters
  <2>2. ASSUME NEW x \in Experiments, ProjectResult(x)
        PROVE  AdmitsNone /\ UNCHANGED <<owner, made, life>>
    <3>1. status' \in {status, [status EXCEPT ![x] = Outcome[life[at]]]}
      BY <2>2 DEF ProjectResult, intents
    <3>2. status[x] = "accepted" \/ status' = status
      BY <2>2 DEF ProjectResult, intents
    <3> QED
      BY <2>2, <3>1, <3>2 DEF ProjectResult, AdmitsNone, Holding, pueue, submitters
  <2>3. ASSUME NEW x \in Experiments, PublishCycle(x) \/ BackfillCycle(x)
        PROVE  AdmitsNone /\ UNCHANGED <<owner, made, life>>
    BY <2>3 DEF PublishCycle, BackfillCycle, AdmitsNone, pueue, intents, submitters
  <2>4. CASE \/ MaterializeEnd \/ EndReconcile \/ StartApplying
             \/ \E r \in Runs : ObserveEnd(r)
    BY <2>4 DEF MaterializeEnd, EndReconcile, StartApplying, ObserveEnd, AdmitsNone, pueue,
       intents, submitters
  <2> QED
    BY <1>1, <2>1, <2>2, <2>3, <2>4 DEF Reconciling
<1>2. CASE RecoverBoundaries
  BY <1>2 DEF RecoverBoundaries, AfterRecovery, Interrupted, AdmitsNone, Holding, pueue, submitters
<1>3. CASE ListReserved \/ ReadStatus \/ EndRound
  BY <1>3 DEF ListReserved, ReadStatus, EndRound, AdmitsNone, pueue, intents, submitters
<1>4. CASE TakeLock
  <2>1. pc'["cli"] = pc["cli"]
    BY <1>4 DEF TakeLock, Leave, Forget, Submitters
  <2> QED
    BY <1>4, <2>1 DEF TakeLock, AdmitsNone, pueue, intents
<1>5. CASE CompleteAttempt \/ \E x \in Experiments : ReadIntent(x)
  BY <1>5 DEF CompleteAttempt, ReadIntent, AdmitsNone, pueue, intents, Submitters
<1> QED
  BY <1>1, <1>2, <1>3, <1>4, <1>5

LEMMA EnvironmentExtended ==
    ASSUME Extended, Environment PROVE RunsAgree' /\ CapacityAgrees'
<1> USE DEF Extended, Inv, TypeOK
<1>1. ASSUME NEW r \in Runs, NEW result \in Endings, TaskEnds(r, result)
      PROVE  RunsAgree' /\ CapacityAgrees'
  <2>1. AdmitsNone
    BY <1>1 DEF TaskEnds, AdmitsNone, intents, submitters
  <2>2. UNCHANGED <<owner, made>> /\ life' = [life EXCEPT ![r] = result] /\ life[r] = "live"
    BY <1>1 DEF TaskEnds
  <2>3. result \in RunEnded
    BY EndingsAssumption DEF RunEnded
  <2> QED
    BY <2>1, <2>2, <2>3, RunsKept, CapacityKept DEF RunEnded
<1>2. ASSUME NEW r \in Runs, Clean(r) PROVE RunsAgree' /\ CapacityAgrees'
  <2>1. AdmitsNone
    BY <1>2 DEF Clean, AdmitsNone, intents, submitters
  <2> QED
    BY <1>2, <2>1, ExtendedKept DEF Clean
<1>3. ASSUME NEW r \in Runs, RestartInPlace(r) PROVE RunsAgree' /\ CapacityAgrees'
  <2>1. AdmitsNone
    BY <1>3 DEF RestartInPlace, AdmitsNone, intents, submitters
  <2>2. PICK n \in Runs : Enqueue(n, tid[r], owner[r], {r})
    BY <1>3 DEF RestartInPlace
  <2>3. life[r] \in RunEnded /\ UNCHANGED made
    BY <1>3 DEF RestartInPlace
  <2> QED
    BY <2>1, <2>2, <2>3, ForeignRun, CapacityKept
<1>4. CASE AddByHand
  <2>1. AdmitsNone
    BY <1>4 DEF AddByHand, AdmitsNone, intents, submitters
  <2> QED
    BY <1>4, <2>1, ForeignRun, CapacityKept DEF AddByHand
<1>5. ASSUME NEW x \in Experiments, LateAdd(x) PROVE RunsAgree' /\ CapacityAgrees'
  <2>1. AdmitsNone
    BY <1>5 DEF LateAdd, AdmitsNone, intents, submitters
  <2>2. Made(x) = {}
    BY <1>5 DEF LateAdd, CoreInv, AddsAgree
  <2> QED
    BY <1>5, <2>1, <2>2, FirstRun, CapacityKept DEF LateAdd, TaskAppears
<1>6. CASE TogglePermission
  <2>1. AdmitsNone
    BY <1>6 DEF TogglePermission, AdmitsNone, intents, submitters
  <2> QED
    BY <1>6, <2>1, ExtendedKept DEF TogglePermission, pueue
<1>7. ASSUME NEW p \in Submitters, Crash(p) PROVE RunsAgree' /\ CapacityAgrees'
  <2>1. pc'["cli"] = "idle" => pc["cli"] = "idle"
    BY <1>7, ForgetEffect DEF Crash, Submitters
  <2>2. AdmitsNone
    BY <1>7, <2>1 DEF Crash, AdmitsNone, intents
  <2> QED
    BY <1>7, <2>2, ExtendedKept DEF Crash, pueue
<1> QED
  BY <1>1, <1>2, <1>3, <1>4, <1>5, <1>6, <1>7 DEF Environment, Pueue
----------------------------------------------------------------------------
(* The theorems.                                                           *)

\* The invariant the run checks, with the limit, is inductive.
THEOREM SubmissionAgrees == Spec => []SubmissionInv
<1>1. Init => Extended
  <2> SUFFICES ASSUME Init PROVE RunsAgree /\ CapacityAgrees
    BY InitInv DEF Extended
  <2>1. RunsAgree
    BY NobodyAssumption DEF Init, RunsAgree
  <2>2. InFlight = {}
    BY DEF Init, InFlight, Holding
  <2> QED
    BY <2>1, <2>2, FS_EmptySet, LimitAssumption DEF Init, CapacityAgrees
<1>2. Extended /\ [Next]_vars => Extended'
  <2> SUFFICES ASSUME Extended, [Next]_vars PROVE RunsAgree' /\ CapacityAgrees'
    BY SubmissionInductive DEF Extended
  <2>1. CASE Daemon
    BY <2>1, RoundExtended, SubmittingExtended, AdmitProposalExtended
       DEF Daemon, Applying, Submitters
  <2>2. CASE Command
    BY <2>2, StartBaselineExtended, SubmittingExtended DEF Command, Submitters
  <2>3. CASE Environment
    BY <2>3, EnvironmentExtended
  <2>4. CASE UNCHANGED vars
    <3>1. AdmitsNone /\ UNCHANGED <<owner, made, life>>
      BY <2>4 DEF vars, AdmitsNone
    <3> QED
      BY <3>1, ExtendedKept
  <2> QED
    BY <2>1, <2>2, <2>3, <2>4 DEF Next
<1>3. Extended => SubmissionInv
  BY DEF Extended, Inv, SubmissionInv
<1> QED
  BY <1>1, <1>2, <1>3, PTL DEF Spec

\* The campaign's live tasks never outnumber its limit, whatever answers are
\* lost, and though adds in doubt may or may not have been carried out.
THEOREM TasksStayBounded == Spec => []ParallelTasksBounded
<1>1. ASSUME SubmissionInv PROVE ParallelTasksBounded
  <2> DEFINE L == {r \in made : r \in present /\ life[r] = "live"}
             f == [r \in L |-> owner[r]]
  <2>1. ASSUME NEW r \in L PROVE owner[r] \in InFlight
    <3>1. /\ r \in made /\ r \in Runs /\ life[r] = "live" /\ owner[r] \in Experiments
          /\ status[owner[r]] \in Status \ {"none", "reserved"}
      BY <1>1 DEF SubmissionInv, CoreInv, TypeOK, AddsAgree
    <3>2. ASSUME status[owner[r]] \in Ended PROVE FALSE
      <4> DEFINE q == bound[owner[r]]
      <4>1. row[owner[r]] = "accepted"
        BY <1>1, <3>1, <3>2 DEF SubmissionInv, CoreInv, TypeOK, RowsAgree, Ended
      <4>2. q \in Runs /\ owner[q] = owner[r] /\ life[q] \in RunEnded
        BY <1>1, <3>1, <3>2, <4>1, RunsAssumption
           DEF SubmissionInv, CoreInv, RowsAgree, BoundToOwnTask, TruthfulResults
      <4>3. life[r] \in RunEnded
        BY <1>1, <3>1, <4>2 DEF SubmissionInv, RunsAgree
      <4> QED
        BY <3>1, <4>3 DEF RunEnded
    <3> QED
      BY <3>1, <3>2 DEF InFlight, Status, Holding
  <2>2. f \in Injection(L, InFlight)
    BY <1>1, <2>1 DEF SubmissionInv, CoreInv, AddedAtMostOnce, Injection, IsInjective
  <2>3. Cardinality(L) <= Cardinality(InFlight) /\ IsFiniteSet(L)
    BY <1>1, <2>2, FS_Injection DEF SubmissionInv, CapacityAgrees
  <2>4. Cardinality(L) \in Nat /\ Cardinality(InFlight) \in Nat
    BY <1>1, <2>3, FS_CardinalityType DEF SubmissionInv, CapacityAgrees
  <2> QED
    BY <1>1, <2>3, <2>4, LimitAssumption DEF SubmissionInv, CapacityAgrees, ParallelTasksBounded
<1>2. SubmissionInv => ParallelTasksBounded
  BY <1>1
<1> QED
  BY <1>2, SubmissionAgrees, PTL
=============================================================================
