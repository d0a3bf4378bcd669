------------------------- MODULE CampaignSubmission -------------------------
(***************************************************************************)
(* The experiments of one campaign on their way to Pueue and back.  An     *)
(* intent is reserved in SQLite, submitted by the CLI or the daemon under  *)
(* the project admission lock, bound to the task Pueue shows for it, and   *)
(* settled by the reconciliation of that task's end.  No transaction spans *)
(* SQLite and Pueue; processes crash and answers are lost in between.      *)
(***************************************************************************)
EXTENDS Naturals, FiniteSets

CONSTANTS
    Experiments,   \* rows of experiments, one submission row each
    Baseline,      \* the experiment `campaign start` reserves
    Runs,          \* runs of Pueue tasks: an id and when it was enqueued
    Ids,           \* Pueue's task ids
    NoRun, NoId, Nobody,
    MaxParallel,   \* max_parallel_experiments of the campaign limits
    ReuseIds,      \* whether Pueue may give an old id to another run
    Endings,       \* the ways tasks end that are explored
    MaxOthers,     \* bound: runs the campaign did not add
    MaxFaults      \* bound: crashes, failed calls and lost answers explored

ASSUME BaselineAssumption == Baseline \in Experiments
ASSUME NobodyAssumption == Nobody \notin Experiments
ASSUME RunsAssumption == Runs \subseteq Nat /\ NoRun \notin Runs
ASSUME IdsAssumption == NoId \notin Ids
ASSUME LimitAssumption == MaxParallel \in Nat \ {0}
ASSUME BoundsAssumption == MaxOthers \in Nat /\ MaxFaults \in Nat
ASSUME ReuseAssumption == ReuseIds \in BOOLEAN
ASSUME EndingsAssumption == Endings \subseteq {"success", "failed", "killed"}

VARIABLES
    \* SQLite: experiments.status, submissions.status, the stored task
    \* identity, budget_reservations.status
    status, row, bound, budget,
    \* SQLite: the decision attempt that proposed x is completed; the
    \* decision event of x's own result is published
    applied, cycle,
    \* SQLite: terminal task_observations; terminal events
    seenEnd, recorded,
    \* Pueue: whose command a run has, its id, its state, what status lists
    owner, tid, life, present,
    \* `pueue add` processes that outlived the submitter that started them
    late,
    \* the two submitters and the project admission lock they share
    pc, cur, saw, got, sig, lock,
    \* the daemon's round: phase, intents listed, Pueue snapshot, ends left
    phase, todo, snap, due, at, step,
    \* may the campaign submit; faults so far; runs created by `pueue add`
    permitted, faults, made

intents    == <<status, row, bound, budget>>
decisions  == <<applied, cycle>>
observed   == <<seenEnd, recorded>>
pueue      == <<owner, tid, life, present, made>>
local      == <<cur, saw, got, sig>>
submitters == <<pc, cur, saw, got, sig, lock>>
round      == <<phase, todo, snap, due, at, step>>

vars == <<status, row, bound, budget, applied, cycle, seenEnd, recorded,
          owner, tid, life, present, late, pc, cur, saw, got, sig, lock,
          phase, todo, snap, due, at, step, permitted, faults, made>>

Submitters == {"cli", "daemon"}
RunEnded   == {"success", "failed", "killed"}        \* of a Pueue run
Ended      == {"succeeded", "failed", "cancelled"}   \* of an experiment
Status     == {"none", "reserved", "submitting", "accepted", "unreconciled"} \cup Ended

\* What counts against max_parallel_experiments.
Holding    == {"reserved", "submitting", "accepted", "unreconciled"}

TypeOK ==
    /\ status \in [Experiments -> Status]
    /\ row \in [Experiments -> {"none", "pending", "accepted", "unreconciled"}]
    /\ bound \in [Experiments -> Runs \cup {NoRun}]
    /\ budget \in [Experiments -> {"none", "reserved", "consumed"}]
    /\ applied \in [Experiments -> BOOLEAN]
    /\ cycle \in [Experiments -> BOOLEAN]
    /\ seenEnd \in SUBSET Runs
    /\ recorded \in SUBSET Runs
    /\ owner \in [Runs -> Experiments \cup {Nobody}]
    /\ tid \in [Runs -> Ids \cup {NoId}]
    /\ life \in [Runs -> {"none", "live"} \cup RunEnded]
    /\ present \in SUBSET Runs
    /\ late \in SUBSET Experiments
    /\ pc \in [Submitters -> {"idle", "read", "admitted", "held", "adding",
                              "verifying", "accepting", "doubt", "gone"}]
    /\ cur \in [Submitters -> Experiments \cup {Nobody}]
    /\ saw \in [Submitters -> Status]
    /\ got \in [Submitters -> Ids \cup {NoId}]
    /\ sig \in [Submitters -> Runs \cup {NoRun}]
    /\ lock \in Submitters \cup {"free"}
    /\ phase \in {"down", "idle", "dispatch", "reconcile", "backfill", "apply"}
    /\ todo \in SUBSET Experiments
    /\ snap \in SUBSET Runs
    /\ due \in SUBSET Runs
    /\ at \in Runs \cup {NoRun}
    /\ step \in {"none", "resolve", "record", "publish"}
    /\ permitted \in BOOLEAN
    /\ faults \in 0..MaxFaults
    /\ made \in SUBSET Runs

Init ==
    /\ status = [x \in Experiments |-> "none"]
    /\ row = [x \in Experiments |-> "none"]
    /\ bound = [x \in Experiments |-> NoRun]
    /\ budget = [x \in Experiments |-> "none"]
    /\ applied = [x \in Experiments |-> FALSE]
    /\ cycle = [x \in Experiments |-> FALSE]
    /\ seenEnd = {} /\ recorded = {}
    /\ owner = [r \in Runs |-> Nobody]
    /\ tid = [r \in Runs |-> NoId]
    /\ life = [r \in Runs |-> "none"]
    /\ present = {} /\ made = {} /\ late = {}
    /\ pc = [p \in Submitters |-> "idle"]
    /\ cur = [p \in Submitters |-> Nobody]
    /\ saw = [p \in Submitters |-> "none"]
    /\ got = [p \in Submitters |-> NoId]
    /\ sig = [p \in Submitters |-> NoRun]
    /\ lock = "free"
    /\ phase = "down"
    /\ todo = {} /\ snap = {} /\ due = {} /\ at = NoRun /\ step = "none"
    /\ permitted = TRUE
    /\ faults = 0
----------------------------------------------------------------------------
(* Pueue: what it does when called, and what its users do to it.           *)

NextRun(r) == life[r] = "none" /\ \A q \in Runs : q < r => life[q] # "none"

FreeId(i) == \A r \in Runs : tid[r] = i => ReuseIds /\ r \notin present

\* Run r enters the queue under id i with x's command, in place of `replaced`.
Enqueue(r, i, x, replaced) ==
    /\ NextRun(r)
    /\ owner' = [owner EXCEPT ![r] = x]
    /\ tid' = [tid EXCEPT ![r] = i]
    /\ life' = [life EXCEPT ![r] = "live"]
    /\ present' = (present \ replaced) \cup {r}

\* One `pueue add` of x's command reaches the queue.
TaskAppears(x) ==
    \E r \in Runs, i \in Ids :
        FreeId(i) /\ Enqueue(r, i, x, {}) /\ made' = made \cup {r}

TaskEnds(r, result) ==
    /\ r \in present /\ life[r] = "live"
    /\ life' = [life EXCEPT ![r] = result]
    /\ UNCHANGED <<intents, decisions, observed, owner, tid, present, made,
                   late, submitters, round, permitted, faults>>

\* `pueue clean` or `remove`: the run is no longer listed.
Clean(r) ==
    /\ r \in present /\ life[r] \in RunEnded
    /\ present' = present \ {r}
    /\ UNCHANGED <<intents, decisions, observed, owner, tid, life, made,
                   late, submitters, round, permitted, faults>>

OthersAllowed == Cardinality({r \in Runs : life[r] # "none"} \ made) < MaxOthers

\* A task somebody enqueues by hand in the project's group.
AddByHand ==
    /\ OthersAllowed
    /\ \E r \in Runs, i \in Ids : FreeId(i) /\ Enqueue(r, i, Nobody, {})
    /\ UNCHANGED <<intents, decisions, observed, made, late, submitters,
                   round, permitted, faults>>

\* `pueue restart --in-place`: the same id and command, enqueued anew.
RestartInPlace(r) ==
    /\ ReuseIds /\ OthersAllowed
    /\ r \in present /\ life[r] \in RunEnded
    /\ \E n \in Runs : Enqueue(n, tid[r], owner[r], {r})
    /\ UNCHANGED <<intents, decisions, observed, made, late, submitters,
                   round, permitted, faults>>

\* An add whose submitter died while it waited for the answer.
LateAdd(x) ==
    /\ x \in late
    /\ late' = late \ {x}
    /\ TaskAppears(x)
    /\ UNCHANGED <<intents, decisions, observed, submitters, round,
                   permitted, faults>>

\* The campaign leaves or enters `active`, the project is paused or resumed.
TogglePermission ==
    /\ permitted' = ~permitted
    /\ UNCHANGED <<intents, decisions, observed, pueue, late, submitters,
                   round, faults>>
----------------------------------------------------------------------------
(* How a submitter gives up its work: the admission lock is dropped with   *)
(* the process or the call that held it.                                   *)

\* Mutant: only the exit of a command releases the lock.
LockAfter_Command(p) == IF lock = p /\ p = "cli" THEN "free" ELSE lock

LockAfter(p) == IF lock = p THEN "free" ELSE lock

Forget(p, where) ==
    /\ pc' = [pc EXCEPT ![p] = where]
    /\ cur' = [cur EXCEPT ![p] = Nobody]
    /\ saw' = [saw EXCEPT ![p] = "none"]
    /\ got' = [got EXCEPT ![p] = NoId]
    /\ sig' = [sig EXCEPT ![p] = NoRun]
    /\ lock' = LockAfter(p)

StopRound ==
    /\ phase' = "down" /\ step' = "none" /\ at' = NoRun
    /\ todo' = {} /\ snap' = {} /\ due' = {}

\* Done with this intent: the command exits, the daemon takes the next one.
Leave(p) ==
    \/ p = "cli" /\ Forget(p, "gone") /\ UNCHANGED round
    \/ p = "daemon" /\ Forget(p, "idle") /\ todo' = todo \ {cur[p]}
       /\ UNCHANGED <<phase, snap, due, at, step>>

\* An error leaves the command, or ends the daemon's run with its round.
Fail(p) ==
    \/ p = "cli" /\ Forget(p, "gone") /\ UNCHANGED round
    \/ p = "daemon" /\ Forget(p, "idle") /\ StopRound

Fault == faults < MaxFaults /\ faults' = faults + 1

\* A process dies, or a call fails where the code only passes the error on.
Crash(p) ==
    /\ Fault
    /\ IF p = "cli" THEN pc[p] \notin {"idle", "gone"} ELSE phase # "down"
    /\ late' = IF pc[p] = "adding" THEN late \cup {cur[p]} ELSE late
    /\ Fail(p)
    /\ UNCHANGED <<intents, decisions, observed, pueue, permitted>>
----------------------------------------------------------------------------
(* Reserving an intent.                                                    *)

Reserve(x) ==
    /\ status' = [status EXCEPT ![x] = "reserved"]
    /\ row' = [row EXCEPT ![x] = "pending"]
    /\ budget' = [budget EXCEPT ![x] = "reserved"]
    /\ UNCHANGED bound

\* `campaign start`: lock the project, commit campaign and baseline at once.
StartBaseline ==
    /\ pc["cli"] = "idle" /\ lock = "free" /\ permitted
    /\ Reserve(Baseline)
    /\ lock' = "cli"
    /\ pc' = [pc EXCEPT !["cli"] = "held"]
    /\ cur' = [cur EXCEPT !["cli"] = Baseline]
    /\ saw' = [saw EXCEPT !["cli"] = "reserved"]
    /\ UNCHANGED <<decisions, observed, pueue, late, got, sig, round,
                   permitted, faults>>

\* Mutant: a quarantined experiment no longer holds its slot.
HasCapacity_Unquarantined ==
    Cardinality({x \in Experiments : status[x] \in {"reserved", "submitting", "accepted"}})
        < MaxParallel

HasCapacity ==
    Cardinality({x \in Experiments : status[x] \in Holding}) < MaxParallel

\* The daemon applies a persisted decision that proposes x: a new intent,
\* or the one an interrupted application of the same attempt left behind.
AdmitProposal(x) ==
    /\ phase = "apply" /\ pc["daemon"] = "idle"
    /\ lock = "free" /\ permitted
    /\ x # Baseline /\ ~applied[x]
    /\ \/ /\ status[x] = "none"
          /\ \E source \in Experiments : cycle[source]
          /\ HasCapacity
          /\ Reserve(x)
       \/ status[x] # "none" /\ UNCHANGED intents
    /\ lock' = "daemon"
    /\ pc' = [pc EXCEPT !["daemon"] = "admitted"]
    /\ cur' = [cur EXCEPT !["daemon"] = x]
    /\ UNCHANGED <<decisions, observed, pueue, late, saw, got, sig, round,
                   permitted, faults>>

\* The attempt is completed before the intent it admitted is submitted.
CompleteAttempt ==
    /\ pc["daemon"] = "admitted"
    /\ applied' = [applied EXCEPT ![cur["daemon"]] = TRUE]
    /\ pc' = [pc EXCEPT !["daemon"] = "held"]
    /\ saw' = [saw EXCEPT !["daemon"] = status[cur["daemon"]]]
    /\ UNCHANGED <<intents, cycle, observed, pueue, late, cur, got, sig, lock,
                   round, permitted, faults>>
----------------------------------------------------------------------------
(* Submitting an intent.  The daemon reads the experiment first and tries   *)
(* the lock afterwards; the CLI and a decision hold the lock already.       *)

ReadIntent(x) ==
    /\ phase = "dispatch" /\ pc["daemon"] = "idle" /\ x \in todo
    /\ pc' = [pc EXCEPT !["daemon"] = "read"]
    /\ cur' = [cur EXCEPT !["daemon"] = x]
    /\ saw' = [saw EXCEPT !["daemon"] = status[x]]
    /\ UNCHANGED <<intents, decisions, observed, pueue, late, got, sig, lock,
                   round, permitted, faults>>

TakeLock ==
    /\ pc["daemon"] = "read"
    /\ \/ /\ lock = "free"
          /\ lock' = "daemon"
          /\ pc' = [pc EXCEPT !["daemon"] = "held"]
          /\ UNCHANGED <<local, round>>
       \/ lock # "free" /\ Leave("daemon")
    /\ UNCHANGED <<intents, decisions, observed, pueue, late, permitted, faults>>

\* Mutant: the transition to submitting trusts the status read before.
StillReserved_Trusted(x) == TRUE

StillReserved(x) == status[x] = "reserved" /\ row[x] = "pending" /\ bound[x] = NoRun

\* What follows depends on the status read, the write on the status now.
Begin(p) ==
    /\ pc[p] = "held"
    /\ \/ /\ saw[p] = "reserved" /\ StillReserved(cur[p]) /\ permitted
          /\ status' = [status EXCEPT ![cur[p]] = "submitting"]
          /\ pc' = [pc EXCEPT ![p] = "adding"]
          /\ UNCHANGED <<row, bound, budget, local, lock, round>>
       \/ /\ saw[p] = "reserved" /\ StillReserved(cur[p]) /\ ~permitted
          /\ Leave(p) /\ UNCHANGED intents
       \/ /\ \/ saw[p] = "reserved" /\ ~StillReserved(cur[p])
             \/ saw[p] = "unreconciled"
          /\ Fail(p) /\ UNCHANGED intents
       \/ /\ saw[p] = "submitting"
          /\ pc' = [pc EXCEPT ![p] = "doubt"]
          /\ UNCHANGED <<intents, local, lock, round>>
       \/ /\ saw[p] \in {"accepted"} \cup Ended
          /\ Leave(p) /\ UNCHANGED intents
    /\ UNCHANGED <<decisions, observed, pueue, late, permitted, faults>>

\* `pueue add`: its answer arrives or is lost, or there is no task at all.
Add(p) ==
    /\ pc[p] = "adding"
    /\ \/ /\ \E r \in Runs, i \in Ids :
                /\ FreeId(i) /\ Enqueue(r, i, cur[p], {})
                /\ made' = made \cup {r}
                /\ got' = [got EXCEPT ![p] = i]
          /\ pc' = [pc EXCEPT ![p] = "verifying"]
          /\ UNCHANGED faults
       \/ /\ TaskAppears(cur[p]) /\ Fault
          /\ pc' = [pc EXCEPT ![p] = "doubt"]
          /\ UNCHANGED got
       \/ /\ Fault
          /\ pc' = [pc EXCEPT ![p] = "doubt"]
          /\ UNCHANGED <<pueue, got>>
    /\ UNCHANGED <<intents, decisions, observed, late, cur, saw, sig, lock,
                   round, permitted>>

\* Mutant: the id in Pueue's answer is taken for the identity of the task.
Shown_ById(p) == {r \in present : tid[r] = got[p]}

\* The listed task with the answered id, if its command is the experiment's.
Shown(p) == {r \in present : tid[r] = got[p] /\ owner[r] = cur[p]}

Verify(p) ==
    /\ pc[p] = "verifying"
    /\ \/ \E r \in Shown(p) :
            /\ sig' = [sig EXCEPT ![p] = r]
            /\ pc' = [pc EXCEPT ![p] = "accepting"]
            /\ UNCHANGED faults
       \/ /\ \/ Shown(p) = {} /\ UNCHANGED faults
             \/ Fault
          /\ pc' = [pc EXCEPT ![p] = "doubt"]
          /\ UNCHANGED sig
    /\ UNCHANGED <<intents, decisions, observed, pueue, late, cur, saw, got,
                   lock, round, permitted>>

\* Bind the task, or mark the intent when the row has changed meanwhile.
MarkAccepted(p) ==
    /\ pc[p] = "accepting"
    /\ \/ /\ status[cur[p]] = "submitting" /\ row[cur[p]] = "pending"
          /\ status' = [status EXCEPT ![cur[p]] = "accepted"]
          /\ row' = [row EXCEPT ![cur[p]] = "accepted"]
          /\ bound' = [bound EXCEPT ![cur[p]] = sig[p]]
          /\ Leave(p)
          /\ UNCHANGED <<budget, faults>>
       \/ /\ \/ status[cur[p]] # "submitting" /\ UNCHANGED faults
             \/ Fault
          /\ pc' = [pc EXCEPT ![p] = "doubt"]
          /\ UNCHANGED <<intents, local, lock, round>>
    /\ UNCHANGED <<decisions, observed, pueue, late, permitted>>

\* Only a submitting intent becomes unreconciled; the caller fails anyway.
MarkUnreconciled(p) ==
    /\ pc[p] = "doubt"
    /\ IF status[cur[p]] = "submitting"
       THEN /\ status' = [status EXCEPT ![cur[p]] = "unreconciled"]
            /\ row' = [row EXCEPT ![cur[p]] = "unreconciled"]
            /\ UNCHANGED <<bound, budget>>
       ELSE UNCHANGED intents
    /\ Fail(p)
    /\ UNCHANGED <<decisions, observed, pueue, late, permitted, faults>>
----------------------------------------------------------------------------
(* The daemon's rounds: startup recovery, dispatch, reconciliation, apply. *)

Interrupted == {x \in Experiments : status[x] = "submitting"}

\* Mutant: recovery makes interrupted intents ready to be submitted again.
AfterRecovery_Resubmit == [intent |-> "reserved", row |-> "pending"]

AfterRecovery == [intent |-> "unreconciled", row |-> "unreconciled"]

\* It takes no lock: a live command's intent is quarantined like a dead one's.
RecoverBoundaries ==
    /\ phase = "down"
    /\ \A x \in Interrupted : row[x] = "pending" /\ bound[x] = NoRun
    /\ status' = [x \in Experiments |->
                    IF x \in Interrupted THEN AfterRecovery.intent ELSE status[x]]
    /\ row' = [x \in Experiments |->
                    IF x \in Interrupted THEN AfterRecovery.row ELSE row[x]]
    /\ phase' = "idle"
    /\ UNCHANGED <<bound, budget, decisions, observed, pueue, late, submitters,
                   todo, snap, due, at, step, permitted, faults>>

\* Mutant: only intents without a decision attempt are listed.
Listed_BaselineOnly == {x \in {Baseline} : status[x] = "reserved"}

Listed == {x \in Experiments : status[x] = "reserved"}

ListReserved ==
    /\ phase = "idle"
    /\ phase' = "dispatch"
    /\ todo' = IF permitted THEN Listed ELSE {}
    /\ UNCHANGED <<intents, decisions, observed, pueue, late, submitters,
                   snap, due, at, step, permitted, faults>>

\* Mutant: a round takes up only the ends it has not observed before.
EndsToProcess_NewOnly == {r \in present : life[r] \in RunEnded} \ seenEnd

EndsToProcess == {r \in present : life[r] \in RunEnded}

ReadStatus ==
    /\ phase = "dispatch" /\ pc["daemon"] = "idle" /\ todo = {}
    /\ phase' = "reconcile"
    /\ snap' = present
    /\ due' = EndsToProcess
    /\ UNCHANGED <<intents, decisions, observed, pueue, late, submitters,
                   todo, at, step, permitted, faults>>

ObserveEnd(r) ==
    /\ phase = "reconcile" /\ at = NoRun /\ r \in due
    /\ seenEnd' = seenEnd \cup {r}
    /\ at' = r /\ step' = "resolve"
    /\ due' = due \ {r}
    /\ UNCHANGED <<intents, decisions, recorded, pueue, late, submitters,
                   phase, todo, snap, permitted, faults>>

\* Mutant: a stored identity is compared by task id alone.
SameRun_ById(x, r) == bound[x] # NoRun /\ tid[bound[x]] = tid[r]

\* The stored id and signature are those of run r.
SameRun(x, r) == bound[x] = r

\* Accepted submissions stored under r's id.
Candidates(r) ==
    {x \in Experiments : row[x] = "accepted" /\ bound[x] # NoRun
                         /\ tid[bound[x]] = tid[r]}
Stale(r)   == {x \in Candidates(r) : \A t \in snap : ~SameRun(x, t)}
Matches(r) == {x \in Candidates(r) : SameRun(x, r)}

\* Mutant: any identity that disappeared is quarantined, a settled one too.
MayQuarantine_Any(x) == TRUE

MayQuarantine(x) == status[x] = "accepted"

\* An identity under this id that Pueue no longer shows is quarantined; a
\* settled experiment cannot be, which fails the round.
QuarantineStale(x) ==
    /\ step = "resolve" /\ x \in Stale(at)
    /\ \/ /\ MayQuarantine(x)
          /\ status' = [status EXCEPT ![x] = "unreconciled"]
          /\ row' = [row EXCEPT ![x] = "unreconciled"]
          /\ UNCHANGED <<bound, budget, submitters, round>>
       \/ /\ ~MayQuarantine(x)
          /\ Fail("daemon") /\ UNCHANGED intents
    /\ UNCHANGED <<decisions, observed, pueue, late, permitted, faults>>

\* Mutant: the result is the task's own word for it.
Outcome_Verbatim == [success |-> "succeeded", failed |-> "failed", killed |-> "killed"]

Outcome == [success |-> "succeeded", failed |-> "failed", killed |-> "cancelled"]

\* The run's end becomes its experiment's result; repeating it is harmless.
ProjectResult(x) ==
    /\ step = "resolve" /\ Stale(at) = {} /\ x \in Matches(at)
    /\ IF status[x] = "accepted"
       THEN /\ status' = [status EXCEPT ![x] = Outcome[life[at]]]
            /\ budget' = [budget EXCEPT ![x] = "consumed"]
            /\ UNCHANGED <<row, bound>>
       ELSE status[x] = Outcome[life[at]] /\ UNCHANGED intents
    /\ step' = "record"
    /\ UNCHANGED <<decisions, observed, pueue, late, submitters,
                   phase, todo, snap, due, at, permitted, faults>>

\* The end's event: for its experiment, or for a task nobody here submitted.
MaterializeEnd ==
    /\ \/ step = "record"
       \/ step = "resolve" /\ Stale(at) = {} /\ Matches(at) = {}
    /\ recorded' = recorded \cup {at}
    /\ IF step = "record"
       THEN step' = "publish" /\ UNCHANGED at
       ELSE step' = "none" /\ at' = NoRun
    /\ UNCHANGED <<intents, decisions, seenEnd, pueue, late, submitters,
                   phase, todo, snap, due, permitted, faults>>

PublishCycle(x) ==
    /\ step = "publish" /\ x \in Matches(at)
    /\ cycle' = [cycle EXCEPT ![x] = TRUE]
    /\ step' = "none" /\ at' = NoRun
    /\ UNCHANGED <<intents, applied, observed, pueue, late, submitters,
                   phase, todo, snap, due, permitted, faults>>

EndReconcile ==
    /\ phase = "reconcile" /\ at = NoRun /\ due = {}
    /\ phase' = "backfill"
    /\ snap' = {}
    /\ UNCHANGED <<intents, decisions, observed, pueue, late, submitters,
                   todo, due, at, step, permitted, faults>>

\* Mutant: results whose publication a crash prevented are not looked for.
Unpublished_Forgotten == {}

\* A result without a decision event, if one terminal observation has its id.
Unpublished ==
    {x \in Experiments :
        /\ status[x] \in Ended /\ ~cycle[x]
        /\ \E r \in seenEnd :
              /\ Outcome[life[r]] = status[x]
              /\ {q \in seenEnd : tid[q] = tid[bound[x]]} = {r}}

BackfillCycle(x) ==
    /\ phase = "backfill" /\ x \in Unpublished
    /\ cycle' = [cycle EXCEPT ![x] = TRUE]
    /\ UNCHANGED <<intents, applied, observed, pueue, late, submitters, round,
                   permitted, faults>>

StartApplying ==
    /\ phase = "backfill" /\ Unpublished = {}
    /\ phase' = "apply"
    /\ UNCHANGED <<intents, decisions, observed, pueue, late, submitters,
                   todo, snap, due, at, step, permitted, faults>>

EndRound ==
    /\ phase = "apply" /\ pc["daemon"] = "idle"
    /\ phase' = "idle"
    /\ UNCHANGED <<intents, decisions, observed, pueue, late, submitters,
                   todo, snap, due, at, step, permitted, faults>>
----------------------------------------------------------------------------
Submitting(p) ==
    Begin(p) \/ Add(p) \/ Verify(p) \/ MarkAccepted(p) \/ MarkUnreconciled(p)

Reconciling ==
    \/ \E r \in Runs : ObserveEnd(r)
    \/ \E x \in Experiments :
          QuarantineStale(x) \/ ProjectResult(x) \/ PublishCycle(x) \/ BackfillCycle(x)
    \/ MaterializeEnd \/ EndReconcile \/ StartApplying

Applying == CompleteAttempt \/ \E x \in Experiments : AdmitProposal(x)

Daemon ==
    \/ RecoverBoundaries \/ ListReserved \/ ReadStatus \/ EndRound
    \/ TakeLock \/ \E x \in Experiments : ReadIntent(x)
    \/ Submitting("daemon") \/ Reconciling \/ Applying

Command == StartBaseline \/ Submitting("cli")

Pueue ==
    \/ \E r \in Runs, result \in Endings : TaskEnds(r, result)
    \/ \E r \in Runs : Clean(r) \/ RestartInPlace(r)
    \/ \E x \in Experiments : LateAdd(x)
    \/ AddByHand

Environment == Pueue \/ TogglePermission \/ \E p \in Submitters : Crash(p)

Next == Daemon \/ Command \/ Environment

Spec == Init /\ [][Next]_vars
----------------------------------------------------------------------------
(* Safety.                                                                 *)

Made(x) == {r \in made : owner[r] = x}

\* No experiment is run twice: whatever answers are lost, whoever crashes and
\* whoever finds the intent afterwards, `pueue add` runs at most once for it,
\* so that nothing may ever put an intent back to `reserved`.
AddedAtMostOnce == \A r, q \in made : owner[r] = owner[q] => r = q

\* A stored task identity is a run of the experiment's own command, though
\* ids are reused and the answer to `pueue add` is only a number.
BoundToOwnTask == \A x \in Experiments : bound[x] # NoRun => owner[bound[x]] = x

\* An experiment's result is how the run bound to it ended, never the end of
\* another run that was given the same id.
TruthfulResults ==
    \A x \in Experiments :
        status[x] \in Ended => life[bound[x]] \in RunEnded /\ status[x] = Outcome[life[bound[x]]]

\* The campaign never has more experiments running in Pueue than its limit,
\* those counted whose add is in doubt and may have been carried out.
ParallelTasksBounded ==
    Cardinality({r \in made : r \in present /\ life[r] = "live"}) <= MaxParallel

\* The columns that are written together agree.
RowsAgree ==
    \A x \in Experiments :
        /\ status[x] = "none" <=> row[x] = "none"
        /\ status[x] \in {"reserved", "submitting"} <=> row[x] = "pending"
        /\ status[x] = "unreconciled" <=> row[x] = "unreconciled"
        /\ row[x] \in {"none", "pending"} => bound[x] = NoRun
        /\ row[x] = "accepted" => bound[x] \in Runs
        /\ bound[x] # NoRun => life[bound[x]] # "none"

\* What a submitter remembers of its intent still holds, and it has the lock.
SubmittersAgree ==
    /\ \A p \in Submitters :
        /\ pc[p] \in {"idle", "read", "gone"} <=> lock # p
        /\ pc[p] \notin {"idle", "gone"} => cur[p] \in Experiments
        /\ pc[p] \in {"adding", "verifying", "accepting"} =>
              /\ status[cur[p]] \in {"submitting", "unreconciled"}
              /\ cur[p] \notin late
        /\ pc[p] = "adding" => Made(cur[p]) = {}
        /\ pc[p] \in {"verifying", "accepting"} => Made(cur[p]) # {}
        /\ pc[p] = "accepting" =>
              sig[p] \in Runs /\ owner[sig[p]] = cur[p] /\ life[sig[p]] # "none"
    /\ pc["cli"] = "idle" => status[Baseline] = "none"

\* An add still under way is the first; an added experiment was submitted.
AddsAgree ==
    /\ \A x \in late : Made(x) = {} /\ status[x] \in {"submitting", "unreconciled"}
    /\ \A r \in made :
        /\ owner[r] \in Experiments
        /\ status[owner[r]] \notin {"none", "reserved"}
        /\ life[r] # "none"

\* What a reconciliation holds of Pueue and of the rows is still so.
RoundAgrees ==
    /\ \A r \in present \cup snap : life[r] # "none"
    /\ \A r \in due \cup seenEnd : life[r] \in RunEnded
    /\ step = "none" <=> at = NoRun
    /\ at # NoRun => phase = "reconcile" /\ at \in seenEnd
    /\ step \in {"record", "publish"} =>
          \E x \in Experiments : bound[x] = at /\ status[x] \in Ended
    /\ \A x \in Experiments : cycle[x] => status[x] \in Ended

\* One `pueue add` stands behind every run of an experiment's command: what
\* Pueue's users restarted is another run, and the added one has ended.
RunsAgree ==
    /\ \A q \in Runs : owner[q] \in Experiments =>
          life[q] # "none" /\ \E r \in made : owner[r] = owner[q]
    /\ \A q \in Runs, r \in made : q # r /\ owner[q] = owner[r] => life[r] \in RunEnded

InFlight == {x \in Experiments : status[x] \in Holding}

\* The limit holds for intents, and nothing is admitted before the baseline.
CapacityAgrees ==
    /\ IsFiniteSet(InFlight) /\ Cardinality(InFlight) <= MaxParallel
    /\ pc["cli"] = "idle" => \A x \in Experiments : status[x] = "none"

\* The inductive invariant the properties above rest on.
CoreInv ==
    /\ TypeOK
    /\ RowsAgree /\ SubmittersAgree /\ AddsAgree /\ RoundAgrees
    /\ AddedAtMostOnce /\ BoundToOwnTask /\ TruthfulResults

SubmissionInv == CoreInv /\ RunsAgree /\ CapacityAgrees
----------------------------------------------------------------------------
(* Refinement of IntentDelivery.                                           *)

fateOf(x) ==
    CASE status[x] = "none"         -> "absent"
      [] status[x] = "reserved"     -> "promised"
      [] status[x] = "submitting"   -> "exposed"
      [] status[x] = "accepted"     -> "owned"
      [] status[x] = "unreconciled" -> "doubtful"
      [] status[x] \in Ended        -> "settled"

Delivery == INSTANCE IntentDelivery WITH
    fate <- [x \in Experiments |-> fateOf(x)],
    sent <- [x \in Experiments |-> Cardinality(Made(x))]

\* The columns, locks and processes implement the promise made to a campaign:
\* one add at most and only for an intent known to be under way, ownership
\* only of a task that exists, results only of what is owned, and no way
\* back from doubt or from a result.
IntentsDelivered == Delivery!IntentSpec
----------------------------------------------------------------------------
(* Liveness.  The daemon's rounds go on, a daemon that failed is started   *)
(* again, and a command that runs takes its next step.                     *)

Fairness == WF_vars(Daemon) /\ WF_vars(Submitting("cli"))

FairSpec == Spec /\ Fairness

\* Every task end Pueue shows becomes a durable event, unless it is cleaned
\* before a round sees it.
EndsAreRecorded ==
    \A r \in Runs :
        (r \in present /\ life[r] \in RunEnded) ~> (r \in recorded \/ r \notin present)

\* Every result reaches the agent: its decision event is published although a
\* crash may fall between the result and the event and the task be cleaned.
ResultsReachDecision ==
    \A x \in Experiments : status[x] \in Ended ~> cycle[x]

\* A reserved intent is taken up by whoever is left, unless the campaign may
\* not submit: the command that made it may be dead, the lock contended.
ReservedIsTakenUp ==
    \A x \in Experiments :
        status[x] = "reserved" ~> (status[x] # "reserved" \/ ~permitted)

\* A submitter gives the admission lock back, by its own hand or by dying.
LockIsReturned == \A p \in Submitters : lock = p ~> lock # p
=============================================================================
