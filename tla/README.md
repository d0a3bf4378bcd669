# pueue-agent in TLA+

pueue-agent is a supervisor for machine-learning experiments. It keeps its state
in one SQLite database, submits tasks to Pueue, turns the end of a task into a
durable event, and launches a coding agent for the events of a project. The
agent is an ordinary executable that may do anything once it runs, so the whole
design is about one question: what is known, after any failure, about whether an
agent ran? The modules in this directory model the protocols that answer it.

## Inventory

All paths are below `src/src/`.

| component | state | operations | what is hard |
|---|---|---|---|
| event and intervention repositories (`db/repositories.rs`, `db/migrations.rs`, `models.rs`) | rows of `events`, `agent_runs`, `agent_run_events`, `interventions` | insert, claim, defer, fail, dead-letter, reserve, bind, acknowledge, finalize, recover | several tables move together; leases; rows written by a daemon that is gone |
| scheduler tick (`scheduler.rs`, `retry.rs`, `guardrails.rs`) | a claimed batch and a reservation, in memory | recover leases, claim, gate, reserve, launch, resolve | any error ends the tick, and the tick's end ends the daemon |
| agent runner (`agent.rs`, `native_launcher.rs`, `project_logs.rs`) | a handle per run, its cleanup intent; the marker file | bind, spawn, mark running, request release, publish marker, open gate, acknowledge; clean up; poll; time out | the order in which facts become durable; failures at each point |
| process core (`process.rs`) | helper process, process group | verified launch, gate, reap, terminate | the executing child outlives the daemon; another reaper may take it |
| daemon (`daemon.rs`) | owned handles, cleanups, readiness | recovery, rounds, drain | restart at any point; recovery that must not be refused |
| startup recovery (`db/repositories.rs` 4490-4987) | none of its own | inspects markers, ends all interrupted runs | classifies what it cannot observe |
| campaign submissions (`campaign.rs`, `db/campaigns.rs`, `submit.rs`, `pueue.rs`) | experiments, submissions, budget reservations | reserve an intent, add the task, accept it, recover | a task added but not recorded |
| decision coordinator (`decision*.rs`, `db/decisions.rs`) | cycles, attempts, budget | open, reserve, launch, decide, recover | an attempt without a run, a run without an answer |
| callbacks and reconciliation (`events.rs`, `reconcile.rs`, `periodic.rs`) | events by deduplication key | record the end of a task, compare with Pueue | duplicated and missed callbacks |
| running health and termination (`health*.rs`, `detect.rs`, `incidents.rs`, `termination.rs`, `db/running_health.rs`) | incidents, diagnoses, kill requests | observe, diagnose, act, kill | stale observations; a task id that is used again |
| code-change pipeline (`code_change.rs`, `db/code_changes.rs`, `promotion.rs`) | code changes, worktrees, branches | reserve, edit, check, commit, promote, clean up | crash between git and the database |
| research (`research*.rs`, `db/research.rs`) | reviews, sessions, actions | prepare, run, checkpoint, apply | resumption after a crash |
| batches (`batches.rs`) | requests and jobs | claim, submit, settle | partial submission |
| private temp (`environment.rs`), upgrade and service (`upgrade.rs`, `service.rs`) | directories, locks | create, empty, replace | residue that blocks a project |
| policy, configuration, command line, reports | files | read, validate, print | none that a model checker reaches |

How they interact: a Pueue callback or a reconciliation inserts an event. The
scheduler claims due events of a project, reserves the operator's pending
interventions for the prompt and asks the agent runner for a launch. The runner
inserts the run and binds events and interventions to it in one transaction,
starts a helper that waits at a gate, writes the run as running, requests the
release, publishes a marker file, opens the gate and acknowledges the dispatch.
The daemon polls the handle and finalizes run, events and interventions in one
transaction. After a crash startup recovery reads rows and markers and does the
same for every interrupted run. The other coordinators (decisions, research,
editors, diagnoses) use the same runner with rows of their own on top.

Correctness, per component: the dispatch core must never repeat an agent whose
outcome is unknown, must not lose an event, a reservation or a run, and must
always be able to restart. Submissions must not add a task twice. Decisions must
spend the budget once and end every attempt. Health must not kill a task it did
not observe. The pipeline must not promote a commit it did not check. The
hazards, each with its line, are in `PROJECT.json`.

## Modules

| module | what it is |
|---|---|
| `EventDelivery` | what producers of events are promised: an event waits, is bound, exposed, reported, settled; an exposed event waits again only after its outcome was seen |
| `AgentDispatch` | the dispatch core of one project: repositories, tick, launch, finalization, daemon life and startup recovery; safety, liveness and the refinement of `EventDelivery` |
| `MCAgentDispatch` | constants and symmetry for TLC |
| `AgentDispatchProofs` | the proofs about it: types, events, runs, processes |
| `AgentSupervisionProofs` | the proofs continued: handles, outcomes, interventions and retries |
| `AgentDeliveryProofs` | that it implements `EventDelivery` |
| `IntentDelivery` | what a campaign is promised of an experiment it has reserved: at most one `pueue add`, ownership only of a task that exists, no way back from doubt or from a result |
| `CampaignSubmission` | the experiments of one campaign between SQLite and Pueue: reservation, submission by command and daemon, verification, recovery, reconciliation, decision events |
| `MCCampaignSubmission` | runs and symmetry for TLC |
| `CampaignSubmissionProofs` | the proofs about it, the refinement of `IntentDelivery` and the limit on parallel tasks |
| `CodeChangeEditing` | the editing stage of one code change: two attempts, each with event, budget, agent run, gate, marker and process, and startup recovery of interrupted editors |
| `CodeChangeEditingProofs` | the proofs about it, and that it implements `EventDelivery` too |
| `CandidateDelivery` | what a campaign is promised of a candidate: approved, committed, tried and judged once each, installed from the place that the judgement named, crowned only for the files that were tried |
| `CodeChangePromotion` | one code change from its worktree to its cleanup: rounds of checks, commit, candidate experiment, promotion of the best branch, removal |
| `CodeChangePromotionProofs` | the proofs about it, and that it implements `CandidateDelivery` |
| `CycleDelivery` | what a campaign is promised of the decision after an experiment: one cycle at a time, the oldest; asked attempts are counted, prepared ones given back; a cycle given up stops the campaign |
| `DecisionCycle` | the decision loop of one campaign: cycles, attempts, their events and agent runs, application, wake and recovery, and the operator's commands |
| `DecisionCycleProofs` | the proofs about it, and that it implements `CycleDelivery` |
| `RunningHealth` | the experiments of one lineage while their tasks run: suspicion, diagnosis, the kill request and its confirmation, and what follows a kill, against a Pueue that gives ids away again |
| `MCRunningHealth` | constants for TLC |
| `RunningHealthProofs` | the proofs about it, and that it implements `KillDelivery` |
| `KillDelivery` | what the daemon promises about the runs it kills: struck only by a request for that run, followed up only when it was killed and its request settled, never after a resumption |

`CodeChangeEditing`, `CodeChangePromotion` and `DecisionCycle` are small enough to be
instantiated by their configurations directly. The modules share no variable;
each takes what the others do as its environment: an event that `AgentDispatch`
would bind and finalize is a status in `DecisionCycle` and `CodeChangeEditing`, a
proposal that `DecisionCycle` applies is the intent with which `CampaignSubmission`
or a code change begins, and the candidate of `CodeChangePromotion` is submitted
by the protocol of `CampaignSubmission`, as is the successor that `RunningHealth`
reserves. The agent run of a diagnosis has the marker, the gate and the finalizers
of `AgentDispatch`, but its event is claimed and released by the diagnosis
coordinator: that is in `RunningHealth`.

### AgentDispatch and the code

One project is enough for the core: rows are selected by `project_id`, a project
has at most one active run, and projects meet only through the tick that serves
them in turn. What another project can do to this one, end the tick or the
daemon, is `TickFails` and `BeginDrain`.

State. `evStatus`, `attempts`, `runStatus`, `gate`, `ivStatus`, `ivRun` are columns;
`linked` is `agent_run_events`; `evidence` is the policy code and failure stage
that mark a leftover marker; `ending` is what the run's error text and policy
code say, kept as the verdict that was written. `marker` is a file, `child` a
process. `daemon`, `stage`, `batch`, `held`, `handle`, `verdict` are memory and are
lost in `DaemonEnds`. `carried` records which interventions a prompt held.

Actions. Each is one transaction, one file or process step, or one change of
memory, since these are the points between which a crash can fall. Where the
scheduler releases a reservation and then resolves the events in a second
transaction, one action does both and `TickFails` covers the state between.
`BindUnread` and `AckUnread` are the transactions that commit and are reported as
errors. `LaunchFails` only classifies a failure: `KillChild`, `RecordEvidence` and
`FinalizeCleanup` are the retained cleanup handle. `Recover(U, Y)` takes the runs
`U` whose marker could not be inspected and the expired reservations `Y`.

Time is not modelled: a lease may be found lapsed, a deadline passed and a retry
due at any moment, which covers every clock. This includes a marker path that is
reused because a retry falls into the same second.

Left out: the text of prompts and errors, guardrail counters, the reasons that
make a tick defer, fail or block (a choice of exit), replacement of payloads of
queued events, the rows of decision, research, diagnosis and editor roles, the
claims that the diagnosis coordinator makes and releases beside the scheduler
(`LaunchFails` and `LaunchLeavesRun` of `RunningHealth`), a
standard run whose finalizer fails before it has a private temp (the model's
cleanup retries), and database failures inside recovery, which leave the database
as it was.

### CampaignSubmission and the code

One campaign of one project. The two modules share no variable: `AgentDispatch`
says what happens to an event once it is a row, `CampaignSubmission` how the end of
a task becomes one (`recorded`, `cycle`).

State. `status`, `row`, `bound` and `budget` are columns of `experiments`, `submissions` and
`budget_reservations`; `bound` is the task id and signature together, that is, one
run. `applied` is the completion of the decision attempt that proposes an
experiment, `cycle` the published decision event of its result, `seenEnd` the
terminal `task_observations`, `recorded` the terminal events. A run of `Runs` is one
enqueueing of a task: its signature hashes group, id, time of enqueueing and
command, so `r = q` is equality of signatures; runs are numbered in the order in
which they are enqueued. `owner` is the experiment named in the command, which has
the experiment's id in its environment prefix. `pc`, `cur`, `saw`, `got` and `sig` are the
local variables of `submit_accepted_intent_inner` in the two processes that run it,
`lock` the flock on the project root. `phase`, `todo`, `snap`, `due`, `at` and `step` say how
far the daemon's round is. `made` and `faults` are history.

Actions. The daemon reads an intent before it tries the lock (`ReadIntent`, `TakeLock`),
`campaign start` and the application of a decision lock first (`StartBaseline`,
`AdmitProposal`, `CompleteAttempt`). From there both run the same steps: `Begin` (the
match on the status that was read, and the transaction on the status that is),
`Add`, `Verify`, `MarkAccepted`, `MarkUnreconciled`. `Leave` and `Fail` are the two exits:
an error ends the command, and in the daemon it ends the round and the process.
A contended lock ends neither. The round is `RecoverBoundaries` (once after a
start), `ListReserved` and the submissions, `ReadStatus`, for each end `ObserveEnd`,
`QuarantineStale`, `ProjectResult`, `MaterializeEnd` and `PublishCycle`, then `BackfillCycle`
and the decisions, `EndRound`. Each is one transaction or one call to Pueue. The
ends of one snapshot are taken in any order, a superset of the order by id.

Environment. Tasks end and are cleaned, users add tasks of their own and restart
tasks in place, campaign and project stop and resume (`TogglePermission`). With
`ReuseIds` Pueue may give the id of a task that is gone to another. A process may
die between any two steps and any call to Pueue or SQLite may fail (`Crash` covers
the failures that the code passes on), `pueue add` may be carried out without an
answer, not at all, or after its submitter died (`LateAdd`).

Left out: standalone submissions (`submit`, which the reconciliation may adopt),
code-change candidates and research checkpoints, which have a transition to
`submitting` of their own; deferral of a decision event by an open research review;
rolling budgets and the other limits on proposals; rejection of a proposal or of
its attempt, so that a decision may be applied or wait but is not refused; failure
codes, and with them the branch of `mark_accepted` and `mark_unreconciled` that repeats
itself (a caller comes to them once); two tasks under one id or two experiments
with the command of one, which the code quarantines and which the experiment's id
in the command excludes. The merge of a callback's event with the terminal one is
not modelled.

### CodeChangeEditing and the code

One run of `code_change_runs` in state `editing`, its worktree ready. `state`, `att`,
`event`, `agent`, `campaign` and the budget are columns, `marker` a file, `editor` a
process, `daemon` and the place in the coordinator memory. Each action is one
transaction of `advance_ready`, `recover_startup_editors`, the launch or the outcome,
and a crash may fall between any two. Attempt 2 is the repetition of an attempt
that failed in a way that allows it. Startup (`recover_interrupted_with_marker_evidence`,
then the coordinator) binds interrupted editors, looks at markers and either ends
an attempt or marks its outcome as unknown; rows that it does not accept make it
refuse, and the daemon does not come up.

As `EventDelivery`. `PhaseOf` reads the phase of an editor's event off its row, the
number of times its editor began to run, the attempt and `lost` (the crashes that
left an editor without an observer): the event is exposed when the gate opens, and
reported once the attempt has a result that its own daemon stored.

Left out: prompts, diffs and digests (the worktree is only owned by an editor or
not), other users of the agent-run budget except as a window that moves, later
editing stages of the same run, which begin as this one does.

### CodeChangePromotion and the code

One run from `preparing_worktree` to its end. `state`, `digest`, `rows` (check evidence),
`intent`, `winner` and `exp` are columns; `tree` is the version of the worktree, `ref` the
candidate branch, `best` the best branch, `intact` says that the user's own refs
still have the digest that was recorded. Versions never repeat, so a digest is
the version it was taken of. `pc` is the place in `advance_ready`,
`commit_candidate` or `advance_submitted_code_change`, each step of which is one
transaction or one git command. Foreign writes to the worktree (`WriteTree`), moves
of the best branch or of the user's refs, the end of the experiment's task and
another experiment that becomes the best happen at any time.

Left out: which checks are chosen and their sandbox, file-system identities of the
worktree, untracked outputs that the check plan declares, a version that comes
back, the numbers behind `improved`. A capacity or budget limit at the submission of
the candidate is a stutter. `git update-ref` with an old value is `MoveBranch`, and
the roll-back of a move that cannot be confirmed `CheckMove`.

As `CandidateDelivery`. The version approved is the digest while every planned check
has passed on it, the candidate is `ref`, the trial Pueue's `task` and the version it
ended on, verdict and place the persisted intent, the branch `best`; a candidate is
crowned when `winner` names it.

### DecisionCycle and the code

One campaign of one project, whose experiments have ended in the order of their
numbers. `campaign`, `cycle`, `fails`, `att`, `kind`, `event` and `agent` are columns of `campaigns`,
`decision_cycles`, `decision_attempts` (the latest of the cycle), `events` and `agent_runs`
(the latest that is linked to the event). `step`, `cur` and `batch` are the local
variables of the handler that runs: claim, reserve, evidence, budget, insert, bind
and launch in the scheduler; decision, run and event at the end of an agent;
apply in the decision coordinator. `stranded` is history.

Actions. One per transaction. `LockedSteps` are those at which the daemon holds the
admission lock; pause, retire and the rejection of a review take the same lock,
resume does not. `Reserve` joins the deferral of the rest of the batch with the
reservation, since both rows are only read by this handler. A claim may take any
set of due events. `retry_wait` may be due at any moment. The configuration of the
project is read while its events are claimed; an error there fails them and ends
the daemon (`ConfigUnreadable`). Startup (`Restart`) ends interrupted runs, then each
round first recovers attempts (`RecoverUnbound`, `RecoverLostOutput`), and nothing else
happens while one is left.

As `CycleDelivery`. The stage of a cycle is its status, and while it is `running` that of
its attempt (`StageOf`); its agent may be acting while the event is dispatched;
`failures` is the column `fails`.

Left out: the content of evidence and decisions, the counters of an event's
attempts, research that owns a cycle (it defers its work), events of other kinds,
and the limit of a claim or of a query, which with enough decided attempts of
paused campaigns at the head of a query may hide those behind them.

### RunningHealth and the code

The experiments of one lineage, `First` and what resumes it. Whether `First` is
itself a resumption of `Origin` is open in `Init`.

State. `exp`, `parent` and `campaign` are columns of `experiments` and `campaigns`, `escalated`
the health-escalate events. `row` is `running_health.state`, `fails` and `advice` what its
`diagnosis_json` may hold; a row is keyed by the experiment that has the task's id,
which may be one whose run has ended. `spent` stands for the diagnosis events that can
no longer be claimed (an event is named by the failures so far), `agent` for the
active diagnosis run, `released` for one whose event a failed launch has given back
(in `agent_runs` the run is starting or running, in `events` its event waits), `req` for `termination_requests`, one per run and origin.
`task` is Pueue's list: as in `CampaignSubmission` a run is one enqueueing, so a request
names a run, while a kill names an id (`ListedAs`). `step`, `cur` and `src` say where in a
handler the daemon is; `hit` is history.

Actions. Reconciliation is `RegisterRunning` and, for a task that has ended,
`ConfirmKill`, `ProjectTerminal`, one of `ResumeRun`, `Escalate` and `NothingToComplete`, then
`DeleteRow`: one transaction each. Detection is `Observe` and `PolicyAsksKill`; the
observer's execution of a stored advice `ContinueRun` and `DiagnosisAsksKill`; diagnosis
`RequeueInterrupted`, `ClaimDiagnosis`, then `LaunchDiagnosis`, `LaunchFails` or
`LaunchLeavesRun`, `StoreDiagnosis` and `FinishDiagnosis`. The two failures differ in what the
launch leaves: nothing, because no run was bound yet or the bound one was finalized
at once, or a run that could not be finalized. The coordinator releases the event in
both (`ReleaseLaunch`). Of a run that is left the cleanup, if there is one, fails in a
round and ends the daemon (`CleanupFails`), and `Restart` is refused, since startup
recovery wants the event of an active run in flight. Termination is `NotRunning`, `ClaimKill`, `Kill` or `KillFails`, `MarkKill` and
`KillTimesOut`; `Kill` may reach the task and still be reported as failed. A daemon
that is not inside a handler may begin any of them, a superset of the fixed order
of a round; inside a handler only its own next step and the environment go on.
Leases, grace periods and retry times may be over at any moment.

As `KillDelivery`. The life of a run is its task's (`LifeOf`), a request's status that of
its row (`RequestOf`), the runs struck are `hit`, and a run is resumed when an experiment
names it as its parent. `stray` is the one exception, an id given away under a kill.

Left out: the patterns in logs and the rules on staleness and repetition (a choice
in `Observe` and `PolicyAsksKill`), incident rows, the text of a diagnosis, requests
that research binds to its actions, the cleanup of a private temp that keeps a
project from its next diagnosis after the run was finalized, errors of the database
between the two writes of `ReleaseLaunch` (they are the crash there), the other uses of the retry budget (a refused
successor is an escalation), and the submission of the successor, which stays
`reserved` here.

## What the runs check

| run | bounds | result |
|---|---|---|
| `dispatch_safety` | 2 events, 3 runs, 1 intervention, one retry, batches of up to 2, 1 free outage | six invariants and the inductive `DispatchInv` hold, and `AgentDispatch` implements `EventDelivery` (`DeliversEvents`) |
| `dispatch_liveness` | 1 event, 2 runs, 1 intervention, 1 free outage | runs, reservations and first claims end |
| `dispatch_redelivery` | no free outage | `DeliveredAtMostOnce` is violated, see findings |
| `dispatch_stuck_claim` | as liveness | `ClaimsEnd` is violated, see findings |
| `submission_safety` | 3 experiments, limit 1, 3 runs of 2 ids, ids used again, success and kill, 1 run of a bystander, 1 fault; 1.2 million states | the inductive `SubmissionInv` holds, identities and results are true, never a second add or two tasks at once, `IntentDelivery` is implemented |
| `submission_liveness` | 2 experiments, 2 runs of 2 ids used once, failure, 2 faults | ends, results, intents and locks go on |
| `submission_reused_id` | as liveness, ids used again, no fault | `EndsAreRecorded` is violated, see findings |
| `codechange_editing` | 2 attempts, one retry, 2 crashes; 114 thousand states | the inductive `EditingInv` and `EditingIsClaimable` hold, `EventDelivery` is implemented (`EditorsDeliver`), editing ends |
| `codechange_promotion` | 2 checks, 1 foreign write, 1 move of a ref, 1 crash; 0.6 million states | the inductive `PromotionInv` and `CommittedWasChecked` hold, `CandidateDelivery` is implemented (`CandidatesDeliver`), runs settle |
| `promotion_mutation` | 1 check, 1 foreign write | `MutationIsContained` is violated, see findings |
| `decision_cycle` | 2 cycles, 2 attempts each, 1 crash, 1 unreadable configuration, 1 setback, 1 wake; 142 thousand states | the inductive `DecisionInv` and `RecoveryNeverRefuses` hold, `CycleDelivery` is implemented (`CyclesDeliver`), cycles are decided unless two block each other |
| `running_health` | 3 experiments, 1 foreign run that takes an id over, 1 repair, 2 diagnosis attempts, 1 disturbance; 229 thousand states | the inductive `HealthInv` and `AttemptsAreHeld` hold, `KillDelivery` is implemented (`KillsDeliver`), repairs stay within the limit, kills are followed up, requests and suspicions come to an end, with the named exceptions |

The properties of the dispatch core: `NoBlindRetry` (an agent that ran unseen is never
repeated), `OneAgentPerEvent` (nor are two agents at work on one event, orphans
included), `RecoveryNeverBlocked` (no crash leaves rows that recovery refuses),
`ExecutionIsRecorded` (all that recovery decides on is durable before the agent
executes), `OutcomeCanBeRecorded` (the finalizer's checks hold whenever a handle
wants to write), `OnlyFailedGatesRedeliver` (the defect below is the only way in
which an intervention reaches a second executing agent). `EventsFollowRuns` (rows of
events and runs agree), `SupervisedRuns` (an active run has an owner while the daemon
serves), `InterventionsFollowRuns` and `RetryBudget` are consequences of `DispatchInv`, the
invariant that the run checks, and theorems of their own.

The properties of the submissions: `AddedAtMostOnce`, `BoundToOwnTask` and `TruthfulResults`
(an experiment is added once, bound to a run of its own command and judged by the
end of that run, although ids are used again and answers lost), `ParallelTasksBounded`
(the limit counts rows; it bounds tasks because doubt keeps its slot),
`IntentsDelivered` (the refinement), `EndsAreRecorded`, `ResultsReachDecision`,
`ReservedIsTakenUp`, `LockIsReturned`. `SubmissionInv` is the invariant they rest on.

The properties of the code change: `EditorsDeliver` (the editing stage implements
`EventDelivery` with a coordinator, gates and a startup recovery of its own: an event
whose editor may have written the worktree waits again only if the daemon that
started the editor has seen its end), `EditingIsClaimable` (no crash leaves an
editing run without an event that can be claimed), `EditingEnds`; `CommittedWasChecked`
(every check of the round passed on exactly the bytes that are committed),
`CandidatesDeliver` (the pipeline implements `CandidateDelivery`, which also says that
the best branch only moves from the value that the persisted intent saw),
`RunsSettle`. Three more follow from the inductive
invariants and are theorems: `OneEditor` (the worktree never has two editors, and
none once the run has left editing), `UnknownIsFinal` (an editor that ran through a
crash is neither repeated nor judged by its worktree) and `BestWasInstalled` (the
database calls a candidate the best only after the branch was moved to it and its
experiment left the checkout alone).

The properties of the decision loop: `RecoveryNeverRefuses` (an
interrupted attempt and a waiting cycle always have an event that recovery and
wake accept; with any other the round fails, after every restart again),
`CyclesDeliver` (the loop implements `CycleDelivery`), `CyclesSettle` (every cycle is
decided, exhausted or waits while its campaign may run, unless an older or its own
event is stranded or two cycles block each other). `PendingIsDeliverable` (a pending
cycle has an event that will be delivered, with the accidents that lose it named
and counted in `stranded`), `OneActiveAttempt` (a campaign has one active attempt),
`OneAgent` (and one agent run), `AttemptsAreLimited` (no path through claims, crashes and
requeues asks a cycle once too often) and `DegradedIsParked` (an exhausted cycle keeps
its campaign from running, through pause and resume) are parts of `DecisionInv`.

The properties of running health: `KillsDeliver` (the implementation of `KillDelivery`:
from the request to the successor everything concerns one run, although a kill goes
to an id, unless the id is given away while the kill is under way; a request is
recorded as done only for a run that a kill has reached and that is over; a run is
followed up only after it was killed and a request that names it was settled). `KillsAreOwned`, its part about kills,
is in `HealthInv`. `ResumesFit`
(an experiment has one successor, repairs stay within the limit, and a resumed
experiment is neither resumed again nor escalated when its end is projected a second
time), `FollowedUp` (a confirmed kill of the diagnosis leads to a successor or an
escalation through every crash), `KillRequestsSettle` (with the requests that a crash
orphans named, and a daemon that cannot start any more), `AttemptsAreHeld` (whatever
gives an event back, a lapsed claim, recovery or a failed launch, it is the event of
the last attempt, and not that of an agent at work or of a failure that was counted; the
run that a failed launch left active is the exception), `SuspicionsAreJudged` (no row
stays with a diagnosis that nobody works at, with the lost attempts named and the
failed launch that left its run). `HealthInv` says which advice, attempts and requests
go with a row and with a place in a handler.

Each type invariant is the first part of its module's inductive invariant.

Bounds of the dispatch core. Three runs with one retry exhaust the budget of an event and leave a run
for the other one; two events make a batch, and a batch that loses a part. One
free outage (`MaxOutages`) is a crash anywhere or a shutdown between ticks; every
failure of a launch or a tick brings a drain and a restart of its own, which are
not bounded. The interventions of a run are treated alike, so that one shows what
happens to each. `attempts` needs no bound: a claim is either refunded or ends, through
a run or a failed launch, in a retry that the budget limits. Deadlock is not
checked: with every event settled the daemon has nothing to do.

Bounds of the submissions. A baseline and a successor are the shortest chain in
which a decision follows a result; two successors compete for the one slot of the
default policy. Three runs of two ids allow each experiment its run and one that
takes an id over, by a bystander or in place; `MaxOthers` bounds those. `MaxFaults`
counts crashes, failed calls and lost answers: the second one falls into what the
first has left (in the liveness run; the safety run has one and a third
experiment instead). A round that fails by an error of the code is not a fault and
not bounded. `Endings` only selects which ways of ending are explored. Ids are
interchangeable, and so are the successors, in the run that checks no liveness.
Deadlock is checked: the daemon always has a step.

Bounds of the code change. Editing needs both attempts and two crashes, the second
in what startup does about the first; one retry makes both ends of the retry
budget appear. Promotion needs one check of the project and one of the user, so
that a round can fail at either; one write, one move and one crash fall anywhere
and against each other. The runs with one check, two writes and two moves, and
with one check, one write, two moves and two crashes, also pass.

Bounds of the decision loop. Two cycles are the fewest that can compete for the one
attempt; two attempts make one failure that is repeated and one that exhausts.
`MaxSetbacks` counts what may defer or undo a step without a crash: a busy lock,
evidence that cannot be stored, an exhausted budget, a launch that fails early.
Failed launches and agents without a decision are bounded by `MaxAttempts`.
Deadlock is not checked there, nor in the code change: a retired campaign and a
settled run have nothing left to do.

Bounds of running health. One repair is allowed, so the experiment that runs is below
the limit when it is the first of its lineage and at the limit when it is a
resumption itself; in both cases an experiment is left for one resumption too many. Two attempts make one failure that is repeated and one that
exhausts. One foreign run takes the id of the experiment that runs; each kind of
disturbance (crash, failed launch of either kind, paused task, paused campaign, an id given away
under a kill) happens once, alone, at any point. Only the log of the experiment that
runs may ask for a kill by a pattern. Deadlock is not checked: with every task ended and
followed up nothing is left to do.

Fairness of the dispatch core. A tick that started goes on, since every call in it returns or times
out. A drain ends at its deadline (`Stop`). The unit has `Restart=on-failure`, and
a daemon that starts runs recovery before anything else. A round polls every
handle, so a run that passes its deadline is timed out, and a tick starts with the
lapsed leases: both are strong fairness because a tick disables them for a while.
Nothing is assumed of the agent, which may never exit, nor of the operator.

Fairness of the submissions: weak fairness of the daemon's steps as a whole, since
its rounds follow each other, every call in them returns or times out, and both
service definitions start it again after an error (`Restart=on-failure`,
`KeepAlive`); and of the steps of a command that has started. Nothing is assumed of
Pueue: a task may run forever, and a late `pueue add` may never arrive.
`ReservedIsTakenUp` allows a campaign that may not submit to keep its intent.

Fairness of the code change: weak fairness of each group of handlers, since every
round calls the coordinator once and every call in it returns or times out; of
the restart, by the service manager; of the end of a task and of an editor, which
has a deadline. Nothing is assumed of the operator, of foreign writes or of moves.

Fairness of the decision loop: a handler that has begun goes on, startup and
recovery happen (weak fairness of `Restart \/ Continue \/ Recover`); what an idle
daemon can do in round after round it does (strong fairness of `Advance`: due wakes of
the campaign, lapsed leases, ended agents, decisions to apply); claims are made in
the order in which events became due, so that the oldest cycle's event is claimed
in time (strong fairness of `ClaimOldest`). Nothing is assumed of the operator, nor of
a waiting cycle becoming due.

Fairness of running health: weak fairness of `Restart`, by the service manager, and of
`Round` as a whole, since a daemon that is up goes from round to round and an agent
has a time limit. `Restart` is enabled only while startup recovery accepts what it
finds, so that a refusal is final. `CleanupFails` is not fair: a run that a failed
launch left may have no cleanup, and then the daemon goes on without it. Nothing is
assumed of Pueue, whose tasks may run for ever, of its users, of the logs or of the
operator.

## Findings

`dispatch_redelivery`. A launch fails after its marker. The finalizer dead-letters
the events and leaves the intervention applied, as its comment and the
architecture document say, and sets the gate to `failed`. The tick returns the
error, the daemon drains and exits, the service manager restarts it, and the last
statement of startup recovery resets the interventions of every failed run whose
gate is `failed`, this one included. The next run gets the same intervention,
although the first agent may have executed with it. `OnlyFailedGatesRedeliver` shows
that there is no other way.

`dispatch_stuck_claim`. Lease recovery skips events that are linked to a run, and
links are never deleted. An event that is being retried and whose tick ends before
the second run is bound stays claimed for good. `FirstClaimsEnd` shows that events
without an earlier run are recovered.

`submission_reused_id`. The row of a submission stays `accepted` with its task id when
its experiment has its result. The task is cleaned, the next experiment's task is
given its id and ends. `resolve_terminal_experiment` finds the settled experiment
under that id, sees that its run is no longer listed and tries to quarantine it,
which is an error for a settled experiment. The error comes before the event of
the new end is written and ends the round and the daemon; so does every later
round. The architecture document and a test about used-again ids expect an event
for each run; the test has no managed experiment. With ids that are used once
`submission_liveness` shows that every end is recorded.

`promotion_mutation`. The design of the code change says that an experiment which
changes its checkout is projected normally and its result is not promotable. The
reconciliation takes the result in before it projects the end, and taking it in
reopens the candidate and fails when the checkout has changed. The error ends the
daemon in every round, the run stays `experiment_submitted`, and no other project is
served.

Met while modelling, and left without a run of their own:

* Startup recovery is described as the quarantine of stale `submitting` intents
  (`docs/architecture-ja.md:64`). It takes no lock, so a daemon that starts while
  `campaign start` waits for Pueue takes the intent of a living command
  (`db/campaigns.rs:1911`). `IntentsDelivered` shows that nothing worse follows: the
  experiment is in doubt, keeps its slot and is not added again.
* A crash after a decision attempt failed and before its run is finished, and a
  configuration that is unreadable while its event is claimed, leave a pending cycle
  without an event that would be delivered; as the oldest it also holds back the
  younger ones. These are the members of `stranded`, with the claim of
  `dispatch_stuck_claim` as the third.
* A crash between a stored goal claim and the end of its run leaves the event
  dead-lettered; the goal is applied, and `review_reject` (which wants the event
  completed, `db/campaigns.rs:2622-2700`) fails for good. `RejectReview` is then never
  enabled.
* An attempt that is given back for an exhausted budget stays reserved on its pending
  cycle (`scheduler.rs:780-806`, `db/decisions.rs:1523-1589`). When an older cycle that
  was waiting becomes due, it is the oldest, the only one that the scheduler
  dispatches (`scheduler.rs:603-613`), and it may not reserve an attempt because the
  campaign has one (`db/decisions.rs:1271-1282`, `1316-1321`); the cycle that has it is not
  the oldest. Both events are claimed and deferred for ever, in an active campaign
  with budget. This is `Contended` in `CyclesSettle`, which does not hold without it and
  shows that this and a stranded event are the only ways in which a cycle is not
  decided.
* A pause between the check at the start of `apply_ready` and the admission lock makes
  a valid decision count as a failed attempt (`RejectDecision`), where the design
  defers it.
* An editor's stored result and a crash before its agent run is finished: startup
  wants no failure text and no digest in rows that the live code has just given
  one, and refuses (`db/repositories.rs:3811-3830`, `agent.rs:3508-3526`). The same holds
  between the insertion of the agent run and the reservation of the attempt. In
  the model `daemon = "refused"`.
* Retries of a failing reservation of an editor's attempt can run out after the run
  was bound: the event is dead-lettered while the run stays in editing (`Stuck`).
* A crash between `git worktree remove` and the end of the cleanup defers the cleanup
  for ever, and one between the move of the best branch and the final row, followed
  by a stop of the campaign, ends in recovery with the branch moved.
* A crash after an escalation and before its health row is deleted, and a campaign
  that the operator resumes then: the end is projected again and escalated or
  resumed now. A comment in `health.rs` (229-232) calls repeated projections no-ops;
  they are for an experiment that was resumed (`StaysResumed`).
* A daemon that dies after it claimed a kill request leaves it `dispatching`. When the
  task then ends by itself nothing ends the request (`Orphaned`).
* A task that is paused when its diagnosis asks for the kill gets a request whose
  signature names no running task. It is confirmed as moot, no second one is made,
  and the row stays `action_pending`, also when the task runs on.
* A diagnosis whose daemon dies has spent its event and is not among the counted
  failures; the next claim finds the event settled and the row stays `suspicious`
  (`LostAttempt`). The design
  (`docs/superpowers/specs/2026-08-25-zero-adapter-running-health-design.md:247-248`) has
  the attempt counted and the diagnosis restart-safe. An advice to continue sets the
  count back, so that the next attempt may meet the event of an earlier one.
* The launch of a diagnosis that fails after its run was bound, and whose run cannot
  be finalized there and then, leaves a run that nothing can end (`LaunchLeavesRun`).
  `health_diagnosis.rs:362-377` releases the event all the same, through
  `transition_many` (`db/repositories.rs:1682`), which does not ask for the present
  status, so that the event of an active run waits for a retry. The finalizer wants it
  in flight (`db/repositories.rs:5619-5684`): the retained cleanup fails in every poll
  and with it the round and the daemon (`CleanupFails`). Startup recovery refuses the
  pair too (`db/repositories.rs:4820-4830`), before it does anything else, so no later
  daemon starts (`Refused`) and all projects wait until the rows are repaired by hand.
  Without a cleanup (`agent.rs:2949-2960`) the daemon lives on, starts no diagnosis of
  that project, and is refused at its next start. A bound event is the finalizer's
  or recovery's to move, says `docs/architecture-ja.md:256`. `SuspicionsAreJudged` and
  `KillRequestsSettle` fail without the exceptions `released` and `Refused`.
* A launch that fails after its marker and is finalized at once has its event
  dead-lettered as of unknown execution; the same release sets it back, and the
  diagnosis is made again although its agent may have executed (`LaunchFails`).
  `NoBlindRetry` of `AgentDispatch` holds for what the scheduler dispatches, not here.
* A task that ends while its diagnosis agent works takes the row with it; the
  outcome then has no row, which is an error that ends the round and the daemon
  (`DiagnosisWithoutRow`).
* A foreign run with the id of an ended experiment gets a health row under that
  experiment (`RegisterRunning`), and its diagnosis may kill it.

## What is proved

`AgentDispatchProofs` proves for any number of events, runs, interventions,
retries and outages:

* `CoreInductive`: `CoreInv` is inductive. `EventsFollowRuns`, `NoBlindRetry` and
  `OneAgentPerEvent` are not inductive alone: that recovery judges an executed run
  as unknown rests on the marker and the release request being durable before the
  gate opens, so `RunPhases` ties process, marker, gate and status of a run together,
  `HandlePhases` says how far a launch got in terms of the same facts, and `TickPhases`
  that a batch is claimed and memory is empty while the daemon is down.
* `TypeCorrect`, `EventsFollowTheirRuns`, `UnknownExecutionIsNeverRetried` and
  `OneAgentWorksOnAnEvent` follow.

The argument: scheduler steps move only waiting events and touch no run
(`SchedulerFrame`, `WaitingMoves`); most steps of a launch or a poll change neither
which runs are active nor which agents ran (`QuietStep`); a finalizer leaves no
active run and settles exactly its own events (`FinalizeLeaves`, `FinalizeEvents`);
recovery does so for all runs at once and never says "retry" of a run that executed
(`RecoverLeaves`, `RecoverySeesExecution`). The assumptions are the four named ones of
`AgentDispatch` about its constants.

`AgentSupervisionProofs` proves, for the same constants, `DispatchInvariant`, that
`DispatchInv` is invariant. It adds three parts to `CoreInv`, each of which every step
preserves while `CoreInv` holds (the second also needs the first):

* `LaunchPhases` (`LaunchInductive`): what gate, marker and verdict may be beside each
  kind of handle, and that a served active run has one. From it follow `RunsAreSupervised`
  and, since a cleanup handle knows a verdict its gate admits,
  `OutcomesCanBeRecorded`.
* `PromptPhases` (`PromptInductive`): the interventions in the tick's hand are reserved
  and free, those of a starting run reserved for it, those of a running one, or of
  one that executed and was not written off, applied to it. From it follow
  `RestartIsNeverRefused`, `ExecutionLeavesRecords`, `InstructionsFollowRuns` and
  `OnlyWrittenOffIsRedelivered`.
* `BudgetPhases` (`BudgetInductive`): an event has at most as many runs as attempts, one
  fewer while it is claimed, and attempts that wait are below the limit. The claim
  that a tick gives back is the one that paid for no run (`BudgetOfRefunded`), so
  `RetriesAreBounded` follows.

`AgentDeliveryProofs` proves `DispatchImplementsDelivery`. `PhasesOfRuns` reads the phase of
an event off the run that has it (an event has one active run at most, which is
`OneAgentPerEvent` and `EventsFollowRuns`); a step of a run then moves the events of this
run together (`RunMoves`, `EndMoves`), which is one step of `EventDelivery`, and the end
of the daemon and recovery move the events of all runs whose outcome is not known
(`DaemonEndsDelivers`, `RecoverDelivers`). That an exposed event never waits again
unreported is where the core invariant is used.

`CampaignSubmissionProofs` proves for any number of experiments, runs, ids and faults:

* `SubmissionInductive`: `TypeOK /\ CoreInv` is inductive. That an experiment is added
  once needs to know of every submitter how far it is: one that waits for `pueue add`
  holds the lock, remembers an intent that is `submitting` or was quarantined under
  it, and nobody has added that experiment (`SubmittersAgree`); an add that outlived its
  submitter is the only one of its experiment (`AddsAgree`). That a result is the end
  of the bound run needs `RowsAgree` (which columns are set in which status) and
  `RoundAgrees` (what a round has read about ended runs stays true).
* `SubmissionTypeCorrect`, `CoreAgrees`, `NoSecondAdd`, `IdentityIsOwn` and
  `ResultsAreTruthful` follow, and `RecoveryNeverRefused`: the consistency check with which
  startup recovery begins never fails.
* `SubmissionImplementsDelivery`: under the invariant every step is a turn of one promise
  (`TurnStep`), the send of an exposed or doubtful one (`SendStep`), the doubt of all
  interrupted ones at once (`DoubtStep`) or a stutter (`StillStep`, `OtherRunStep`).

One lemma per action carries the induction. `RowsKept`, `SubmittersKept` and
`RoundStepKeeps` say what steps that do not touch rows, submitters or Pueue leave
alone; `QueueStep` and `AddKeeps` what Pueue's own steps and a new run do; `ForgetKeeps`
that giving up at any point leaves nothing behind. The assumptions are the named
ones of `CampaignSubmission` about its constants.

The last part of the module proves `SubmissionAgrees`, that `SubmissionInv` is invariant, and
`TasksStayBounded` from it. The code counts rows, the property counts tasks, and an
experiment may have several runs with its command after a restart in place.
`RunsAgree` says that of these at most the one that is live counts, and that none
exists before an add; `CapacityAgrees` that the rows which hold a slot are never
more than the limit, also while an add is in doubt. A live task of an added
experiment then has a row of its own that holds a slot, which the proof turns into
an injection.

`CodeChangeEditingProofs` proves for any retry limit and any number of crashes that
`EditingInv` is invariant, and `OneEditor`, `UnknownIsFinal` and `EditingIsClaimable` from it.
`OneEditor` alone is not inductive: that startup finds an orphan before anybody
starts a second editor needs `RowsAgree` (an agent run is active exactly while it
holds its event, and was charged), `EditorsAgree` (which rows an editor process has)
and `DoubtHolds` (an unknown outcome is never taken back). `PlaceAgrees` says what the
coordinator has in hand.

Its last part proves `EditorsImplementDelivery`. A step moves the event of one attempt or
none: `OneEventMoves` says which moves of one event are steps of `EventDelivery`, one
lemma per action (`...Stays`, `...Moves`) says which one it is. The move that
`EventDelivery` forbids is from exposed back to waiting, and three steps come near it:
the end of a failed launch, whose attempt is closed by then, after the daemon took the
editor down (`PlaceAgrees`); the end of a run whose attempt failed, which its daemon has seen, since with an attempt in doubt the
daemon is not up (`DoubtHolds`); and startup, which must find an editor that ran and
has no result among the `lost` ones. The last two parts of `DoubtHolds` are in the
invariant for this proof.

`CodeChangePromotionProofs` proves for any number of checks, writes, moves and crashes
that `PromotionInv` is invariant, and `CommittedWasChecked` and `BestWasInstalled` from it. The digest of the diff is compared
before and after the checks and before and after the commit; `RoundInv` orders the
versions (digest, tree a check passed on, tree) so that equality of the ends makes
all of them equal, `IntentInv` says what the persisted intent, the branch and the
experiment know of each other, `PlaceInv` where the coordinator stands.

`PromotionImplementsDelivery` there: most steps change nothing of which `CandidateDelivery`
speaks (`QuietDelivers`), those of a round of checks change only what is approved
(`ApproveStep`), and nothing is approved anew once there is a commit. Commit, submission, end of the
experiment, evaluation, the move of the branch, its roll-back and the final row
have a lemma each. The invariant is used where a guard of the code reads one row
and the promise is about another: that the experiment submitted is the first
(`IntentInv`), that the tree committed is the approved one (`RoundInv`), that the
candidate called the best was put on the branch.

`DecisionCycleProofs` proves for any set of cycles, any number of attempts, crashes,
faults, setbacks and wakes that `DecisionInv` is invariant, and with it
`OneActiveAttempt`, `RecoveryNeverRefuses`, `PendingIsDeliverable`, `AttemptsAreLimited` and
`DegradedIsParked`. That recovery is never refused rests on which statuses an event
may have beside each state of cycle, attempt and run: `AttemptFits`, `RunFits` (an
event in flight or dispatched belongs to an active run, and one that no handler
holds was released for a running attempt), `EventFits`, and `HandFits` for the handler
that is between two transactions. One lemma per action, split into these parts.

`DecisionsImplementDelivery` there: `GiveBackStep`, `FailStep`, `CloseStep` and `ResolveStep` say
what one attempt that is given back, fails, is used or turns out to have an unknown
outcome does to stage, count and campaign, whichever handler or recovery does it;
`QuietStep` and `SwitchStep` cover the rest. The promise that no agent acts beside
another needs `OneAgent` in the invariant, which no guard of the launch states: it
rests on the reservation that only one attempt has, and on startup's having ended
the runs of a daemon before. That a campaign is never active with a cycle given up,
whatever switches it, is `DegradedIsParked`.

`RunningHealthProofs` proves for any number of experiments, foreign runs, repairs,
attempts and disturbances that `HealthInv` is invariant, `KillsAreOwned` from it, and
`RepairsAreLimited` (`ResumesFit`, its invariant and its action property). That a
request recorded as sent has reached its run needs `PlaceInv` (a kill under way is a
dispatched request, and the only task listed under its id is the run it names),
which in turn needs `LineageInv` (an id is only given away when its task is gone).
`TaskMoves`, `RowMoves`, `RequestMoves` and `CampaignMoves` say what a step that moves only
a task, a row, a request or the campaign has to show; most actions are instances of
one of them. `FreshRepair` says that a resumption takes an experiment that had
neither parent nor successor, and `OtherSteps` that nothing else moves a lineage. The
assumptions are the two named ones of the module: the sets are finite and disjoint,
and an id is given away once.

`AttemptsStayHeld` there is `AttemptsAreHeld`, inductive beside `HealthInv`. Its
first part gives it the shape: the spent events of an experiment are `0..(n - 1)`
with the counted failures at most `n`. A claim is then always of the event `n`
(`ClaimHolds`), what is given back before the agent is at work is that one again
(`GivenBack`), and a failure is counted while its own event is spent (`StoreHolds`), also
when the row was deleted and its count begins anew (`DeleteHolds`).

`KillsImplementDelivery` there: a step moves the life of one run (`LifeMoves`), one
request (`RequestTurns`), the runs struck or followed up, or nothing (`QuietStep`). The
follow-up takes the latest request under an id, whoever it names;
`OwnRequestIsSettled` shows that it names the run that ended: a run that is still
listed has its id for itself, and no request names a run without a task. The second
half is the last part of `LineageInv`, added for this proof.

So every safety property of the passing runs, and all six refinements, are theorems
for every value of the constants. Only model-checked: liveness, which is out of the
prover's reach (so are recursive definitions and induction over data; the modules
have none), and the findings, which are counterexamples.

## Not modelled

* Research (`research*.rs`, `db/research.rs`): reviews, sessions, checkpoints and actions
  are the largest subsystem, with an ownership of cycles of their own. In
  `DecisionCycle` it would only defer work.
* Of running health: what in a log makes a run suspicious or matches a pattern, with
  the incident rows, and the requests that research binds to its actions.
* Callbacks: the merging of a callback's event with the one of the reconciliation
  and the replacement of payloads. Events appear as created; `cycle` and `recorded` in
  `CampaignSubmission` are the reconciliation's part.
* Standalone submissions, batches, cancellation and proposals by the user: single
  transactions on rows that the modules have as environment.
* Private temp, process identities and descriptors: below the level of these
  models, which have a helper that waits, is cancelled or executes.
* Policy and configuration, reports, the command line: validation and file access
  without a protocol. The upgrade guard.

The next modules would be, in this order: callbacks against reconciliation (an
abstract "each end of a task is reported once"), research.
