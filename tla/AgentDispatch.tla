--------------------------- MODULE AgentDispatch ---------------------------
(***************************************************************************)
(* The dispatch core of the supervisor for one project: the scheduler      *)
(* tick, the agent runner's launch protocol, run finalization, intervention *)
(* leases, daemon crashes and startup recovery.  Every action is one       *)
(* SQLite transaction, one file-system or process step, or one change of   *)
(* the daemon's memory: the points between which a crash can fall.         *)
(***************************************************************************)
EXTENDS Naturals, FiniteSets

CONSTANTS
    Events,         \* rows of the events table
    Runs,           \* rows of agent_runs, numbered as they are inserted
    Interventions,  \* rows of interventions, by insertion_sequence
    NoRun,          \* agent_run_id IS NULL
    MaxRetries,     \* agent.max_retries of the project config
    ClaimLimit,     \* claim_limit of the scheduler
    MaxOutages      \* bound: crashes and shutdowns explored

ASSUME InterventionsAssumption == Interventions \subseteq Nat
ASSUME NoRunAssumption == NoRun \notin Runs
ASSUME LimitsAssumption == MaxRetries \in Nat /\ ClaimLimit \in Nat \ {0}
ASSUME MaxOutagesAssumption == MaxOutages \in Nat

VARIABLES
    \* SQLite: events, agent_run_events, agent_runs, interventions
    evStatus, attempts, linked, runStatus, gate, evidence, ending,
    ivStatus, ivRun,
    \* the launch markers on disk and the agent processes
    marker, child,
    \* the daemon's memory: phase, scheduler tick, retained handles
    daemon, stage, batch, held, handle, verdict,
    \* history: the interventions in each run's prompt; outages so far
    carried, outages

eventRows == <<evStatus, attempts>>
runRows   == <<linked, runStatus, gate, evidence, ending>>
ivRows    == <<ivStatus, ivRun>>
procs     == <<marker, child>>
tick      == <<stage, batch, held>>
handles   == <<handle, verdict>>
history   == <<carried, outages>>

vars == <<evStatus, attempts, linked, runStatus, gate, evidence, ending,
          ivStatus, ivRun, marker, child, daemon, stage, batch, held,
          handle, verdict, carried, outages>>

EventStatus == {"none", "pending", "claimed", "in_flight", "dispatched",
                "completed", "retry_wait", "failed", "dead_letter"}
RunStatus   == {"none", "starting", "running", "completed", "failed", "timed_out"}
Gate        == {"none", "pending", "release_requested", "released", "failed"}

\* What a handle will write when it finalizes its run, and what the run's
\* row then says: the observed outcome, or how the launch failed.
Outcomes    == {"completed", "failed", "timed_out"}
PreMarker   == {"retry", "policy"}
PostMarker  == {"post_policy", "post_unknown"}
Verdict     == Outcomes \cup PreMarker \cup PostMarker \cup {"pending_marker", "none"}

InLaunch    == {"bound", "spawned", "running", "requested", "published", "released"}
HandleState == InLaunch \cup {"none", "owned", "reaped", "residue", "lost", "cleanup"}

TypeOK ==
    /\ evStatus \in [Events -> EventStatus]
    /\ attempts \in [Events -> Nat]
    /\ linked \in [Runs -> SUBSET Events]
    /\ runStatus \in [Runs -> RunStatus]
    /\ gate \in [Runs -> Gate]
    /\ evidence \in [Runs -> BOOLEAN]
    /\ ending \in [Runs -> Verdict]
    /\ ivStatus \in [Interventions -> {"none", "pending", "reserved", "applied"}]
    /\ ivRun \in [Interventions -> Runs \cup {NoRun}]
    /\ marker \in [Runs -> BOOLEAN]
    /\ child \in [Runs -> {"none", "blocked", "cancelled", "executing", "exited"}]
    /\ daemon \in {"down", "recovering", "ready", "draining"}
    /\ stage \in {"idle", "claimed", "reserved", "launching"}
    /\ batch \in SUBSET Events
    /\ held \in SUBSET Interventions
    /\ handle \in [Runs -> HandleState]
    /\ verdict \in [Runs -> Verdict]
    /\ carried \in [Runs -> SUBSET Interventions]
    /\ outages \in 0..MaxOutages

Init ==
    /\ evStatus = [e \in Events |-> "none"]
    /\ attempts = [e \in Events |-> 0]
    /\ linked = [r \in Runs |-> {}]
    /\ runStatus = [r \in Runs |-> "none"]
    /\ gate = [r \in Runs |-> "none"]
    /\ evidence = [r \in Runs |-> FALSE]
    /\ ending = [r \in Runs |-> "none"]
    /\ ivStatus = [i \in Interventions |-> "none"]
    /\ ivRun = [i \in Interventions |-> NoRun]
    /\ marker = [r \in Runs |-> FALSE]
    /\ child = [r \in Runs |-> "none"]
    /\ daemon = "recovering"
    /\ stage = "idle"
    /\ batch = {}
    /\ held = {}
    /\ handle = [r \in Runs |-> "none"]
    /\ verdict = [r \in Runs |-> "none"]
    /\ carried = [r \in Runs |-> {}]
    /\ outages = 0
----------------------------------------------------------------------------
(* Reading and writing rows.                                               *)

Put(f, S, x) == [y \in DOMAIN f |-> IF y \in S THEN x ELSE f[y]]

Active(r)   == runStatus[r] \in {"starting", "running"}
\* Mutant: the unique index on a project's active run is gone.
NoActiveRun_Unguarded == TRUE

NoActiveRun == \A r \in Runs : ~Active(r)
Executed(r) == child[r] \in {"executing", "exited"}
Live(r)     == child[r] \in {"blocked", "executing"}

\* agent_run_events keeps its rows when the run ends.
Linked(e) == \E r \in Runs : e \in linked[r]

OfRun(r, S) == {i \in Interventions : ivRun[i] = r /\ ivStatus[i] \in S}
\* Mutant: the expiry query selects the reservations that have a run.
Unattached_Inverted == {i \in Interventions : ivStatus[i] = "reserved" /\ ivRun[i] # NoRun}

Unattached  == {i \in Interventions : ivStatus[i] = "reserved" /\ ivRun[i] = NoRun}

RetryTarget(e) == IF attempts[e] <= MaxRetries THEN "retry_wait" ELSE "dead_letter"

Refund(S) ==
    attempts' = [e \in Events |->
                    IF e \in S /\ attempts[e] > 0 THEN attempts[e] - 1 ELSE attempts[e]]

ReturnToPending(I) ==
    /\ ivStatus' = Put(ivStatus, I, "pending")
    /\ ivRun' = Put(ivRun, I, NoRun)
----------------------------------------------------------------------------
(* Producers: callbacks, reconciliation and the periodic check record      *)
(* events; the operator adds interventions, in insertion order.            *)

CreateEvent(e) ==
    /\ evStatus[e] = "none"
    /\ evStatus' = [evStatus EXCEPT ![e] = "pending"]
    /\ UNCHANGED <<attempts, runRows, ivRows, procs, daemon, tick, handles, history>>

AddIntervention(i) ==
    /\ ivStatus[i] = "none"
    /\ \A j \in Interventions : j < i => ivStatus[j] # "none"
    /\ ivStatus' = [ivStatus EXCEPT ![i] = "pending"]
    /\ UNCHANGED <<eventRows, runRows, ivRun, procs, daemon, tick, handles, history>>
----------------------------------------------------------------------------
(* The scheduler tick.  It starts with the lapsed leases of earlier ticks, *)
(* claims a batch, and either drops it or carries it to a bound run.  Any  *)
(* error of a tick ends the daemon: it drains what it owns and exits.      *)

TickMayStart == daemon = "ready" /\ stage = "idle"

\* Mutant: a first claim, with one attempt counted, is never taken back.
RecoverClaims_RetriesOnly(X) ==
    /\ TickMayStart
    /\ X # {}
    /\ \A e \in X : evStatus[e] = "claimed" /\ ~Linked(e) /\ attempts[e] > 1
    /\ evStatus' = Put(evStatus, X, "pending")
    /\ Refund(X)
    /\ UNCHANGED <<runRows, ivRows, procs, daemon, tick, handles, history>>

\* X: the claims whose lease has run out.
RecoverClaims(X) ==
    /\ TickMayStart
    /\ X # {}
    /\ \A e \in X : evStatus[e] = "claimed" /\ ~Linked(e)
    /\ evStatus' = Put(evStatus, X, "pending")
    /\ Refund(X)
    /\ UNCHANGED <<runRows, ivRows, procs, daemon, tick, handles, history>>

\* Y: the reservations no run took over, whose lease has run out.
RecoverReservations(Y) ==
    /\ TickMayStart
    /\ Y # {} /\ Y \subseteq Unattached
    /\ ReturnToPending(Y)
    /\ UNCHANGED <<eventRows, runRows, procs, daemon, tick, handles, history>>

Due(S) == S # {} /\ \A e \in S : evStatus[e] \in {"pending", "retry_wait"}

CleanupBlocked == \E r \in Runs : handle[r] = "residue"

ClaimBatch(S) ==
    /\ TickMayStart
    /\ ~CleanupBlocked
    /\ Due(S) /\ Cardinality(S) <= ClaimLimit
    /\ evStatus' = Put(evStatus, S, "claimed")
    /\ attempts' = [e \in Events |-> IF e \in S THEN attempts[e] + 1 ELSE attempts[e]]
    /\ stage' = "claimed"
    /\ batch' = S
    /\ UNCHANGED <<runRows, ivRows, procs, daemon, held, handles, history>>

\* A project whose last run still has files to clean up is not dispatched.
RotateBlocked(S) ==
    /\ TickMayStart
    /\ CleanupBlocked
    /\ Due(S)
    /\ evStatus' = Put(evStatus, S, "retry_wait")
    /\ UNCHANGED <<attempts, runRows, ivRows, procs, daemon, tick, handles, history>>

\* D leaves the batch; the tick is over when nothing is left of it.
LeaveBatch(D) ==
    /\ batch' = batch \ D
    /\ stage' = IF D = batch THEN "idle" ELSE stage

\* The tick's reservation is released; when that fails it stays reserved
\* until its lease runs out, and the error ends the tick.
ReleaseHeld(released, fails) ==
    /\ held = {} => released
    /\ ReturnToPending(IF released THEN held ELSE {})
    /\ held' = {}
    /\ daemon' = IF fails \/ ~released THEN "draining" ELSE "ready"

\* Locks busy, project paused, campaign not ready, budget spent, upgrade
\* running, or a run already active: back to waiting, the claim not counted.
Defer(D, released) ==
    /\ stage \in {"claimed", "reserved"}
    /\ D # {} /\ D \subseteq batch
    /\ stage = "reserved" => D = batch
    /\ evStatus' = Put(evStatus, D, "retry_wait")
    /\ Refund(D)
    /\ LeaveBatch(D)
    /\ ReleaseHeld(released, FALSE)
    /\ UNCHANGED <<runRows, procs, handles, history>>

\* Events whose lineage has been retired or is missing need no agent; decision
\* events among them are deferred instead (Defer).
CompleteRetired(D) ==
    /\ stage = "claimed" /\ NoActiveRun
    /\ D # {} /\ D \subseteq batch
    /\ evStatus' = Put(evStatus, D, "completed")
    /\ LeaveBatch(D)
    /\ UNCHANGED <<attempts, runRows, ivRows, procs, daemon, held, handles, history>>

\* The project is gone, its files are unreadable, or a guardrail trips.
FailBatch(fails) ==
    /\ stage = "claimed" /\ NoActiveRun
    /\ evStatus' = Put(evStatus, batch, "failed")
    /\ LeaveBatch(batch)
    /\ ReleaseHeld(TRUE, fails)
    /\ UNCHANGED <<attempts, runRows, procs, handles, history>>

NeverLinked(S) == \A e \in S : ~Linked(e)

\* Policy refuses the launch before a run exists.
BlockUnbound(released, fails) ==
    /\ stage \in {"claimed", "reserved"} /\ NoActiveRun
    /\ NeverLinked(batch)
    /\ evStatus' = Put(evStatus, batch, "dead_letter")
    /\ LeaveBatch(batch)
    /\ ReleaseHeld(released, fails)
    /\ UNCHANGED <<attempts, runRows, procs, handles, history>>

\* The launch fails before a run exists.
RetryUnbound(released) ==
    /\ stage = "reserved"
    /\ NeverLinked(batch)
    /\ evStatus' = [e \in Events |-> IF e \in batch THEN RetryTarget(e) ELSE evStatus[e]]
    /\ LeaveBatch(batch)
    /\ ReleaseHeld(released, TRUE)
    /\ UNCHANGED <<attempts, runRows, procs, handles, history>>

\* A database error, or a resolution that refuses linked events, ends the
\* tick with the batch still claimed.
TickFails(released) ==
    /\ stage \in {"claimed", "reserved"}
    /\ LeaveBatch(batch)
    /\ ReleaseHeld(released, TRUE)
    /\ UNCHANGED <<eventRows, runRows, procs, handles, history>>

\* The oldest pending interventions that fit the prompt are reserved.
Reserve(I) ==
    /\ stage = "claimed" /\ NoActiveRun
    /\ \A i \in I : ivStatus[i] = "pending"
    /\ \A i \in I, j \in Interventions : j < i /\ ivStatus[j] = "pending" => j \in I
    /\ ivStatus' = Put(ivStatus, I, "reserved")
    /\ held' = I
    /\ stage' = "reserved"
    /\ UNCHANGED <<eventRows, runRows, ivRun, procs, daemon, batch, handles, history>>
----------------------------------------------------------------------------
(* The launch protocol of AgentRunner::spawn.                              *)

\* Log and marker are named after the first event and the second of the
\* launch, so an earlier run of that event may have left its marker there.
LeftoverMarker == \E q \in Runs : marker[q] /\ linked[q] \cap batch # {}

\* The transaction that inserts the run and takes events and reservation.
InsertRun(r) ==
    /\ stage = "reserved"
    /\ runStatus[r] = "none" /\ NoActiveRun
    /\ evStatus' = Put(evStatus, batch, "in_flight")
    /\ linked' = [linked EXCEPT ![r] = batch]
    /\ runStatus' = [runStatus EXCEPT ![r] = "starting"]
    /\ gate' = [gate EXCEPT ![r] = "pending"]
    /\ \E m \in BOOLEAN : (m => LeftoverMarker) /\ marker' = [marker EXCEPT ![r] = m]
    /\ batch' = {}
    /\ held' = {}
    /\ UNCHANGED <<attempts, evidence, ending, child, verdict, outages>>

BindRun(r) ==
    /\ InsertRun(r)
    /\ ivRun' = Put(ivRun, held, r)
    /\ carried' = [carried EXCEPT ![r] = held]
    /\ handle' = [handle EXCEPT ![r] = "bound"]
    /\ stage' = "launching"
    /\ UNCHANGED <<ivStatus, daemon>>

\* The insertion committed but the run could not be read back: the error
\* counts as "before binding", releases the reservation by its token, fails
\* to resolve events that are no longer claimed, and ends the tick.
BindUnread(r, released) ==
    /\ InsertRun(r)
    /\ ivStatus' = Put(ivStatus, IF released THEN held ELSE {}, "pending")
    /\ ivRun' = IF released THEN ivRun ELSE Put(ivRun, held, r)
    /\ stage' = "idle"
    /\ daemon' = "draining"
    /\ UNCHANGED <<handle, carried>>

\* The helper process starts and waits at the gate; a marker that is
\* already there stops the launch.
Spawn(r) ==
    /\ handle[r] = "bound" /\ ~marker[r]
    /\ child' = [child EXCEPT ![r] = "blocked"]
    /\ handle' = [handle EXCEPT ![r] = "spawned"]
    /\ UNCHANGED <<eventRows, runRows, ivRows, marker, daemon, tick, verdict, history>>

MarkRunning(r) ==
    /\ handle[r] = "spawned"
    /\ runStatus' = [runStatus EXCEPT ![r] = "running"]
    /\ gate' = [gate EXCEPT ![r] = "pending"]
    /\ ivStatus' = Put(ivStatus, OfRun(r, {"reserved"}), "applied")
    /\ handle' = [handle EXCEPT ![r] = "running"]
    /\ UNCHANGED <<eventRows, linked, evidence, ending, ivRun, procs, daemon, tick,
                   verdict, history>>

RequestRelease(r) ==
    /\ handle[r] = "running" /\ gate[r] = "pending"
    /\ gate' = [gate EXCEPT ![r] = "release_requested"]
    /\ handle' = [handle EXCEPT ![r] = "requested"]
    /\ UNCHANGED <<eventRows, linked, runStatus, evidence, ending, ivRows, procs,
                   daemon, tick, verdict, history>>

\* Mutant: the gate opens without a marker on disk.
PublishMarker_Nowhere(r) ==
    /\ handle[r] = "requested" /\ ~marker[r]
    /\ handle' = [handle EXCEPT ![r] = "published"]
    /\ UNCHANGED <<eventRows, runRows, ivRows, procs, daemon, tick, verdict, history>>

PublishMarker(r) ==
    /\ handle[r] = "requested" /\ ~marker[r]
    /\ marker' = [marker EXCEPT ![r] = TRUE]
    /\ handle' = [handle EXCEPT ![r] = "published"]
    /\ UNCHANGED <<eventRows, runRows, ivRows, child, daemon, tick, verdict, history>>

\* The gate opens and the agent's executable runs.
Release(r) ==
    /\ handle[r] = "published"
    /\ child' = [child EXCEPT ![r] = "executing"]
    /\ handle' = [handle EXCEPT ![r] = "released"]
    /\ UNCHANGED <<eventRows, runRows, ivRows, marker, daemon, tick, verdict, history>>

AcknowledgeDispatch(r) ==
    /\ handle[r] = "released" /\ gate[r] = "release_requested"
    /\ \A e \in linked[r] : evStatus[e] = "in_flight"
    /\ gate' = [gate EXCEPT ![r] = "released"]
    /\ evStatus' = Put(evStatus, linked[r], "dispatched")
    /\ stage' = "idle"
    /\ UNCHANGED <<attempts, linked, runStatus, evidence, ending, ivRows, procs,
                   batch, held, history>>

AckDispatch(r) ==
    /\ AcknowledgeDispatch(r)
    /\ handle' = [handle EXCEPT ![r] = "owned"]
    /\ UNCHANGED <<daemon, verdict>>

\* The acknowledgement committed but was reported as an error.
AckUnread(r) ==
    /\ AcknowledgeDispatch(r)
    /\ handle' = [handle EXCEPT ![r] = "cleanup"]
    /\ verdict' = [verdict EXCEPT ![r] = "post_unknown"]
    /\ daemon' = "draining"

\* Mutant: a leftover marker is taken for this launch's own.
FailureVerdict_LeftoverIsOwn(r, v) ==
    \/ v \in PreMarker /\ handle[r] \in {"bound", "spawned", "running", "requested"}
    \/ v = "post_policy" /\ handle[r] \in {"requested", "published", "released"}
    \/ v = "post_policy" /\ handle[r] = "bound" /\ marker[r]
    \/ v = "post_unknown" /\ handle[r] = "released"

\* How a failure at each point of the launch is classified.
FailureVerdict(r, v) ==
    \/ v \in PreMarker /\ handle[r] \in {"bound", "spawned", "running", "requested"}
    \/ v = "pending_marker" /\ handle[r] = "bound" /\ marker[r]
    \/ v = "post_policy" /\ handle[r] \in {"requested", "published", "released"}
    \/ v = "post_unknown" /\ handle[r] = "released"

LaunchFails(r, v) ==
    /\ FailureVerdict(r, v)
    /\ handle' = [handle EXCEPT ![r] = "cleanup"]
    /\ verdict' = [verdict EXCEPT ![r] = v]
    /\ stage' = "idle"
    /\ daemon' = "draining"
    /\ UNCHANGED <<eventRows, runRows, ivRows, procs, batch, held, history>>
----------------------------------------------------------------------------
(* Finalization: finish_and_resolve_events_inner.                          *)

RunEnd(v) == IF v \in Outcomes THEN v ELSE "failed"

\* Mutant: an unknown outcome is retried like a failed one.
EventEnd_RetriesUnknown(e, v) ==
    IF v = "completed" THEN "completed"
    ELSE IF v \in {"failed", "timed_out", "retry", "post_unknown"} THEN RetryTarget(e)
    ELSE "dead_letter"

EventEnd(e, v) ==
    IF v = "completed" THEN "completed"
    ELSE IF v \in {"failed", "timed_out", "retry"} THEN RetryTarget(e)
    ELSE "dead_letter"

CanFinalize(r, v) ==
    /\ Active(r)
    /\ v \in Outcomes => gate[r] = "released"
    /\ v \in PreMarker => gate[r] \in {"pending", "release_requested"}
    /\ v \in PostMarker => gate[r] = "release_requested"
    /\ v = "pending_marker" => /\ runStatus[r] = "starting" /\ gate[r] = "pending"
                               /\ OfRun(r, {"applied"}) = {}
    /\ \A e \in linked[r] :
          evStatus[e] = IF v \in Outcomes THEN "dispatched" ELSE "in_flight"

Finalize(r, v) ==
    /\ CanFinalize(r, v)
    /\ evStatus' = [e \in Events |-> IF e \in linked[r] THEN EventEnd(e, v) ELSE evStatus[e]]
    /\ runStatus' = [runStatus EXCEPT ![r] = RunEnd(v)]
    /\ gate' = [gate EXCEPT ![r] = IF v \in Outcomes THEN "released" ELSE "failed"]
    /\ ending' = [ending EXCEPT ![r] = v]
    /\ ReturnToPending(OfRun(r, IF v \in PreMarker THEN {"reserved", "applied"}
                                                   ELSE {"reserved"}))
    /\ verdict' = [verdict EXCEPT ![r] = "none"]
    /\ UNCHANGED <<attempts, linked, evidence, procs, daemon, tick, history>>

\* A failed launch first takes its child down ...
KillChild(r) ==
    /\ handle[r] = "cleanup" /\ Live(r)
    /\ child' = [child EXCEPT ![r] = IF @ = "blocked" THEN "cancelled" ELSE "exited"]
    /\ UNCHANGED <<eventRows, runRows, ivRows, marker, daemon, tick, handles, history>>

\* ... makes the evidence of a leftover marker durable ...
RecordEvidence(r) ==
    /\ handle[r] = "cleanup" /\ verdict[r] = "pending_marker" /\ ~evidence[r]
    /\ CanFinalize(r, "pending_marker")
    /\ evidence' = [evidence EXCEPT ![r] = TRUE]
    /\ UNCHANGED <<eventRows, linked, runStatus, gate, ending, ivRows, procs, daemon,
                   tick, handles, history>>

\* ... and then writes the verdict.
FinalizeCleanup(r) ==
    /\ handle[r] = "cleanup" /\ ~Live(r)
    /\ verdict[r] = "pending_marker" => evidence[r]
    /\ Finalize(r, verdict[r])
    /\ handle' = [handle EXCEPT ![r] = "none"]

\* The daemon polls its agents between ticks, and while it drains.
MayPoll == TickMayStart \/ daemon = "draining"

ObserveExit(r, v) ==
    /\ TickMayStart
    /\ handle[r] = "owned" /\ child[r] = "exited"
    /\ v \in {"completed", "failed"}
    /\ verdict' = [verdict EXCEPT ![r] = v]
    /\ handle' = [handle EXCEPT ![r] = "reaped"]
    /\ UNCHANGED <<eventRows, runRows, ivRows, procs, daemon, tick, history>>

\* Mutant: the deadline is only looked at while the daemon drains.
TimeOut_DrainOnly(r) ==
    /\ daemon = "draining"
    /\ handle[r] = "owned"
    /\ child' = [child EXCEPT ![r] = "exited"]
    /\ verdict' = [verdict EXCEPT ![r] = "timed_out"]
    /\ handle' = [handle EXCEPT ![r] = "reaped"]
    /\ UNCHANGED <<eventRows, runRows, ivRows, marker, daemon, tick, history>>

\* The run's deadline has passed, or the daemon drains: the group is killed
\* and reaped before anything is written.
TimeOut(r) ==
    /\ MayPoll
    /\ handle[r] = "owned"
    /\ child' = [child EXCEPT ![r] = "exited"]
    /\ verdict' = [verdict EXCEPT ![r] = "timed_out"]
    /\ handle' = [handle EXCEPT ![r] = "reaped"]
    /\ UNCHANGED <<eventRows, runRows, ivRows, marker, daemon, tick, history>>

\* After the rows are final the private temp directory is emptied, or not.
FinalizeRun(r, emptied) ==
    /\ MayPoll
    /\ handle[r] = "reaped"
    /\ Finalize(r, verdict[r])
    /\ handle' = [handle EXCEPT ![r] = IF emptied THEN "none" ELSE "residue"]

EmptyTemp(r) ==
    /\ MayPoll
    /\ handle[r] = "residue"
    /\ handle' = [handle EXCEPT ![r] = "none"]
    /\ UNCHANGED <<eventRows, runRows, ivRows, procs, daemon, tick, verdict, history>>

\* Another reaper took the leader: nothing is known of the group any more.
LoseOwnership(r) ==
    /\ TickMayStart
    /\ handle[r] = "owned"
    /\ handle' = [handle EXCEPT ![r] = "lost"]
    /\ daemon' = "draining"
    /\ UNCHANGED <<eventRows, runRows, ivRows, procs, tick, verdict, history>>

\* The agent's process ends by itself, whoever owns it.
AgentExits(r) ==
    /\ child[r] = "executing"
    /\ child' = [child EXCEPT ![r] = "exited"]
    /\ UNCHANGED <<eventRows, runRows, ivRows, marker, daemon, tick, handles, history>>
----------------------------------------------------------------------------
(* The daemon's life and startup recovery.                                 *)

\* Memory is gone; a helper still waiting at its gate sees the end of the
\* pipe and exits, an executing agent goes on.
DaemonEnds ==
    /\ daemon' = "down"
    /\ stage' = "idle"
    /\ batch' = {}
    /\ held' = {}
    /\ handle' = [r \in Runs |-> "none"]
    /\ verdict' = [r \in Runs |-> "none"]
    /\ child' = [r \in Runs |-> IF child[r] = "blocked" THEN "cancelled" ELSE child[r]]
    /\ UNCHANGED <<eventRows, runRows, ivRows, marker, carried>>

Crash ==
    /\ daemon # "down" /\ outages < MaxOutages
    /\ outages' = outages + 1
    /\ DaemonEnds

\* A shutdown signal, or an error in another part of the daemon's round.
BeginDrain ==
    /\ TickMayStart /\ outages < MaxOutages
    /\ outages' = outages + 1
    /\ daemon' = "draining"
    /\ UNCHANGED <<eventRows, runRows, ivRows, procs, tick, handles, carried>>

\* Everything is drained, or the grace period is over.
Stop ==
    /\ daemon = "draining"
    /\ DaemonEnds
    /\ UNCHANGED outages

Restart ==
    /\ daemon = "down"
    /\ daemon' = "recovering"
    /\ UNCHANGED <<eventRows, runRows, ivRows, procs, tick, handles, history>>

\* Marker inspection: only unsettled gates are looked at, and for the runs of
\* U the marker could neither be read nor ruled out.
Candidate(r) == Active(r) /\ (gate[r] = "release_requested" \/ (gate[r] = "pending" /\ ~evidence[r]))
Valid(r, U) == Candidate(r) /\ r \notin U /\ marker[r]
Unsure(r, U) == Candidate(r) /\ r \in U

PendingMarkerPolicy(r, U) ==
    /\ gate[r] = "pending"
    /\ \/ Unsure(r, U)
       \/ runStatus[r] = "starting" /\ (Valid(r, U) \/ evidence[r])

\* Mutant: recovery ignores the marker of a requested release.
ExecutionUnknown_ReleasedOnly(r, U) ==
    \/ gate[r] = "released"
    \/ gate[r] = "pending" /\ runStatus[r] = "running" /\ Unsure(r, U)
    \/ \E e \in linked[r] : evStatus[e] = "dispatched"

ExecutionUnknown(r, U) ==
    \/ gate[r] = "released"
    \/ gate[r] = "release_requested" /\ (Valid(r, U) \/ Unsure(r, U))
    \/ gate[r] = "pending" /\ runStatus[r] = "running" /\ Unsure(r, U)
    \/ \E e \in linked[r] : evStatus[e] = "dispatched"

\* Mutant: recovery expects every event of an active run to be in_flight.
RecoveryAccepts_InFlightOnly(r, U) ==
    /\ ~(gate[r] = "pending" /\ runStatus[r] = "running" /\ Valid(r, U))
    /\ \A e \in linked[r] : evStatus[e] = "in_flight"

\* The validations of recovery: where one fails no daemon ever gets ready.
RecoveryAccepts(r, U) ==
    /\ ~(gate[r] = "pending" /\ runStatus[r] = "running" /\ Valid(r, U))
    /\ PendingMarkerPolicy(r, U) /\ runStatus[r] = "starting" => OfRun(r, {"applied"}) = {}
    /\ \A e \in linked[r] :
          evStatus[e] \in {"in_flight"} \cup
              (IF ExecutionUnknown(r, U) THEN {"dispatched"} ELSE {})

RecoveryVerdict(r, U) ==
    IF PendingMarkerPolicy(r, U) THEN "pending_marker"
    ELSE IF ExecutionUnknown(r, U) THEN "post_unknown" ELSE "retry"

\* Mutant: every failed run gives its interventions back.
StaleGate_AnyFailure(r) == runStatus'[r] = "failed"

\* Runs whose rows now say they failed before the gate was released.
StaleGate(r) == runStatus'[r] = "failed" /\ gate'[r] \in {"pending", "release_requested", "failed"}

\* Y: the reservations no run took over, whose lease has run out.
Recover(U, Y) ==
    LET Interrupted == {r \in Runs : Active(r)}
        Resolved(e) == {r \in Interrupted : e \in linked[r]}
        GivenBack(r) == OfRun(r, IF RecoveryVerdict(r, U) = "retry" THEN {"reserved", "applied"}
                                                                    ELSE {"reserved"})
    IN  /\ daemon = "recovering"
        /\ U \subseteq Interrupted /\ Y \subseteq Unattached
        /\ \A r \in Interrupted : RecoveryAccepts(r, U)
        /\ evStatus' = [e \in Events |->
                IF Resolved(e) = {} THEN evStatus[e]
                ELSE IF \E r \in Resolved(e) : RecoveryVerdict(r, U) # "retry" THEN "dead_letter"
                ELSE RetryTarget(e)]
        /\ runStatus' = Put(runStatus, Interrupted, "failed")
        /\ gate' = [r \in Runs |-> IF r \notin Interrupted THEN gate[r]
                                   ELSE IF ExecutionUnknown(r, U) THEN "released" ELSE "failed"]
        /\ evidence' = [r \in Runs |->
                evidence[r] \/ (r \in Interrupted /\ PendingMarkerPolicy(r, U))]
        /\ ending' = [r \in Runs |-> IF r \in Interrupted THEN RecoveryVerdict(r, U) ELSE ending[r]]
        /\ ReturnToPending(Y \cup (UNION {GivenBack(r) : r \in Interrupted})
                             \cup (UNION {OfRun(r, {"reserved", "applied"}) :
                                            r \in {q \in Runs : StaleGate(q)}}))
        /\ daemon' = "ready"
        /\ UNCHANGED <<attempts, linked, procs, tick, handles, history>>
----------------------------------------------------------------------------
SchedulerStep ==
    \/ \E X \in SUBSET Events : RecoverClaims(X)
    \/ \E Y \in SUBSET Interventions : RecoverReservations(Y)
    \/ \E S \in SUBSET Events : ClaimBatch(S)
    \/ \E S \in SUBSET Events : RotateBlocked(S)
    \/ \E D \in SUBSET Events, released \in BOOLEAN : Defer(D, released)
    \/ \E D \in SUBSET Events : CompleteRetired(D)
    \/ \E fails \in BOOLEAN : FailBatch(fails)
    \/ \E released, fails \in BOOLEAN : BlockUnbound(released, fails)
    \/ \E released \in BOOLEAN : RetryUnbound(released)
    \/ \E released \in BOOLEAN : TickFails(released)
    \/ \E I \in SUBSET Interventions : Reserve(I)

LaunchStep(r) ==
    \/ BindRun(r)
    \/ \E released \in BOOLEAN : BindUnread(r, released)
    \/ Spawn(r) \/ MarkRunning(r) \/ RequestRelease(r) \/ PublishMarker(r)
    \/ Release(r) \/ AckDispatch(r) \/ AckUnread(r)
    \/ \E v \in Verdict : LaunchFails(r, v)

CleanupStep(r) == KillChild(r) \/ RecordEvidence(r) \/ FinalizeCleanup(r)

PollStep(r) ==
    \/ \E v \in Outcomes : ObserveExit(r, v)
    \/ TimeOut(r)
    \/ \E emptied \in BOOLEAN : FinalizeRun(r, emptied)
    \/ EmptyTemp(r)
    \/ LoseOwnership(r)

Next ==
    \/ \E e \in Events : CreateEvent(e)
    \/ \E i \in Interventions : AddIntervention(i)
    \/ SchedulerStep
    \/ \E r \in Runs : LaunchStep(r) \/ CleanupStep(r) \/ PollStep(r) \/ AgentExits(r)
    \/ Crash \/ BeginDrain \/ Stop \/ Restart
    \/ \E U \in SUBSET Runs, Y \in SUBSET Interventions : Recover(U, Y)

Spec == Init /\ [][Next]_vars
----------------------------------------------------------------------------
(* What is fair: a tick that started goes on (each call in it returns), a   *)
(* launch goes on, a draining daemon reaches its deadline, the service      *)
(* manager restarts it and recovery runs.  Rounds follow each other         *)
(* forever, every round polls the agents, and time passes: a deadline or a  *)
(* lease that some later round will find lapsed is found lapsed, which is   *)
(* strong fairness because each tick disables the poll for a while.         *)

TickStep == stage # "idle" /\ (SchedulerStep \/ \E r \in Runs : LaunchStep(r))

LapsedClaims == {e \in Events : evStatus[e] = "claimed" /\ ~Linked(e)}

Fairness ==
    /\ WF_vars(TickStep)
    /\ WF_vars(Stop)
    /\ WF_vars(Restart)
    /\ WF_vars(\E U \in SUBSET Runs, Y \in SUBSET Interventions : Recover(U, Y))
    /\ \A r \in Runs : SF_vars(TimeOut(r))
    /\ \A r \in Runs : SF_vars(\E emptied \in BOOLEAN : FinalizeRun(r, emptied))
    /\ SF_vars(RecoverClaims(LapsedClaims))
    /\ SF_vars(RecoverReservations(Unattached))

FairSpec == Spec /\ Fairness
----------------------------------------------------------------------------
(* Safety.                                                                 *)

\* An agent that ran and whose outcome nobody observed is never repeated:
\* its events are dead-lettered (finish_after_marker_failure, startup
\* recovery) and no lease, retry or restart brings them back.
NoBlindRetry ==
    \A r \in Runs :
        Executed(r) /\ ~Active(r) /\ ending[r] \notin Outcomes =>
            \A e \in linked[r] : evStatus[e] = "dead_letter"

\* No two agents work on one event at the same time, not even when one of
\* them outlived the daemon that launched it.
OneAgentPerEvent ==
    \A r, q \in Runs :
        r # q /\ child[r] = "executing" /\ child[q] = "executing" =>
            linked[r] \cap linked[q] = {}

\* The event rows and the run row move together: an event is in_flight
\* exactly while an active run is before its dispatch acknowledgement, and
\* dispatched exactly while one is past it.
EventsFollowRuns ==
    \A e \in Events :
        /\ evStatus[e] = "in_flight" <=>
              \E r \in Runs : Active(r) /\ e \in linked[r] /\ gate[r] # "released"
        /\ evStatus[e] = "dispatched" <=>
              \E r \in Runs : Active(r) /\ e \in linked[r] /\ gate[r] = "released"

\* Whenever the daemon dies and whatever the marker inspection then sees,
\* startup recovery's validations accept the database, so that a restart
\* is never refused.
RecoveryNeverBlocked ==
    \A r \in Runs : Active(r) =>
        RecoveryAccepts(r, {}) /\ RecoveryAccepts(r, {r})

\* An event is bound to at most max_retries + 1 runs, each paid for by a
\* claim that no deferral or lease recovery refunds.
RetryBudget ==
    \A e \in Events :
        /\ Cardinality({r \in Runs : e \in linked[r]}) <= attempts[e]
        /\ attempts[e] <= MaxRetries + 1

\* While the daemon serves, every active run has an owner in memory that
\* will end it, and at most one live agent of the project is owned.
SupervisedRuns ==
    /\ daemon = "ready" => \A r \in Runs : Active(r) => handle[r] # "none"
    /\ \A r, q \in Runs :
          r # q /\ Live(r) /\ Live(q) => handle[r] = "none" \/ handle[q] = "none"

\* Before the agent executes, everything recovery decides on is durable: the
\* marker, the release request, the running row and the prompt's applied
\* interventions.
ExecutionIsRecorded ==
    \A r \in Runs : Executed(r) =>
        /\ marker[r]
        /\ Active(r) =>
              /\ runStatus[r] = "running" /\ gate[r] \in {"release_requested", "released"}
              /\ \A i \in carried[r] : ivStatus[i] = "applied" /\ ivRun[i] = r

\* No instruction is kept by a run that cannot deliver it: reserved rows
\* belong to an active run before its start, and a run that failed before its
\* marker keeps nothing.
InterventionsFollowRuns ==
    \A i \in Interventions : LET r == ivRun[i] IN r # NoRun =>
        /\ ivStatus[i] \in {"reserved", "applied"}
        /\ ivStatus[i] = "reserved" => runStatus[r] = "starting"
        /\ ivStatus[i] = "applied" => runStatus[r] # "starting" /\ ending[r] \notin PreMarker

\* An outcome the daemon observed can always be written: the finalizer's
\* checks on run, gate and events hold until it runs.
OutcomeCanBeRecorded ==
    \A r \in Runs :
        /\ handle[r] = "reaped" => CanFinalize(r, verdict[r])
        /\ handle[r] = "cleanup" /\ gate[r] # "released" => CanFinalize(r, verdict[r])

Delivered(i) == {r \in Runs : Executed(r) /\ i \in carried[r]}

\* An instruction reaches a second executing agent only when the first one's
\* launch was written off at the gate after its marker.
OnlyFailedGatesRedeliver ==
    \A i \in Interventions : \A r, q \in Delivered(i) :
        r # q => \E p \in {r, q} : gate[p] = "failed" /\ ending[p] \in PostMarker

\* The inductive strengthening of the invariants above: what each handle in
\* memory, each durable phase and each tick stage imply of one another.
HandlePhases ==
    \A r \in Runs :
        /\ handle[r] \in InLaunch \cup {"owned", "reaped", "lost", "cleanup"} => Active(r)
        /\ handle[r] \in InLaunch => stage = "launching" /\ gate[r] # "released"
        /\ handle[r] \in {"requested", "published", "released"} => gate[r] = "release_requested"
        /\ handle[r] \in {"published", "released"} => marker[r]
        /\ handle[r] \in {"running", "requested", "published", "released"} =>
              runStatus[r] = "running"
        /\ handle[r] \in {"released", "owned", "reaped", "lost"} => Executed(r)
        /\ handle[r] \in {"owned", "reaped", "lost"} => gate[r] = "released"
        /\ handle[r] = "reaped" => child[r] = "exited" /\ verdict[r] \in Outcomes
        /\ handle[r] = "cleanup" => verdict[r] \in PreMarker \cup PostMarker \cup {"pending_marker"}
        /\ handle[r] \in InLaunch \ {"released"} => ~Executed(r)
        /\ handle[r] = "cleanup" /\ verdict[r] \notin PostMarker => ~Executed(r)

RunPhases ==
    /\ \A r, q \in Runs : Active(r) /\ Active(q) => r = q
    /\ \A r \in Runs :
        /\ runStatus[r] = "none" => linked[r] = {} /\ child[r] = "none"
        /\ Active(r) => gate[r] \in {"pending", "release_requested", "released"}
        /\ gate[r] = "released" /\ Active(r) => Executed(r)
        /\ Executed(r) => runStatus[r] # "none" /\ marker[r]
        /\ Executed(r) /\ Active(r) =>
              runStatus[r] = "running" /\ gate[r] \in {"release_requested", "released"}
        /\ child[r] = "executing" /\ ~Active(r) => ending[r] \notin Outcomes

TickPhases ==
    /\ \A e \in batch : evStatus[e] = "claimed"
    /\ stage \in {"idle", "launching"} => batch = {}
    /\ stage # "reserved" => held = {}
    /\ stage # "idle" => daemon = "ready"
    /\ daemon \in {"down", "recovering"} => \A r \in Runs : handle[r] = "none"

CoreInv ==
    /\ TypeOK
    /\ HandlePhases
    /\ RunPhases
    /\ TickPhases
    /\ EventsFollowRuns
    /\ NoBlindRetry
    /\ OneAgentPerEvent

\* What memory, gate and marker say of a run between any two of its steps:
\* the part of the induction that recovery and finalization rest on.
LaunchFits(r) ==
    /\ handle[r] = "bound" => runStatus[r] = "starting" /\ gate[r] = "pending"
    /\ handle[r] = "spawned" => runStatus[r] = "starting" /\ ~marker[r]
    /\ runStatus[r] = "running" /\ gate[r] = "pending" => ~marker[r]
    /\ handle[r] = "cleanup" =>
          /\ verdict[r] \in PostMarker => gate[r] \in {"release_requested", "released"}
          /\ verdict[r] = "pending_marker" => runStatus[r] = "starting" /\ gate[r] = "pending"
    /\ handle[r] = "residue" => ~Active(r) /\ runStatus[r] # "none" /\ child[r] = "exited"
    /\ Executed(r) /\ ~Active(r) =>
          gate[r] = "released" \/ (gate[r] = "failed" /\ ending[r] \in PostMarker)
    /\ Active(r) \/ runStatus[r] = "none" => ending[r] = "none"
    /\ daemon = "ready" /\ Active(r) => handle[r] # "none"

\* Whose an instruction is, from its reservation to the prompt that kept it.
HeldFits == \A i \in held : ivStatus[i] = "reserved" /\ ivRun[i] = NoRun

OwnerFits(i) ==
    ivRun[i] # NoRun =>
        /\ ivStatus[i] \in {"reserved", "applied"}
        /\ ivStatus[i] = "reserved" => runStatus[ivRun[i]] = "starting"
        /\ ivStatus[i] = "applied" => /\ runStatus[ivRun[i]] \notin {"none", "starting"}
                                      /\ ending[ivRun[i]] \notin PreMarker

WrittenOff(r) == gate[r] = "failed" /\ ending[r] \in PostMarker

PromptFits(r) ==
    /\ runStatus[r] = "none" => carried[r] = {}
    /\ runStatus[r] = "starting" =>
          \A i \in carried[r] : ivStatus[i] = "reserved" /\ ivRun[i] = r
    /\ runStatus[r] = "running" \/ (Executed(r) /\ ~WrittenOff(r)) =>
          \A i \in carried[r] : ivStatus[i] = "applied" /\ ivRun[i] = r

\* An event pays for a run with the claim before it.
RunsOf(e) == {r \in Runs : e \in linked[r]}

BudgetFits(e) ==
    /\ IsFiniteSet(RunsOf(e))
    /\ Cardinality(RunsOf(e)) <= attempts[e]
    /\ evStatus[e] = "claimed" => Cardinality(RunsOf(e)) + 1 <= attempts[e]
    /\ attempts[e] <= MaxRetries + 1
    /\ evStatus[e] \in {"none", "pending", "retry_wait"} => attempts[e] <= MaxRetries

LaunchPhases == \A r \in Runs : LaunchFits(r)
PromptPhases == /\ HeldFits
                /\ \A i \in Interventions : OwnerFits(i)
                /\ \A r \in Runs : PromptFits(r)
BudgetPhases == \A e \in Events : BudgetFits(e)

DispatchInv ==
    /\ CoreInv
    /\ LaunchPhases
    /\ PromptPhases
    /\ BudgetPhases

\* What the docs promise of a failure after the marker: an applied
\* instruction does not go back to "undelivered", so no second agent gets it.
DeliveredAtMostOnce ==
    \A i \in Interventions : Cardinality(Delivered(i)) <= 1

\* The phase of an event as its producer sees it.
PhaseOf(e) ==
    LET Attempt == {r \in Runs : Active(r) /\ e \in linked[r]}
    IN  CASE evStatus[e] = "none" -> "absent"
          [] evStatus[e] \in {"pending", "claimed", "retry_wait"} -> "waiting"
          [] evStatus[e] \in {"completed", "failed", "dead_letter"} -> "settled"
          [] OTHER -> IF \E r \in Attempt : handle[r] = "reaped" THEN "reported"
                      ELSE IF \E r \in Attempt : Executed(r) THEN "exposed" ELSE "bound"

Delivery == INSTANCE EventDelivery WITH phase <- [e \in Events |-> PhaseOf(e)]

\* The dispatch core delivers events as EventDelivery promises.
DeliversEvents == Delivery!DeliverySpec
----------------------------------------------------------------------------
(* Liveness, under FairSpec.                                               *)

\* No run stays active: it is finalized by its handle or by the next
\* daemon's recovery, however the agent, the launch or the daemon fails.
RunsEnd == \A r \in Runs : Active(r) ~> ~Active(r)

\* A reservation is applied or handed back, whichever step was interrupted.
ReservationsEnd ==
    \A i \in Interventions : ivStatus[i] = "reserved" ~> ivStatus[i] # "reserved"

\* A claim of an event that never had a run ends, at the latest when its
\* lease is found lapsed.
FirstClaimsEnd ==
    \A e \in Events : e \in LapsedClaims ~> e \notin LapsedClaims

\* What the docs promise of every claim: it is temporary, and no run is bound
\* to a claimed event, so that lease recovery ends it.
ClaimsEnd == \A e \in Events : evStatus[e] = "claimed" ~> evStatus[e] # "claimed"
============================================================================
