--------------------------- MODULE DecisionCycle ---------------------------
(***************************************************************************)
(* The decision loop of one campaign.  Every experiment that ends opens a  *)
(* decision cycle with an event; the scheduler claims the event, reserves  *)
(* an attempt for the oldest pending cycle, charges the agent budget and   *)
(* launches an agent; what the agent decides is stored and applied later.  *)
(* Each of these is a transaction of its own on the cycle, the attempt,    *)
(* the event and the agent run, and a crash or a refusal may fall between  *)
(* any two.  Operators pause, resume, review and retire the campaign in    *)
(* the meantime.                                                           *)
(***************************************************************************)
EXTENDS Naturals, FiniteSets

CONSTANTS
    Cycles,        \* decision cycles, numbered by the end of their experiment
    MaxAttempts,   \* limits.max_decision_attempts_per_cycle
    MaxCrashes,    \* bound: crashes of the daemon explored
    MaxFaults,     \* bound: unreadable project configurations explored
    MaxSetbacks,   \* bound: busy locks, failed evidence, budget, failed binds
    MaxWakes       \* bound: waiting cycles that become due again

ASSUME CyclesAssumption == Cycles \subseteq Nat /\ Cycles # {}
ASSUME AttemptsAssumption == MaxAttempts \in Nat \ {0}
ASSUME BoundsAssumption ==
    /\ MaxCrashes \in Nat /\ MaxFaults \in Nat
    /\ MaxSetbacks \in Nat /\ MaxWakes \in Nat

VARIABLES
    \* SQLite: campaigns.state; decision_cycles.state and its
    \* consecutive_failed_attempts
    campaign, cycle, fails,
    \* SQLite: the latest decision attempt of a cycle and what it decided
    att, kind,
    \* SQLite: events.status; the latest agent run linked to the event
    event, agent,
    \* the daemon, its place in a handler, the cycle and the claims in hand
    daemon, step, cur, batch,
    \* bounds
    crashes, faults, setbacks, wakes,
    \* history: cycles whose event was lost while they were pending, by an
    \* unreadable configuration or by a crash
    stranded

rows   == <<cycle, fails, att, kind>>
place  == <<daemon, step, cur, batch>>
bounds == <<crashes, faults, setbacks, wakes>>

vars == <<campaign, cycle, fails, att, kind, event, agent, daemon, step, cur,
          batch, crashes, faults, setbacks, wakes, stranded>>

Kinds == {"wait", "proposal", "code_change", "goal"}

\* Places at which the daemon holds the admission lock of the project.
LockedSteps == {"reserved", "evidence", "requeued", "charged", "inserted", "admitted"}
Steps == LockedSteps \cup {"idle", "claimed", "bound", "launch_failed", "outcome",
                           "applying", "admitted_change"}

TypeOK ==
    /\ campaign \in {"active", "budget_waiting", "paused", "degraded", "review",
                     "retired"}
    /\ cycle \in [Cycles -> {"none", "pending", "analyzing", "waiting",
                             "completed", "degraded"}]
    /\ fails \in [Cycles -> Nat]
    /\ att \in [Cycles -> {"none", "reserved", "evidence", "running", "decided",
                           "failed"}]
    /\ kind \in [Cycles -> Kinds \cup {"none"}]
    /\ event \in [Cycles -> {"none", "pending", "claimed", "in_flight", "dispatched",
                             "retry_wait", "completed", "failed", "dead_letter"}]
    /\ agent \in [Cycles -> {"none", "active", "over"}]
    /\ daemon \in {"up", "down"}
    /\ step \in Steps
    /\ cur \in Cycles
    /\ batch \in SUBSET Cycles
    /\ crashes \in 0..MaxCrashes /\ faults \in 0..MaxFaults
    /\ setbacks \in 0..MaxSetbacks /\ wakes \in 0..MaxWakes
    /\ stranded \in SUBSET Cycles

Init ==
    /\ campaign = "active"
    /\ cycle = [c \in Cycles |-> "none"]
    /\ fails = [c \in Cycles |-> 0]
    /\ att = [c \in Cycles |-> "none"]
    /\ kind = [c \in Cycles |-> "none"]
    /\ event = [c \in Cycles |-> "none"]
    /\ agent = [c \in Cycles |-> "none"]
    /\ daemon = "up" /\ step = "idle" /\ batch = {}
    /\ cur = CHOOSE c \in Cycles : TRUE
    /\ crashes = 0 /\ faults = 0 /\ setbacks = 0 /\ wakes = 0
    /\ stranded = {}
----------------------------------------------------------------------------
(* The operator's commands.  All but resume take the admission lock.       *)

Unlocked == ~(daemon = "up" /\ step \in LockedSteps)

Pause ==
    /\ Unlocked /\ campaign \in {"active", "budget_waiting", "degraded"}
    /\ campaign' = "paused"
    /\ UNCHANGED <<rows, event, agent, place, bounds, stranded>>

\* Mutant: resume does not look for exhausted cycles.
ResumedState_Mutation == "active"

\* A campaign with an exhausted cycle only resumes to be degraded.
ResumedState ==
    IF \E c \in Cycles : cycle[c] = "degraded" THEN "degraded" ELSE "active"

Resume ==
    /\ campaign \in {"active", "paused", "budget_waiting", "degraded"}
    /\ campaign' = ResumedState
    /\ UNCHANGED <<rows, event, agent, place, bounds, stranded>>

\* `campaign retire`, or the acceptance of a goal under review.
Retire ==
    /\ Unlocked /\ campaign \in {"active", "paused", "review"}
    /\ campaign' = "retired"
    /\ UNCHANGED <<rows, event, agent, place, bounds, stranded>>

Claimants ==
    {c \in Cycles : cycle[c] = "completed" /\ kind[c] = "goal"
                    /\ event[c] = "completed"}

RejectReview ==
    /\ Unlocked /\ campaign = "review"
    /\ \E c \in Cycles :
          /\ Claimants = {c}
          /\ event' = [event EXCEPT ![c] = "dead_letter"]
    /\ campaign' = "active"
    /\ UNCHANGED <<rows, agent, place, bounds, stranded>>
----------------------------------------------------------------------------
(* What several handlers do to a cycle.                                    *)

Setback == setbacks < MaxSetbacks /\ setbacks' = setbacks + 1

Parkable == {"active", "budget_waiting", "review"}
DegradedFrom(state) == IF state \in Parkable THEN "degraded" ELSE state

\* What a failed attempt makes of its event: one that has ended, or is due,
\* becomes pending; one an agent run still owns is left to its finalizer.
Reopened(status) ==
    CASE status \in {"completed", "failed", "dead_letter"} -> {"pending"}
      [] status = "retry_wait" -> {"pending", "retry_wait"}
      [] OTHER                 -> {status}

\* record_attempt_failure, for the latest attempt of c.
FailAttempt(c) ==
    LET exhausted == fails[c] + 1 >= MaxAttempts
    IN  /\ att' = [att EXCEPT ![c] = "failed"]
        /\ kind' = [kind EXCEPT ![c] = "none"]
        /\ fails' = [fails EXCEPT ![c] = @ + 1]
        /\ cycle' = [cycle EXCEPT ![c] = IF exhausted THEN "degraded" ELSE "pending"]
        /\ campaign' = IF exhausted THEN DegradedFrom(campaign) ELSE campaign
        /\ \E status \in (IF exhausted THEN {event[c]} ELSE Reopened(event[c])) :
              event' = [event EXCEPT ![c] = status]

\* A reserved attempt goes back: it stays the next attempt of a pending cycle.
Unreserve(c) ==
    /\ att' = [att EXCEPT ![c] = "reserved"]
    /\ cycle' = [cycle EXCEPT ![c] = "pending"]
    /\ UNCHANGED <<fails, kind>>

\* finish_and_resolve_events for the run of a failed attempt; `unknown` says
\* that the agent may have executed, or that a policy stopped it.
ResolveFailed(c, unknown) ==
    LET ended == cycle[c] = "degraded" \/ campaign = "retired" \/ unknown
    IN  /\ event' = [event EXCEPT ![c] = IF ended THEN "dead_letter"
                                         ELSE IF campaign = "active" THEN "pending"
                                         ELSE "retry_wait"]
        /\ cycle' = [cycle EXCEPT ![c] = IF ended THEN "degraded" ELSE @]
        /\ campaign' = IF unknown /\ cycle[c] = "pending"
                       THEN DegradedFrom(campaign) ELSE campaign
        /\ agent' = [agent EXCEPT ![c] = "over"]
        /\ UNCHANGED <<fails, att, kind>>
----------------------------------------------------------------------------
(* The end of an experiment, crashes and restarts.                         *)

\* Reconciliation opens the cycle and its event in one transaction, in the
\* order in which the experiments end: a pass that finds several ended publishes
\* all of them before the scheduler goes on.
Publish(c) ==
    /\ cycle[c] = "none" /\ \A d \in Cycles : d < c => cycle[d] # "none"
    /\ cycle' = [cycle EXCEPT ![c] = "pending"]
    /\ event' = [event EXCEPT ![c] = "pending"]
    /\ UNCHANGED <<campaign, fails, att, kind, agent, place, bounds, stranded>>

\* A claim on an event that was linked to an earlier run has no way back.
Crash ==
    /\ daemon = "up" /\ crashes < MaxCrashes
    /\ crashes' = crashes + 1
    /\ daemon' = "down" /\ step' = "idle" /\ batch' = {}
    /\ stranded' = stranded \cup {c \in Cycles : cycle[c] = "pending" /\ agent[c] = "over"
                                                 /\ event[c] = "claimed"}
    /\ UNCHANGED <<campaign, rows, event, agent, cur, faults, setbacks, wakes>>

Interrupted == {c \in Cycles : agent[c] = "active"}

\* Mutant: the recovery of runs leaves dispatched events as they are.
Recovered_Mutation(status, early) == IF status = "dispatched" THEN status ELSE early

\* What startup recovery makes of the event of an interrupted run: a run that
\* was released may have executed; before that its marker and tries decide.
Recovered(status, early) == IF status = "dispatched" THEN "dead_letter" ELSE early

Restart ==
    /\ daemon = "down" /\ daemon' = "up"
    /\ \E early \in {"retry_wait", "dead_letter"} :
          event' = [c \in Cycles |-> IF c \in Interrupted
                                     THEN Recovered(event[c], early) ELSE event[c]]
    /\ agent' = [c \in Cycles |-> IF c \in Interrupted THEN "over" ELSE agent[c]]
    /\ stranded' = stranded \cup {c \in Interrupted : cycle[c] = "pending"
                                                      /\ event'[c] = "dead_letter"}
    /\ UNCHANGED <<campaign, rows, step, cur, batch, bounds>>
----------------------------------------------------------------------------
(* recover_interrupted: the first thing a round does about decisions.      *)

Idle == daemon = "up" /\ step = "idle"

\* Mutant: an attempt that was launched is requeued like an unbound one.
Unbound_AnyAttempt(c) ==
    cycle[c] = "analyzing" /\ att[c] \in {"reserved", "evidence", "running"}

Unbound(c) == cycle[c] = "analyzing" /\ att[c] \in {"reserved", "evidence"}

LostOutput(c)  == cycle[c] = "analyzing" /\ att[c] = "running" /\ agent[c] = "over"
AllRecovered   == \A c \in Cycles : ~Unbound(c) /\ ~LostOutput(c)

\* The events an unbound attempt may have; with any other the round fails.
Requeueable == {"claimed", "retry_wait", "dead_letter"}

RecoverUnbound(c) ==
    /\ Idle /\ Unbound(c) /\ event[c] \in Requeueable
    /\ event' = [event EXCEPT ![c] = IF @ = "claimed" THEN "pending" ELSE "retry_wait"]
    /\ Unreserve(c)
    /\ UNCHANGED <<campaign, agent, place, bounds, stranded>>

RecoverLostOutput(c) ==
    /\ Idle /\ LostOutput(c)
    /\ FailAttempt(c)
    /\ UNCHANGED <<agent, place, bounds, stranded>>
----------------------------------------------------------------------------
(* The scheduler: claim, reserve, charge, launch.                          *)

InRound == Idle /\ AllRecovered

LapseClaim(c) ==
    /\ InRound /\ event[c] = "claimed" /\ agent[c] = "none"
    /\ event' = [event EXCEPT ![c] = "pending"]
    /\ UNCHANGED <<campaign, rows, agent, place, bounds, stranded>>

Claim(b) ==
    /\ InRound /\ b # {}
    /\ \A c \in b : event[c] \in {"pending", "retry_wait"}
    /\ event' = [c \in Cycles |-> IF c \in b THEN "claimed" ELSE event[c]]
    /\ step' = "claimed" /\ batch' = b
    /\ UNCHANGED <<campaign, rows, agent, daemon, cur, bounds, stranded>>

NoActiveAgent    == \A c \in Cycles : agent[c] # "active"
ActiveAttempt(c) == att[c] \in {"reserved", "evidence", "running"}

NoOtherAttempt(c) == \A d \in Cycles \ {c} : ~ActiveAttempt(d)

Oldest(c) == cycle[c] = "pending" /\ \A d \in Cycles : cycle[d] = "pending" => c <= d

\* The oldest pending cycle is in the batch and may have its next attempt.
Dispatchable(c) ==
    /\ campaign = "active" /\ NoActiveAgent
    /\ c \in batch /\ Oldest(c) /\ NoOtherAttempt(c)

\* The batch is deferred: the campaign does not run, the oldest cycle is not
\* in the batch or may not have an attempt; or a lock or a policy is in the way.
DeferBatch ==
    /\ step = "claimed"
    /\ IF \E c \in Cycles : Dispatchable(c) THEN Setback ELSE UNCHANGED setbacks
    /\ event' = [c \in Cycles |-> IF c \in batch THEN "retry_wait" ELSE event[c]]
    /\ step' = "idle" /\ batch' = {}
    /\ UNCHANGED <<campaign, rows, agent, daemon, cur, crashes, faults, wakes, stranded>>

\* The configuration or the guardrails of the project cannot be read: the
\* claimed events end, and so does the daemon.
ConfigUnreadable ==
    /\ step = "claimed" /\ campaign = "active" /\ NoActiveAgent
    /\ faults < MaxFaults /\ faults' = faults + 1
    /\ event' = [c \in Cycles |-> IF c \in batch THEN "failed" ELSE event[c]]
    /\ stranded' = stranded \cup {c \in batch : cycle[c] = "pending"}
    /\ daemon' = "down" /\ step' = "idle" /\ batch' = {}
    /\ UNCHANGED <<campaign, rows, agent, cur, crashes, setbacks, wakes>>

\* The reserved attempt of the cycle itself is used again.
Reserve(c) ==
    /\ step = "claimed" /\ Dispatchable(c)
    /\ event' = [d \in Cycles |-> IF d \in batch \ {c} THEN "retry_wait" ELSE event[d]]
    /\ cycle' = [cycle EXCEPT ![c] = "analyzing"]
    /\ att' = [att EXCEPT ![c] = "reserved"]
    /\ kind' = [kind EXCEPT ![c] = "none"]
    /\ step' = "reserved" /\ cur' = c /\ batch' = {}
    /\ UNCHANGED <<campaign, fails, agent, daemon, bounds, stranded>>

StoreEvidence ==
    /\ step = "reserved"
    /\ att' = [att EXCEPT ![cur] = "evidence"]
    /\ step' = "evidence"
    /\ UNCHANGED <<campaign, cycle, fails, kind, event, agent, daemon, cur, batch,
                   bounds, stranded>>

ChargeBudget ==
    /\ step = "evidence" /\ step' = "charged"
    /\ UNCHANGED <<campaign, rows, event, agent, daemon, cur, batch, bounds, stranded>>

\* The evidence cannot be built or stored, or the budget is exhausted.
Requeue ==
    /\ step \in {"reserved", "evidence"} /\ Setback
    /\ Unreserve(cur)
    /\ campaign' \in {campaign} \cup (IF step = "evidence" THEN {"budget_waiting"} ELSE {})
    /\ step' = "requeued"
    /\ UNCHANGED <<event, agent, daemon, cur, batch, crashes, faults, wakes, stranded>>

\* Mutant: the event of a requeued attempt stays claimed.
DeferRequeued_Mutation ==
    /\ step = "requeued"
    /\ step' = "idle" /\ daemon' \in {"up", "down"}
    /\ UNCHANGED <<campaign, rows, event, agent, cur, batch, bounds, stranded>>

\* A transaction later the event follows; some of the errors end the daemon.
DeferRequeued ==
    /\ step = "requeued"
    /\ event' = [event EXCEPT ![cur] = "retry_wait"]
    /\ step' = "idle" /\ daemon' \in {"up", "down"}
    /\ UNCHANGED <<campaign, rows, agent, cur, batch, bounds, stranded>>

\* The launch fails before a run is inserted.
FailBeforeRun ==
    /\ step = "charged" /\ Setback
    /\ Unreserve(cur)
    /\ event' = [event EXCEPT ![cur] = "pending"]
    /\ step' = "idle"
    /\ UNCHANGED <<campaign, agent, daemon, cur, batch, crashes, faults, wakes, stranded>>

InsertRun ==
    /\ step = "charged"
    /\ event' = [event EXCEPT ![cur] = "in_flight"]
    /\ agent' = [agent EXCEPT ![cur] = "active"]
    /\ step' = "inserted"
    /\ UNCHANGED <<campaign, rows, daemon, cur, batch, bounds, stranded>>

BindRun ==
    /\ step = "inserted"
    /\ att' = [att EXCEPT ![cur] = "running"]
    /\ step' = "bound"
    /\ UNCHANGED <<campaign, cycle, fails, kind, event, agent, daemon, cur, batch,
                   bounds, stranded>>

\* The run is finished with its event and the unbound attempt in one.
FailToBind ==
    /\ step = "inserted" /\ Setback
    /\ Unreserve(cur)
    /\ event' = [event EXCEPT ![cur] = "retry_wait"]
    /\ agent' = [agent EXCEPT ![cur] = "over"]
    /\ step' = "idle" /\ daemon' = "down"
    /\ UNCHANGED <<campaign, cur, batch, crashes, faults, wakes, stranded>>

Launch ==
    /\ step = "bound"
    /\ event' = [event EXCEPT ![cur] = "dispatched"]
    /\ step' = "idle"
    /\ UNCHANGED <<campaign, rows, agent, daemon, cur, batch, bounds, stranded>>

\* The launch fails after the bind: first the attempt, then the run.
FailLaunch ==
    /\ step = "bound"
    /\ FailAttempt(cur)
    /\ step' = "launch_failed"
    /\ UNCHANGED <<agent, daemon, cur, batch, bounds, stranded>>

FinalizeLaunch ==
    /\ step = "launch_failed"
    /\ \E unknown \in BOOLEAN : ResolveFailed(cur, unknown)
    /\ step' = "idle" /\ daemon' = "down"
    /\ UNCHANGED <<cur, batch, bounds, stranded>>
----------------------------------------------------------------------------
(* The agent has ended: first its decision, then its run and event.        *)

Ended(c) == Idle /\ event[c] = "dispatched" /\ agent[c] = "active"

StoreDecision(c) ==
    /\ Ended(c)
    /\ att' = [att EXCEPT ![c] = "decided"]
    /\ \E k \in Kinds : kind' = [kind EXCEPT ![c] = k]
    /\ step' = "outcome" /\ cur' = c
    /\ UNCHANGED <<campaign, cycle, fails, event, agent, daemon, batch, bounds, stranded>>

\* The output is missing or invalid, or the agent failed or timed out.
MissDecision(c) ==
    /\ Ended(c)
    /\ FailAttempt(c)
    /\ step' = "outcome" /\ cur' = c
    /\ UNCHANGED <<agent, daemon, batch, bounds, stranded>>

FinalizeOutcome ==
    /\ step = "outcome"
    /\ IF att[cur] = "decided"
       THEN /\ event' = [event EXCEPT ![cur] = "completed"]
            /\ agent' = [agent EXCEPT ![cur] = "over"]
            /\ UNCHANGED <<campaign, rows>>
       ELSE ResolveFailed(cur, FALSE)
    /\ step' = "idle"
    /\ UNCHANGED <<daemon, cur, batch, bounds, stranded>>
----------------------------------------------------------------------------
(* apply_ready, and the wake of waiting cycles and campaigns.              *)

\* The campaign is looked at; pause and retire may still come before the lock.
BeginApply(c) ==
    /\ InRound /\ cycle[c] = "analyzing" /\ att[c] = "decided" /\ campaign = "active"
    /\ step' = "applying" /\ cur' = c
    /\ UNCHANGED <<campaign, rows, event, agent, daemon, batch, bounds, stranded>>

Settle(c, state) ==
    /\ cycle' = [cycle EXCEPT ![c] = state]
    /\ fails' = [fails EXCEPT ![c] = 0]
    /\ UNCHANGED <<att, kind>>

\* A wait, or an admitted proposal, is recorded while the campaign is active;
\* otherwise the round fails and the decision is applied in a later one.
SettleOrFail(state) ==
    \/ campaign = "active" /\ Settle(cur, state) /\ UNCHANGED daemon
    \/ campaign # "active" /\ daemon' = "down" /\ UNCHANGED rows

ApplyWait ==
    /\ step = "applying" /\ kind[cur] = "wait"
    /\ SettleOrFail("waiting")
    /\ step' = "idle"
    /\ UNCHANGED <<campaign, event, agent, cur, batch, bounds, stranded>>

\* The proposal and its experiment, or its code-change run, become durable.
AdmitProposal ==
    /\ step = "applying" /\ kind[cur] \in {"proposal", "code_change"}
    /\ campaign = "active"
    /\ step' = IF kind[cur] = "proposal" THEN "admitted" ELSE "admitted_change"
    /\ UNCHANGED <<campaign, rows, event, agent, daemon, cur, batch, bounds, stranded>>

\* The lock is busy, the campaign is full or its budget is exhausted.
DeferApply ==
    /\ step = "applying" /\ kind[cur] # "goal" /\ Setback
    /\ \/ UNCHANGED campaign
       \/ /\ campaign = "active" /\ kind[cur] # "wait"
          /\ campaign' = "budget_waiting"
    /\ step' = "idle"
    /\ UNCHANGED <<rows, event, agent, daemon, cur, batch, crashes, faults, wakes,
                   stranded>>

MarkCompleted ==
    /\ step \in {"admitted", "admitted_change"}
    /\ SettleOrFail("completed")
    /\ step' = "idle"
    /\ UNCHANGED <<campaign, event, agent, cur, batch, bounds, stranded>>

\* The cycle is completed and the campaign parked in one transaction.
ClaimGoal ==
    /\ step = "applying" /\ kind[cur] = "goal" /\ campaign = "active"
    /\ campaign' = "review"
    /\ Settle(cur, "completed")
    /\ step' = "idle"
    /\ UNCHANGED <<event, agent, daemon, cur, batch, bounds, stranded>>

\* The decision is not valid, or the campaign is no longer active.
RejectDecision ==
    /\ step = "applying"
    /\ FailAttempt(cur)
    /\ step' = "idle"
    /\ UNCHANGED <<agent, daemon, cur, batch, bounds, stranded>>

\* The events a waiting cycle may have; with any other the round fails (a due
\* retry_wait would be taken too, but a waiting cycle never has one).
Wakeable == {"completed", "failed", "dead_letter"}

WakeCycle(c) ==
    /\ InRound /\ cycle[c] = "waiting" /\ event[c] \in Wakeable
    /\ wakes < MaxWakes /\ wakes' = wakes + 1
    /\ cycle' = [cycle EXCEPT ![c] = "pending"]
    /\ event' = [event EXCEPT ![c] = "pending"]
    /\ UNCHANGED <<campaign, fails, att, kind, agent, place, crashes, faults, setbacks,
                   stranded>>

WakeCampaign ==
    /\ InRound /\ campaign = "budget_waiting"
    /\ campaign' = "active"
    /\ UNCHANGED <<rows, event, agent, place, bounds, stranded>>
----------------------------------------------------------------------------
Operator == Pause \/ Resume \/ Retire \/ RejectReview

\* A handler the daemon has begun goes on with its next transaction.
Continue ==
    \/ DeferBatch \/ ConfigUnreadable \/ \E c \in Cycles : Reserve(c)
    \/ StoreEvidence \/ ChargeBudget \/ Requeue \/ DeferRequeued
    \/ FailBeforeRun \/ InsertRun \/ BindRun \/ FailToBind
    \/ Launch \/ FailLaunch \/ FinalizeLaunch \/ FinalizeOutcome
    \/ ApplyWait \/ AdmitProposal \/ DeferApply \/ MarkCompleted
    \/ ClaimGoal \/ RejectDecision

Recover == \E c \in Cycles : RecoverUnbound(c) \/ RecoverLostOutput(c)
EndAgent(c) == StoreDecision(c) \/ MissDecision(c)

Next ==
    \/ Operator \/ Crash \/ Restart \/ Continue \/ Recover \/ WakeCampaign
    \/ \E b \in SUBSET Cycles : Claim(b)
    \/ \E c \in Cycles : \/ Publish(c) \/ LapseClaim(c) \/ EndAgent(c)
                         \/ BeginApply(c) \/ WakeCycle(c)

Spec == Init /\ [][Next]_vars

\* What an idle daemon finds to do in a round, besides claiming events.
Advance ==
    \/ WakeCampaign
    \/ \E c \in Cycles : LapseClaim(c) \/ EndAgent(c) \/ BeginApply(c)

ClaimOldest == \E b \in SUBSET Cycles : (\E c \in b : Oldest(c)) /\ Claim(b)

\* The service manager restarts the daemon, a handler that has begun goes on,
\* and a round calls all the others: what an idle daemon may do again and
\* again, it does.  Agents end or time out.  Events are claimed in the order
\* in which they became due, so the oldest cycle's comes to its turn.
FairSpec ==
    /\ Spec
    /\ WF_vars(Restart \/ Continue \/ Recover)
    /\ SF_vars(Advance) /\ SF_vars(ClaimOldest)
----------------------------------------------------------------------------
(* The rows between two transactions.                                      *)

InHand(c, steps) == cur = c /\ step \in steps

\* What a handler has in its hand, by the place at which it stands.
HandFits ==
    /\ step # "idle" => daemon = "up"
    /\ batch # {} => step = "claimed"
    /\ \A c \in batch : event[c] = "claimed"
    /\ step = "claimed" => AllRecovered
    /\ step \in {"reserved", "evidence"} => campaign = "active"
    /\ step = "reserved" => att[cur] = "reserved"
    /\ step \in {"evidence", "charged", "inserted"} => att[cur] = "evidence"
    /\ step = "bound" => att[cur] = "running"
    /\ step \in {"reserved", "evidence", "charged"}
          => cycle[cur] = "analyzing" /\ event[cur] = "claimed"
    /\ step \in {"inserted", "bound"}
          => cycle[cur] = "analyzing" /\ event[cur] = "in_flight"
    /\ step = "requeued" => cycle[cur] = "pending" /\ event[cur] = "claimed"
    /\ step = "launch_failed" => att[cur] = "failed" /\ event[cur] = "in_flight"
    /\ step = "outcome" => /\ event[cur] = "dispatched"
                           /\ \/ att[cur] = "decided" /\ cycle[cur] = "analyzing"
                              \/ att[cur] = "failed"
    /\ step \in {"applying", "admitted", "admitted_change"}
          => /\ cycle[cur] = "analyzing" /\ att[cur] = "decided"
             /\ event[cur] \in {"completed", "dead_letter"}

\* The attempt of a cycle fits its state.
AttemptFits(c) ==
    /\ cycle[c] = "none" => att[c] = "none"
    /\ cycle[c] = "pending" => att[c] \in {"none", "reserved", "decided", "failed"}
    /\ cycle[c] = "analyzing" => att[c] \in {"reserved", "evidence", "running", "decided"}
    /\ cycle[c] \in {"waiting", "completed"} => att[c] = "decided"
    /\ cycle[c] = "degraded" => att[c] = "failed"

\* An event in flight or dispatched belongs to an active run, and a run that
\* no handler holds was released for a running attempt.
RunFits(c) ==
    /\ agent[c] = "active" <=> event[c] \in {"in_flight", "dispatched"}
    /\ event[c] = "in_flight" => att[c] \in {"evidence", "running", "failed"}
    /\ event[c] = "dispatched" => att[c] \in {"running", "decided", "failed"}
    /\ att[c] = "running" => agent[c] # "none"
    /\ daemon = "up" /\ agent[c] = "active"
          => \/ InHand(c, {"inserted", "bound", "launch_failed", "outcome"})
             \/ event[c] = "dispatched" /\ att[c] = "running"

\* What an event without an active run says about its cycle.
EventFits(c) ==
    /\ event[c] = "none" <=> cycle[c] = "none"
    /\ Unbound(c) => event[c] \in Requeueable \cup {"in_flight"}
    /\ LostOutput(c) => event[c] \in {"retry_wait", "dead_letter"}
    /\ cycle[c] = "analyzing" /\ att[c] = "decided"
          => event[c] \in {"completed", "dead_letter", "dispatched"}
    /\ cycle[c] \in {"waiting", "completed"} => event[c] \in {"completed", "dead_letter"}

----------------------------------------------------------------------------
(* Properties.                                                             *)

\* A campaign has at most one attempt that is reserved, prepared or running,
\* across all its cycles, whatever was requeued, crashed or recovered.
OneActiveAttempt ==
    \A c, d \in Cycles : ActiveAttempt(c) /\ ActiveAttempt(d) => c = d

\* The rows a handler meets are among those it can deal with: an interrupted
\* attempt and a cycle to be woken always have an event that recovery and wake
\* accept.  Otherwise the round would fail, and after each restart again.
RecoveryNeverRefuses ==
    Idle => \A c \in Cycles : /\ Unbound(c) => event[c] \in Requeueable
                              /\ cycle[c] = "waiting" => event[c] \in Wakeable

\* The event of c can be claimed, is in the daemon's hand, will come back by
\* its lease, or is owned by an active run.
Deliverable(c) ==
    \/ event[c] \in {"pending", "retry_wait"}
    \/ event[c] = "claimed" /\ (agent[c] # "over" \/ c \in batch)
    \/ event[c] = "claimed" /\ step = "requeued" /\ cur = c
    \/ event[c] \in {"in_flight", "dispatched"} /\ agent[c] = "active"

\* A pending cycle has an event that will be delivered.  Only two things
\* lose it: a configuration that cannot be read while the event is claimed,
\* and a crash that leaves the event claimed after an earlier run or
\* dead-lettered after the attempt was failed.
PendingIsDeliverable ==
    \A c \in Cycles : cycle[c] = "pending" => (Deliverable(c) \/ c \in stranded)

\* A campaign has at most one active agent run, whoever holds it.
OneAgent == \A c, d \in Cycles : agent[c] = "active" /\ agent[d] = "active" => c = d

\* An exhausted cycle has stopped its campaign: nothing but a retirement
\* leads out of it, not even a pause and a resume.
DegradedIsParked ==
    (\E c \in Cycles : cycle[c] = "degraded")
        => campaign \in {"paused", "degraded", "retired"}

\* A cycle is asked at most MaxAttempts times in a row, also across the claims,
\* crashes and requeues that are not counted.
AttemptsAreLimited ==
    \A c \in Cycles : IF cycle[c] = "degraded" THEN fails[c] <= MaxAttempts
                                               ELSE fails[c] < MaxAttempts

\* The inductive invariant: the types, the fit of the rows of a cycle to each
\* other and to the daemon's place, and what the properties add.
DecisionInv ==
    /\ TypeOK /\ HandFits
    /\ \A c \in Cycles : AttemptFits(c) /\ RunFits(c) /\ EventFits(c)
    /\ OneActiveAttempt /\ OneAgent /\ AttemptsAreLimited
    /\ PendingIsDeliverable /\ DegradedIsParked

----------------------------------------------------------------------------
(* Refinement of CycleDelivery.                                            *)

StageOf(c) ==
    CASE cycle[c] = "none"      -> "absent"
      [] cycle[c] = "pending"   -> "open"
      [] cycle[c] = "waiting"   -> "waiting"
      [] cycle[c] = "completed" -> "done"
      [] cycle[c] = "degraded"  -> "given up"
      [] OTHER -> CASE att[c] = "running" -> "asked"
                    [] att[c] = "decided" -> "answered"
                    [] OTHER              -> "prepared"

\* The agents that were let through their launch gate and are not over.
Acting == {c \in Cycles : event[c] = "dispatched"}

Delivery == INSTANCE CycleDelivery
    WITH stage <- [c \in Cycles |-> StageOf(c)], failures <- fails,
         acting <- Acting, active <- campaign = "active"

\* The transactions on cycles, attempts, events and runs (decisions.rs,
\* scheduler.rs, agent.rs) keep the promise of CycleDelivery: an attempt that
\* reached its agent is counted whatever crashes in between, one that did not
\* is given back, and a cycle given up stops the campaign for good.
CyclesDeliver == Delivery!CycleSpec
----------------------------------------------------------------------------

\* Two cycles block each other: the older one may not have an attempt while
\* the younger one holds its own, and the younger one is not the oldest.
Contended ==
    \E c, d \in Cycles : c < d /\ cycle[c] = "pending" /\ cycle[d] = "pending"
                         /\ att[d] = "reserved"

Settled(c)  == cycle[c] \notin {"pending", "analyzing"}
MayRun      == campaign \in {"active", "budget_waiting"}

\* Every published cycle is decided: it is completed, degraded or waits, as
\* long as its campaign may run, no event of it or an older cycle is lost, and
\* no two cycles block each other.
CyclesSettle ==
    \A c \in Cycles :
        cycle[c] = "pending" ~> (Settled(c) \/ ~MayRun \/ Contended
                                 \/ \E d \in stranded : d <= c)
=============================================================================
