------------------------- MODULE CodeChangeEditing -------------------------
(***************************************************************************)
(* The editing stage of one code-change run.  The daemon's coordinator     *)
(* claims an editor event, charges the campaign's agent budget, launches   *)
(* an editor in the candidate worktree and stores what it reported: in     *)
(* separate transactions on the event, the attempt, the agent run and the  *)
(* code-change run, any two of which a crash may separate.  Two attempts   *)
(* are allowed; a restart decides about an editor it did not see end.      *)
(***************************************************************************)
EXTENDS Naturals, FiniteSets

CONSTANTS
    MaxRetries,    \* agent.max_retries of the project configuration
    MaxCrashes     \* bound: crashes of the daemon explored

ASSUME RetriesAssumption == MaxRetries \in Nat
ASSUME CrashesAssumption == MaxCrashes \in Nat

VARIABLES
    \* SQLite: code_change_runs.state, campaigns.state
    state, campaign,
    \* SQLite: code_change_editor_attempts, agent_runs with their launch gate,
    \* events with their attempts, agent-run budget reservations; per attempt
    att, agent, gate, event, tries, charged,
    \* the execution marker on disk and the editor process
    marker, proc,
    \* the daemon, the coordinator's place in a handler, the attempt in hand
    daemon, step, cur,
    \* does the rolling budget window have room for another agent run
    room,
    \* history: crashes so far; attempts whose editor ran and whose end the
    \* daemon that started it did not live to see; executions begun
    crashes, lost, runs

rows    == <<state, att, agent, gate, event, tries, charged>>
editors == <<marker, proc, runs>>
place   == <<daemon, step, cur>>
history == <<crashes, lost>>

vars == <<state, campaign, att, agent, gate, event, tries, charged, marker,
          proc, daemon, step, cur, room, crashes, lost, runs>>

Attempts == {1, 2}

\* Failure codes that end the run at once, and those that allow an attempt 2.
FinalCodes   == {"cannot_apply", "editor_session_missing"}
RepeatCodes  == {"editor_failed", "editor_launch"}
Uncertain    == "editor_startup_uncertain"

NoAttempt == [status |-> "none", code |-> "none", digest |-> FALSE, summary |-> FALSE]
Reserved  == [NoAttempt EXCEPT !.status = "reserved"]
FailedRow(code, d, s) == [status |-> "failed", code |-> code, digest |-> d, summary |-> s]

AttemptRow ==
    [status : {"none", "reserved", "ready", "failed"},
     code : {"none", "check_failed", Uncertain} \cup FinalCodes \cup RepeatCodes,
     digest : BOOLEAN, summary : BOOLEAN]

\* The coordinator's place: in its own claim; in a launch that has an agent
\* run; in front of the editor's end.
Claiming == {"claimed", "deferred", "charged", "doomed"}
Bound    == {"bound", "reserved", "gated", "requested", "marked", "opened",
             "running", "recorded", "abandoned", "unlaunched"}

TypeOK ==
    /\ state \in {"editing", "committing", "rejected", "recovery_required"}
    /\ campaign \in {"active", "budget_waiting", "stopped"}
    /\ att \in [Attempts -> AttemptRow]
    /\ agent \in [Attempts -> {"none", "active", "completed", "failed"}]
    /\ gate \in [Attempts -> {"none", "pending", "release_requested", "released"}]
    /\ event \in [Attempts -> {"none", "pending", "claimed", "in_flight",
                               "retry_wait", "completed", "dead_letter"}]
    /\ tries \in [Attempts -> 0..(MaxRetries + 1)]
    /\ charged \in [Attempts -> 0..1]
    /\ marker \in [Attempts -> BOOLEAN]
    /\ proc \in [Attempts -> {"none", "gated", "editing", "exited", "broken"}]
    /\ daemon \in {"down", "recovering", "up", "refused"}
    /\ step \in {"idle"} \cup Claiming \cup Bound
    /\ cur \in Attempts
    /\ room \in BOOLEAN
    /\ crashes \in 0..MaxCrashes
    /\ lost \in SUBSET Attempts
    /\ runs \in [Attempts -> Nat]

\* The run has just entered `editing`: its worktree is prepared.
Init ==
    /\ state = "editing" /\ campaign = "active"
    /\ att = [a \in Attempts |-> NoAttempt]
    /\ agent = [a \in Attempts |-> "none"]
    /\ gate = [a \in Attempts |-> "none"]
    /\ event = [a \in Attempts |-> "none"]
    /\ tries = [a \in Attempts |-> 0]
    /\ charged = [a \in Attempts |-> 0]
    /\ marker = [a \in Attempts |-> FALSE]
    /\ proc = [a \in Attempts |-> "none"]
    /\ daemon = "up" /\ step = "idle" /\ cur = 1
    /\ room = TRUE
    /\ crashes = 0 /\ lost = {}
    /\ runs = [a \in Attempts |-> 0]
----------------------------------------------------------------------------
(* What other processes do.                                                *)

\* `campaign stop` and `campaign resume`.
StopOrResume ==
    /\ \/ campaign \in {"active", "budget_waiting"} /\ campaign' = "stopped"
       \/ campaign = "stopped" /\ campaign' = "active"
    /\ UNCHANGED <<rows, editors, place, room, history>>

\* Other agent runs are charged, or old charges leave the window.
WindowMoves ==
    /\ room' = ~room
    /\ UNCHANGED <<rows, campaign, editors, place, history>>

\* The editor ends: by itself, by its timeout, or with an error.
EditorEnds(a) ==
    /\ proc[a] = "editing"
    /\ \E end \in {"exited", "broken"} : proc' = [proc EXCEPT ![a] = end]
    /\ UNCHANGED <<rows, campaign, marker, runs, place, room, history>>

\* A crash, or an error that ends the daemon: what it held in memory is gone,
\* a child still behind its gate exits, a released editor goes on.
Crash ==
    /\ daemon \in {"recovering", "up"} /\ crashes < MaxCrashes
    /\ crashes' = crashes + 1
    /\ daemon' = "down" /\ step' = "idle"
    /\ lost' = lost \cup {a \in Attempts : agent[a] = "active" /\ runs[a] > 0
                                           /\ att[a].status = "reserved"}
    /\ proc' = [a \in Attempts |-> IF proc[a] = "gated" THEN "none" ELSE proc[a]]
    /\ UNCHANGED <<rows, campaign, marker, runs, cur, room>>
----------------------------------------------------------------------------
(* The scheduler's part of a round, between two handlers.                  *)

Idle == daemon = "up" /\ step = "idle"

WakeCampaign ==
    /\ Idle /\ campaign = "budget_waiting" /\ room
    /\ campaign' = "active"
    /\ UNCHANGED <<rows, editors, place, room, history>>

\* Mutant: the recovery of leases leaves out the events of code changes.
LapseClaim_Excluded(a) == FALSE

\* A claim nobody bound to an agent run goes back when its lease is over.
LapseClaim(a) ==
    /\ Idle /\ event[a] = "claimed"
    /\ event' = [event EXCEPT ![a] = "pending"]
    /\ tries' = [tries EXCEPT ![a] = @ - 1]
    /\ UNCHANGED <<state, campaign, att, agent, gate, charged, editors, place,
                   room, history>>
----------------------------------------------------------------------------
(* advance_ready: which attempt is next.                                   *)

NoActiveAgent == \A a \in Attempts : agent[a] # "active"

\* The coordinator looks at the run at all.
MayAdvance == Idle /\ state = "editing" /\ campaign = "active" /\ NoActiveAgent

Fails(a, codes)  == att[a].status = "failed" /\ att[a].code \in codes
ReadyForCheck(a) == att[a].status = "ready" /\ att[a].code # "check_failed"

NextAttempt(a) ==
    \/ a = 1 /\ att[1].status = "none"
    \/ a = 2 /\ att[2].status = "none"
       /\ (att[1].status = "failed" \/ att[1].code = "check_failed")
       /\ ~Fails(1, FinalCodes)

\* The attempt that ended the run: the first with a final code, or the second.
LastFailed == Fails(1, FinalCodes) \/ att[2].status = "failed"

RejectFailedAttempt ==
    /\ MayAdvance /\ LastFailed
    /\ state' = "rejected"
    /\ UNCHANGED <<campaign, att, agent, gate, event, tries, charged, editors,
                   place, room, history>>

\* The checks of a ready attempt pass, fail, or contradict what is stored.
CheckRound(a) ==
    /\ MayAdvance /\ ReadyForCheck(a) /\ (a = 1 => att[2].status = "none")
    /\ \/ state' = "committing" /\ UNCHANGED att
       \/ /\ a = 1
          /\ att' = [att EXCEPT ![1].code = "check_failed"]
          /\ UNCHANGED state
       \/ a = 2 /\ state' = "rejected" /\ UNCHANGED att
       \/ state' = "recovery_required" /\ UNCHANGED att
    /\ UNCHANGED <<campaign, agent, gate, event, tries, charged, editors, place,
                   room, history>>
----------------------------------------------------------------------------
(* advance_ready: claim, charge, launch.                                   *)

InsertEvent(a) ==
    /\ MayAdvance /\ NextAttempt(a) /\ event[a] = "none"
    /\ event' = [event EXCEPT ![a] = "pending"]
    /\ UNCHANGED <<state, campaign, att, agent, gate, tries, charged, editors,
                   place, room, history>>

ClaimEvent(a) ==
    /\ MayAdvance /\ NextAttempt(a) /\ event[a] \in {"pending", "retry_wait"}
    /\ event' = [event EXCEPT ![a] = "claimed"]
    /\ tries' = [tries EXCEPT ![a] = @ + 1]
    /\ step' = "claimed" /\ cur' = a
    /\ UNCHANGED <<state, campaign, att, agent, gate, charged, editors, daemon,
                   room, history>>

At(where) == daemon = "up" /\ step = where

ReserveAgentRun ==
    /\ At("claimed") /\ campaign = "active"
    /\ charged[cur] = 1 \/ room
    /\ charged' = [charged EXCEPT ![cur] = 1]
    /\ step' = "charged"
    /\ UNCHANGED <<state, campaign, att, agent, gate, event, tries, editors,
                   daemon, cur, room, history>>

\* The campaign is not active, or the window has no room and it has to wait.
DeferAgentRun ==
    /\ At("claimed")
    /\ campaign = "active" => charged[cur] = 0 /\ ~room
    /\ campaign' = IF campaign = "active" THEN "budget_waiting" ELSE campaign
    /\ step' = "deferred"
    /\ UNCHANGED <<rows, editors, daemon, cur, room, history>>

\* A claim that was not used goes back, and with it the attempt it counted.
GiveBackClaim ==
    /\ At("deferred")
    /\ event' = [event EXCEPT ![cur] = "retry_wait"]
    /\ tries' = [tries EXCEPT ![cur] = @ - 1]
    /\ step' = "idle"
    /\ UNCHANGED <<state, campaign, att, agent, gate, charged, editors, daemon,
                   cur, room, history>>

RetryTarget(a) == IF tries[a] <= MaxRetries THEN "retry_wait" ELSE "dead_letter"

\* Mutant: the event is dead-lettered before the run is given up.
PreBindingFails_EventFirst ==
    /\ At("charged")
    /\ \/ event' = [event EXCEPT ![cur] = RetryTarget(cur)] /\ step' = "idle"
       \/ event' = [event EXCEPT ![cur] = "dead_letter"] /\ step' = "doomed"
    /\ UNCHANGED <<state, campaign, att, agent, gate, tries, charged, editors,
                   daemon, cur, room, history>>

\* The launch fails before an agent run exists: by policy, or to be retried.
PreBindingFails ==
    /\ At("charged")
    /\ \/ /\ RetryTarget(cur) = "retry_wait"
          /\ event' = [event EXCEPT ![cur] = "retry_wait"]
          /\ step' = "idle"
          /\ UNCHANGED state
       \/ /\ state' = "recovery_required"
          /\ step' = "doomed"
          /\ UNCHANGED event
    /\ UNCHANGED <<campaign, att, agent, gate, tries, charged, editors, daemon,
                   cur, room, history>>

DeadLetterDoomed ==
    /\ At("doomed")
    /\ event' = [event EXCEPT ![cur] = "dead_letter"]
    /\ step' = "idle"
    /\ UNCHANGED <<state, campaign, att, agent, gate, tries, charged, editors,
                   daemon, cur, room, history>>

\* Mutant: the agent run is inserted, its event keeps the coordinator's claim.
BindAgentRun_ClaimKept ==
    /\ At("charged")
    /\ agent' = [agent EXCEPT ![cur] = "active"]
    /\ gate' = [gate EXCEPT ![cur] = "pending"]
    /\ step' = "bound"
    /\ UNCHANGED <<state, campaign, att, event, tries, charged, editors, daemon,
                   cur, room, history>>

\* The agent run is inserted and takes the event.
BindAgentRun ==
    /\ At("charged")
    /\ agent' = [agent EXCEPT ![cur] = "active"]
    /\ gate' = [gate EXCEPT ![cur] = "pending"]
    /\ event' = [event EXCEPT ![cur] = "in_flight"]
    /\ step' = "bound"
    /\ UNCHANGED <<state, campaign, att, tries, charged, editors, daemon, cur,
                   room, history>>

ReserveEditorAttempt ==
    /\ At("bound") /\ state = "editing"
    /\ att' = [att EXCEPT ![cur] = Reserved]
    /\ step' = "reserved"
    /\ UNCHANGED <<state, campaign, agent, gate, event, tries, charged, editors,
                   daemon, cur, room, history>>

SpawnGated ==
    /\ At("reserved")
    /\ proc' = [proc EXCEPT ![cur] = "gated"]
    /\ step' = "gated"
    /\ UNCHANGED <<rows, campaign, marker, runs, daemon, cur, room, history>>

RequestRelease ==
    /\ At("gated")
    /\ gate' = [gate EXCEPT ![cur] = "release_requested"]
    /\ step' = "requested"
    /\ UNCHANGED <<state, campaign, att, agent, event, tries, charged, editors,
                   daemon, cur, room, history>>

PublishMarker ==
    /\ At("requested")
    /\ marker' = [marker EXCEPT ![cur] = TRUE]
    /\ step' = "marked"
    /\ UNCHANGED <<rows, campaign, proc, runs, daemon, cur, room, history>>

Release ==
    /\ At("marked")
    /\ proc' = [proc EXCEPT ![cur] = "editing"]
    /\ runs' = [runs EXCEPT ![cur] = @ + 1]
    /\ step' = "opened"
    /\ UNCHANGED <<rows, campaign, marker, daemon, cur, room, history>>

AcknowledgeDispatch ==
    /\ At("opened")
    /\ gate' = [gate EXCEPT ![cur] = "released"]
    /\ step' = "running"
    /\ UNCHANGED <<state, campaign, att, agent, event, tries, charged, editors,
                   daemon, cur, room, history>>

\* A launch that fails after its binding first takes down the child ...
LaunchFails ==
    /\ daemon = "up" /\ step \in {"bound", "reserved", "gated", "requested", "marked", "opened"}
    /\ proc' = [proc EXCEPT ![cur] = IF @ \in {"gated", "editing"} THEN "broken" ELSE @]
    /\ step' = "abandoned"
    /\ UNCHANGED <<rows, campaign, marker, runs, daemon, cur, room, history>>

\* ... then ends the attempt, if there is one ...
FailUnlaunched ==
    /\ At("abandoned")
    /\ att' = IF att[cur].status = "reserved"
              THEN [att EXCEPT ![cur] = FailedRow("editor_launch", FALSE, TRUE)]
              ELSE att
    /\ step' = "unlaunched"
    /\ UNCHANGED <<state, campaign, agent, gate, event, tries, charged, editors,
                   daemon, cur, room, history>>

\* ... and then the agent run with its event: past the marker for good.
FinishUnlaunched ==
    /\ At("unlaunched")
    /\ agent' = [agent EXCEPT ![cur] = "failed"]
    /\ event' = [event EXCEPT ![cur] = IF marker[cur] THEN "dead_letter" ELSE RetryTarget(cur)]
    /\ step' = "idle"
    /\ UNCHANGED <<state, campaign, att, gate, tries, charged, editors, daemon,
                   cur, room, history>>
----------------------------------------------------------------------------
(* persist_terminal_outcome: the attempt, the run, then the agent run.     *)

\* What is stored of an editor that ended: an attempt 1 may also be found to
\* have no session an attempt 2 could resume.
Outcome(a) ==
    LET ready   == [status |-> "ready", code |-> "none", digest |-> TRUE, summary |-> TRUE]
        missing == {FailedRow("editor_session_missing", d, TRUE) : d \in {FALSE, proc[a] = "exited"}}
    IN  (IF proc[a] = "exited"
         THEN {ready, FailedRow("cannot_apply", TRUE, TRUE), FailedRow("editor_failed", FALSE, TRUE)}
         ELSE {FailedRow("editor_failed", FALSE, s) : s \in BOOLEAN})
        \cup (IF a = 1 THEN missing ELSE {})

FinishEditorAttempt ==
    /\ At("running") /\ proc[cur] \in {"exited", "broken"}
    /\ state = "editing" /\ att[cur].status = "reserved"
    /\ \E o \in Outcome(cur) : att' = [att EXCEPT ![cur] = o]
    /\ step' = "recorded"
    /\ UNCHANGED <<state, campaign, agent, gate, event, tries, charged, editors,
                   daemon, cur, room, history>>

RejectAtOnce(a) == att[a].status = "failed" /\ (att[a].code \in FinalCodes \/ a = 2)

RejectRecorded ==
    /\ At("recorded") /\ RejectAtOnce(cur) /\ state = "editing"
    /\ state' = "rejected"
    /\ UNCHANGED <<campaign, att, agent, gate, event, tries, charged, editors,
                   place, room, history>>

\* The agent run ends as its process did, and its event with it.
Resolve(a, ok) ==
    /\ agent' = [agent EXCEPT ![a] = IF ok THEN "completed" ELSE "failed"]
    /\ event' = [event EXCEPT ![a] = IF ok THEN "completed" ELSE RetryTarget(a)]

FinishAgentRun ==
    /\ At("recorded") /\ (RejectAtOnce(cur) => state = "rejected")
    /\ Resolve(cur, proc[cur] = "exited")
    /\ step' = "idle"
    /\ UNCHANGED <<state, campaign, att, gate, tries, charged, editors, daemon,
                   cur, room, history>>
----------------------------------------------------------------------------
(* The restart: recover_interrupted_with_marker_evidence, then             *)
(* recover_startup_editors for every editor run still active.              *)

\* The attempt row that startup demands of an active editor run.
ValidBinding(a) ==
    /\ att[a].status # "none"
    /\ att[a].status = "reserved" => state = "editing"
    /\ att[a].status = "ready" =>
          att[a].digest /\ att[a].code = "none" /\ ~att[a].summary
    /\ att[a].status = "failed" =>
          ~att[a].digest /\ att[a].code # "none" /\ att[a].summary

RecoveryAccepts == \A a \in Attempts : agent[a] = "active" => ValidBinding(a)

Restart ==
    /\ daemon = "down"
    /\ daemon' = IF RecoveryAccepts THEN "recovering" ELSE "refused"
    /\ UNCHANGED <<rows, campaign, editors, step, cur, room, history>>

Recovering(a) == daemon = "recovering" /\ agent[a] = "active"

\* Mutant: only the gate is asked, not the marker on disk.
MayHaveRun_ReleasedOnly(a) == gate[a] = "released"

\* The editor may have run: its marker is there, or its gate was to open.
MayHaveRun(a) == marker[a] \/ gate[a] \in {"release_requested", "released"}

\* An editor that may have run; also one whose marker cannot be read, which
\* may be any.
MarkUncertain(a) ==
    /\ Recovering(a) /\ att[a].status = "reserved"
    /\ att' = [att EXCEPT ![a] = FailedRow(Uncertain, FALSE, TRUE)]
    /\ UNCHANGED <<state, campaign, agent, gate, event, tries, charged, editors,
                   place, room, history>>

RequireRecovery(a) ==
    /\ Recovering(a) /\ Fails(a, {Uncertain}) /\ state # "recovery_required"
    /\ state' = "recovery_required"
    /\ UNCHANGED <<campaign, att, agent, gate, event, tries, charged, editors,
                   place, room, history>>

FinishUncertain(a) ==
    /\ Recovering(a) /\ Fails(a, {Uncertain}) /\ state = "recovery_required"
    /\ agent' = [agent EXCEPT ![a] = "failed"]
    /\ event' = [event EXCEPT ![a] = "dead_letter"]
    /\ UNCHANGED <<state, campaign, att, gate, tries, charged, editors, place,
                   room, history>>

\* The editor never passed its gate.
FailNeverRan(a) ==
    /\ Recovering(a) /\ att[a].status = "reserved" /\ ~MayHaveRun(a)
    /\ att' = [att EXCEPT ![a] = FailedRow("editor_launch", FALSE, TRUE)]
    /\ UNCHANGED <<state, campaign, agent, gate, event, tries, charged, editors,
                   place, room, history>>

\* The outcome is stored, only the agent run is still open.
FinishStored(a) ==
    /\ Recovering(a)
    /\ att[a].status = "ready" \/ Fails(a, FinalCodes \cup RepeatCodes)
    /\ Resolve(a, att[a].status = "ready")
    /\ UNCHANGED <<state, campaign, att, gate, tries, charged, editors, place,
                   room, history>>

Recovered ==
    /\ daemon = "recovering" /\ NoActiveAgent
    /\ daemon' = "up"
    /\ UNCHANGED <<rows, campaign, editors, step, cur, room, history>>
----------------------------------------------------------------------------
LaunchStep ==
    \/ ReserveAgentRun \/ DeferAgentRun \/ GiveBackClaim
    \/ PreBindingFails \/ DeadLetterDoomed
    \/ BindAgentRun \/ ReserveEditorAttempt \/ SpawnGated \/ RequestRelease
    \/ PublishMarker \/ Release \/ AcknowledgeDispatch
    \/ LaunchFails \/ FailUnlaunched \/ FinishUnlaunched

OutcomeStep == FinishEditorAttempt \/ RejectRecorded \/ FinishAgentRun

AdvanceStep ==
    \/ RejectFailedAttempt
    \/ \E a \in Attempts : CheckRound(a) \/ InsertEvent(a) \/ ClaimEvent(a)

RecoveryStep ==
    \/ Recovered
    \/ \E a \in Attempts : \/ MarkUncertain(a) \/ RequireRecovery(a)
                           \/ FinishUncertain(a) \/ FailNeverRan(a) \/ FinishStored(a)

Environment ==
    \/ StopOrResume \/ WindowMoves \/ Crash
    \/ \E a \in Attempts : EditorEnds(a)

Next ==
    \/ LaunchStep \/ OutcomeStep \/ AdvanceStep
    \/ WakeCampaign \/ \E a \in Attempts : LapseClaim(a)
    \/ Restart \/ RecoveryStep
    \/ Environment

Spec == Init /\ [][Next]_vars

\* The daemon runs its rounds, is restarted by its service manager, and lets
\* no editor run for ever; a lease ends.
Fairness ==
    /\ WF_vars(LaunchStep) /\ WF_vars(OutcomeStep) /\ WF_vars(AdvanceStep)
    /\ WF_vars(Restart) /\ WF_vars(RecoveryStep)
    /\ \A a \in Attempts : WF_vars(LapseClaim(a)) /\ WF_vars(EditorEnds(a))

FairSpec == Spec /\ Fairness
----------------------------------------------------------------------------
(* Properties.                                                             *)

Live(a) == proc[a] \in {"gated", "editing"}

\* The worktree belongs to one editor at a time, and to none once the run is
\* committed or rejected and the worktree goes to git or to the cleanup.
OneEditor ==
    /\ Live(1) => ~Live(2)
    /\ state \in {"committing", "rejected"} => ~Live(1) /\ ~Live(2)

\* An editor that ran while the daemon crashed is never given a second try
\* nor taken as failed: the run ends in recovery before a round goes on.
UnknownIsFinal ==
    \A a \in lost :
        /\ a = 1 => att[2].status = "none"
        /\ att[a].status = "reserved" \/ Fails(a, {Uncertain})
        /\ daemon = "up" => state = "recovery_required"

\* An editing run's next event can be claimed at any time, also by a daemon
\* that starts after a crash between two transactions: an event nobody bound
\* is dead-lettered only after its run ended.  (An event whose agent run was
\* inserted but could not store its attempt is the exception.)
EditingIsClaimable ==
    \A a \in Attempts :
        state = "editing" /\ NextAttempt(a) /\ agent[a] = "none"
            => event[a] \in {"none", "pending", "claimed", "retry_wait"}

\* What an attempt's rows say of each other.
RowsAgree(a) ==
    /\ event[a] = "in_flight" <=> agent[a] = "active"
    /\ event[a] = "none" => agent[a] = "none" /\ tries[a] = 0
    /\ agent[a] = "none" => att[a].status = "none"
    /\ att[a].status = "failed" => att[a].code \notin {"none", "check_failed"}
    /\ att[a].code = "check_failed" => att[a].status = "ready"
    /\ agent[a] # "none" => charged[a] = 1
    /\ agent[a] = "active" /\ att[a].status = "reserved" => state = "editing"
    /\ event[a] \in {"pending", "retry_wait"} => tries[a] <= MaxRetries
    /\ event[a] \in {"claimed", "in_flight"} => tries[a] > 0
    /\ agent[a] = "none" /\ event[a] \in {"completed", "dead_letter"}
          => state = "recovery_required"

\* Attempt 1 ended in a way that allows an attempt 2.
Repeatable ==
    \/ Fails(1, RepeatCodes)
    \/ att[1].status = "ready" /\ att[1].code = "check_failed"

\* The coordinator's place follows from the rows of the attempt in hand.
Launching == {"reserved", "gated", "requested", "marked", "opened", "running"}

PlaceAgrees ==
    /\ step # "idle" => daemon = "up"
    /\ \A a \in Attempts : agent[a] = "active" /\ daemon = "up" => a = cur /\ step \in Bound
    /\ step \in Bound => agent[cur] = "active"
    /\ step \in Claiming => event[cur] = "claimed"
    /\ step \in Claiming \cup {"bound"} => att[cur].status = "none"
    /\ step \in Launching => att[cur].status = "reserved" /\ state = "editing"
    /\ step = "charged" => charged[cur] = 1
    /\ step = "marked" => marker[cur]
    /\ step \in {"recorded", "unlaunched"} => att[cur].status # "reserved"
    /\ step \in {"abandoned", "unlaunched"} => ~Live(cur)
    /\ step = "doomed" => state = "recovery_required"

\* A live editor has an open attempt, or one known to be in doubt; and it left
\* its marker before it began.
EditorsAgree(a) ==
    /\ Live(a) => \/ agent[a] = "active" /\ att[a].status = "reserved"
                  \/ Fails(a, {Uncertain})
    /\ proc[a] = "gated" => daemon = "up"
    /\ proc[a] = "editing" => marker[a]
    /\ marker[a] => att[a].status # "none"
    /\ runs[a] > 0 => marker[a]
    /\ runs[a] <= 1
    /\ a = cur /\ step \in {"reserved", "gated", "requested"} => ~marker[a]
    /\ a = cur /\ step \in {"reserved", "gated", "requested", "marked"} => runs[a] = 0

\* An attempt in doubt holds its run: the run is in recovery, or the startup
\* that will put it there has not ended.
DoubtHolds(a) ==
    /\ Fails(a, {Uncertain}) => \/ state = "recovery_required"
                                \/ /\ agent[a] = "active" /\ daemon # "up"
                                   /\ state = "editing"
    /\ Fails(a, {Uncertain}) /\ agent[a] = "active" => daemon # "up"
    /\ agent[a] = "active" /\ att[a].status = "reserved" /\ runs[a] > 0
          => daemon = "up" \/ a \in lost
    /\ a \in lost => \/ Fails(a, {Uncertain})
                     \/ /\ att[a].status = "reserved" /\ marker[a]
                        /\ agent[a] = "active" /\ daemon # "up"

\* The inductive invariant from which the safety properties follow: an agent
\* run is active exactly while it holds its event, in the hand of a live
\* coordinator or of the next startup; it was charged once; and attempt 2
\* exists only after attempt 1 ended for good.
EditingInv ==
    /\ TypeOK
    /\ event[2] # "none" => Repeatable
    /\ PlaceAgrees
    /\ \A a \in Attempts : RowsAgree(a) /\ EditorsAgree(a) /\ DoubtHolds(a)

----------------------------------------------------------------------------
(* Refinement of EventDelivery.                                            *)

\* The phase of an editor's event.  An editor that began to run has exposed
\* it; the outcome was seen if it was stored by the daemon that started it.
PhaseOf(a) ==
    CASE event[a] = "none"                                -> "absent"
      [] event[a] \in {"pending", "claimed", "retry_wait"} -> "waiting"
      [] event[a] \in {"completed", "dead_letter"}         -> "settled"
      [] OTHER -> IF runs[a] = 0 THEN "bound"
                  ELSE IF a \notin lost /\ att[a].status \in {"ready", "failed"}
                       THEN "reported" ELSE "exposed"

Delivery == INSTANCE EventDelivery
    WITH Events <- Attempts, phase <- [a \in Attempts |-> PhaseOf(a)]

\* The editors of a code change are given what EventDelivery promises of every
\* event, though their coordinator has transactions, gates and a startup
\* recovery of its own (code_change.rs, recover_startup_editors): after an
\* editor may have written the worktree its event waits again only if the
\* daemon that started it has seen its end.
EditorsDeliver == Delivery!DeliverySpec
----------------------------------------------------------------------------

Stuck == \E a \in Attempts : NextAttempt(a) /\ event[a] = "dead_letter"

\* An editing run gets on: it is checked, rejected or needs recovery, unless
\* its campaign stops or waits, startup is refused, or its event is lost.
EditingEnds ==
    state = "editing" ~> \/ state # "editing" \/ campaign # "active"
                         \/ daemon = "refused" \/ Stuck
=============================================================================
