--------------------------- MODULE RunningHealth ---------------------------
(***************************************************************************)
(* Running health and termination.  While an experiment's task runs, the   *)
(* daemon watches its log; a suspicious run is judged by a diagnosis agent *)
(* whose advice may be to kill it.  A kill is a request that the           *)
(* termination pass dispatches, that Pueue carries out, and that           *)
(* reconciliation confirms when it sees the task end; only then is the     *)
(* experiment resumed as a successor or escalated to the operator.  A      *)
(* pattern in the log may ask for a kill without any diagnosis.            *)
(*                                                                         *)
(* Tasks end, are killed, paused and cleaned by Pueue and its users at any *)
(* time, Pueue gives the id of a cleaned task to another one, and the      *)
(* daemon may stop between any two of its transactions and calls.          *)
(***************************************************************************)
EXTENDS Naturals, FiniteSets

CONSTANTS
    Managed,       \* experiments; each is the run of one Pueue task
    Origin, First, \* the experiment that runs, and one it may have resumed
    Foreign,       \* runs of the project's group that no experiment owns
    Reuses,        \* the experiment whose task id a foreign run is given
    MaxRepairs,    \* limits.max_live_repairs
    MaxDiagnoses,  \* MAX_DIAGNOSIS_ATTEMPTS
    MaxFaults,     \* bound: crashes, failed launches, pauses and reuses explored
    Patterned      \* bound: runs whose log may ask for a kill by a pattern

None == "none"

ASSUME RunsAssumption ==
    /\ IsFiniteSet(Managed) /\ IsFiniteSet(Foreign)
    /\ Managed \cap Foreign = {} /\ None \notin Managed \cup Foreign
    /\ Origin \in Managed /\ First \in Managed \ {Origin}
    /\ Reuses \in [Foreign -> Managed]
    /\ \A f, g \in Foreign : Reuses[f] = Reuses[g] => f = g
ASSUME BoundsAssumption ==
    /\ MaxRepairs \in Nat /\ MaxDiagnoses \in Nat \ {0}
    /\ MaxFaults \in Nat /\ Patterned \subseteq Managed \cup Foreign

VARIABLES
    \* Pueue: the task of a run
    task,
    \* SQLite: experiments.status and resume_of_experiment_id; campaigns.state;
    \* the experiments with a health-escalate event
    exp, parent, campaign, escalated,
    \* SQLite: running_health.state, and its diagnosis_json: a count of failed
    \* attempts or an advice
    row, fails, advice,
    \* SQLite: the attempts of an experiment whose event can no longer be
    \* claimed; the experiment whose diagnosis run is active; whether the event
    \* of that run was released by a launch that failed
    spent, agent, released,
    \* SQLite: termination_requests.status, one per run and origin
    req,
    \* the daemon, its place in a handler, and the run and origin in hand
    daemon, step, cur, src,
    \* the kinds of disturbance so far
    faults,
    \* history: the runs that a kill of the daemon has reached
    hit

lineage == <<exp, parent>>
health  == <<row, fails, advice>>
agents  == <<spent, agent, released>>
place   == <<daemon, step, cur, src>>

vars == <<task, exp, parent, campaign, escalated, row, fails, advice, spent,
          agent, released, req, daemon, step, cur, src, faults, hit>>

Runs    == Managed \cup Foreign
Origins == {"health", "policy"}

FaultKinds == {"crash", "launch_failed", "task_paused", "campaign_paused", "id_reused"}

Kills == {"kill_and_resume", "kill_and_escalate"}
Steps == {"idle", "launching", "stored", "killing", "kill_sent", "kill_failed",
          "confirmed", "projected", "followed"}

\* `misfiled` is a request whose signature names a state other than Running,
\* `moot` a confirmed one with an error: the task was not running.
Statuses == {"none", "requested", "misfiled", "dispatching", "sent", "confirmed",
             "moot", "failed", "timed_out"}

TypeOK ==
    \* `signalled` is running with a kill on its way
    /\ task \in [Runs -> {"none", "running", "signalled", "paused", "done",
                          "killed", "gone"}]
    /\ exp \in [Managed -> {"none", "reserved", "accepted", "ended"}]
    /\ parent \in [Managed -> Managed \cup {None}]
    /\ campaign \in {"active", "paused", "degraded"}
    /\ escalated \in SUBSET Managed
    /\ row \in [Managed -> {"none", "healthy", "suspicious", "diagnosing",
                            "action_pending"}]
    /\ fails \in [Managed -> 0..MaxDiagnoses]
    /\ advice \in [Managed -> Kills \cup {"continue", "none"}]
    /\ spent \in [Managed -> SUBSET (0..MaxDiagnoses - 1)]
    /\ agent \in Managed \cup {None} /\ released \in BOOLEAN
    /\ req \in [Runs -> [Origins -> Statuses]]
    /\ daemon \in {"up", "down"} /\ step \in Steps
    /\ cur \in Runs \cup {None} /\ src \in Origins \cup {None}
    /\ faults \subseteq FaultKinds
    /\ hit \in SUBSET Runs

Init ==
    /\ task = [r \in Runs |-> IF r = First THEN "running" ELSE "none"]
    /\ \E older \in {{}, {Origin}} :
          /\ exp = [e \in Managed |-> IF e = First THEN "accepted"
                                      ELSE IF e \in older THEN "ended" ELSE "none"]
          /\ parent = [e \in Managed |-> IF e = First /\ older # {} THEN Origin ELSE None]
          /\ Cardinality(older) <= MaxRepairs
    /\ campaign = "active" /\ escalated = {}
    /\ row = [e \in Managed |-> "none"]
    /\ fails = [e \in Managed |-> 0] /\ advice = [e \in Managed |-> "none"]
    /\ spent = [e \in Managed |-> {}] /\ agent = None /\ released = FALSE
    /\ req = [r \in Runs |-> [o \in Origins |-> "none"]]
    /\ daemon = "up" /\ step = "idle" /\ cur = None /\ src = None
    /\ faults = {}
    /\ hit = {}
----------------------------------------------------------------------------
(* Task ids, and what Pueue says of a task.                                *)

\* The experiment whose accepted submission has the task id of r.
Owner(r)     == IF r \in Foreign THEN Reuses[r] ELSE r
SameId(q, r) == Owner(q) = Owner(r)

Running(r)  == task[r] \in {"running", "signalled"}
Terminal(r) == task[r] \in {"done", "killed"}
Listed(r)   == task[r] \notin {"none", "gone"}

\* The task that Pueue lists under the id of e.
ListedAs(e) == {r \in Runs : SameId(r, e) /\ Listed(r)}

\* The latest request that names the task id of e.  A foreign run comes after
\* the experiment whose id it has, and a diagnosis asks for a kill only when
\* there is no request under the id: a policy request is always the later one.
Later(q, r) ==
    \/ q[1] \in Foreign /\ r[1] \notin Foreign
    \/ q[1] = r[1] /\ q[2] = "policy"
RequestsOf(e) == {q \in Runs \X Origins : SameId(q[1], e) /\ req[q[1]][q[2]] # "none"}
LatestIn(e, statuses) ==
    \E q \in RequestsOf(e) : /\ req[q[1]][q[2]] \in statuses
                             /\ \A p \in RequestsOf(e) \ {q} : Later(q, p)

\* Where the daemon is in a handler, and what it has in hand there.
GoTo(there, r, o) == step' = there /\ cur' = r /\ src' = o
GoIdle == GoTo("idle", None, None)
Proceed(there) == GoTo(there, cur, src)

\* The successors of every generation.  Each has one parent that was there
\* before it, so that a lineage is a chain from its origin.
Repairs == {s \in Managed : parent[s] # None}

Successors(e) == {s \in Managed : parent[s] = e}

SetRequest(r, o, status) == req' = [req EXCEPT ![r][o] = status]
----------------------------------------------------------------------------
(* Pueue, its users, and the operator of the campaign.                     *)

\* Bound: each kind of disturbance once, and MaxFaults of them together.
Fault(kind) ==
    /\ kind \notin faults /\ Cardinality(faults) < MaxFaults
    /\ faults' = faults \cup {kind}

db == <<lineage, campaign, escalated, health, agents, req>>

TaskEnds(r) ==
    /\ Running(r)
    /\ \E result \in {"done", "killed"} :
          /\ result = "killed" => task[r] = "signalled"
          /\ task' = [task EXCEPT ![r] = result]
    /\ UNCHANGED <<db, place, faults, hit>>

UserKills(r) ==
    /\ task[r] \in {"running", "paused"}
    /\ task' = [task EXCEPT ![r] = "killed"]
    /\ UNCHANGED <<db, place, faults, hit>>

UserPauses(r) ==
    /\ task[r] = "running" /\ Fault("task_paused")
    /\ task' = [task EXCEPT ![r] = "paused"]
    /\ UNCHANGED <<db, place, hit>>

UserResumes(r) ==
    /\ task[r] = "paused"
    /\ task' = [task EXCEPT ![r] = "running"]
    /\ UNCHANGED <<db, place, faults, hit>>

UserCleans(r) ==
    /\ Terminal(r)
    /\ task' = [task EXCEPT ![r] = "gone"]
    /\ UNCHANGED <<db, place, faults, hit>>

\* Pueue gives the id away again.  It counts as a fault when the daemon has
\* read the task list and its kill for that id is under way.
IdIsReused(f) ==
    /\ task[f] = "none" /\ task[Reuses[f]] = "gone"
    /\ IF step = "killing" /\ SameId(cur, f) THEN Fault("id_reused") ELSE UNCHANGED faults
    /\ task' = [task EXCEPT ![f] = "running"]
    /\ UNCHANGED <<db, place, hit>>

PauseCampaign ==
    /\ campaign \in {"active", "degraded"} /\ Fault("campaign_paused")
    /\ campaign' = "paused"
    /\ UNCHANGED <<task, lineage, escalated, health, agents, req, place, hit>>

ResumeCampaign ==
    /\ campaign = "paused"
    /\ campaign' = "active"
    /\ UNCHANGED <<task, lineage, escalated, health, agents, req, place, faults, hit>>
----------------------------------------------------------------------------
(* Crash and restart.                                                      *)

\* A claim that no run is bound to lapses; a bound run that did not reach its
\* marker is retried or dead-lettered by recovery.
Crash ==
    /\ daemon = "up" /\ Fault("crash")
    /\ daemon' = "down" /\ GoIdle
    /\ \E lapsed \in IF step = "launching" THEN {{}, {fails[cur]}} ELSE {{}} :
          spent' = IF lapsed = {} THEN spent
                   ELSE [spent EXCEPT ![cur] = @ \ lapsed]
    /\ UNCHANGED <<task, lineage, campaign, escalated, health, agent, released, req, hit>>

\* Startup recovery ends the run of a lost agent; its event stays dead.  It
\* refuses an active run whose event was released, and the daemon ends again.
Restart ==
    /\ daemon = "down" /\ ~released
    /\ daemon' = "up" /\ agent' = None
    /\ UNCHANGED <<task, lineage, campaign, escalated, health, spent, released, req, step,
                   cur, src, faults, hit>>
----------------------------------------------------------------------------
(* Reconciliation and detection.                                           *)

Idle == daemon = "up" /\ step = "idle"

\* A running task has a health row under the experiment that has its id.
RegisterRunning(r) ==
    /\ Idle /\ Running(r)
    /\ exp[Owner(r)] \in {"accepted", "ended"} /\ row[Owner(r)] = "none"
    /\ row' = [row EXCEPT ![Owner(r)] = "healthy"]
    /\ UNCHANGED <<task, lineage, campaign, escalated, fails, advice, agents, req,
                   place, faults, hit>>

\* A pattern whose action is kill asks for it without a diagnosis, once for
\* the incident of the run.
PolicyAsksKill(r) ==
    /\ Idle /\ Running(r) /\ r \in Patterned /\ req[r]["policy"] = "none"
    /\ SetRequest(r, "policy", "requested")
    /\ UNCHANGED <<task, lineage, campaign, escalated, health, agents, place, faults, hit>>

Confirmable(r) == {o \in Origins : req[r][o] = "sent"}

\* The first dispatched request of a task that has ended is confirmed; one
\* that was confirmed before stays the first.
ConfirmKill(r) ==
    /\ Idle /\ Terminal(r)
    /\ \/ Confirmable(r) # {} /\ \A o \in Origins : req[r][o] # "confirmed"
       \/ r \in Managed /\ (exp[r] = "accepted" \/ row[r] # "none")
    /\ req' = CASE \E o \in Origins : req[r][o] = "confirmed" -> req
                [] req[r]["health"] = "sent" -> [req EXCEPT ![r]["health"] = "confirmed"]
                [] req[r]["policy"] = "sent" -> [req EXCEPT ![r]["policy"] = "confirmed"]
                [] OTHER -> req
    /\ IF r \in Managed THEN GoTo("confirmed", r, None) ELSE GoIdle
    /\ UNCHANGED <<task, lineage, campaign, escalated, health, agents, daemon, faults, hit>>

\* Mutant: the health row goes with the projection of the end.
ProjectTerminal_Mutation ==
    /\ step = "confirmed"
    /\ exp' = [exp EXCEPT ![cur] = "ended"]
    /\ row' = [row EXCEPT ![cur] = "none"]
    /\ fails' = [fails EXCEPT ![cur] = 0] /\ advice' = [advice EXCEPT ![cur] = "none"]
    /\ Proceed("projected")
    /\ UNCHANGED <<task, parent, campaign, escalated, agents, req, daemon, faults, hit>>

ProjectTerminal ==
    /\ step = "confirmed"
    /\ exp' = [exp EXCEPT ![cur] = "ended"]
    /\ Proceed("projected")
    /\ UNCHANGED <<task, parent, campaign, escalated, health, agents, req, daemon,
                   faults, hit>>

\* Mutant: the follow-up does not look for a successor.
Completes_Mutation(e) ==
    /\ task[e] = "killed" /\ row[e] = "action_pending" /\ advice[e] \in Kills
    /\ LatestIn(e, {"confirmed", "moot"})

\* A kill of the diagnosis is completed: the task was killed, the row still
\* waits for it and the latest request under the id is confirmed.
Completes(e) ==
    /\ task[e] = "killed" /\ row[e] = "action_pending" /\ advice[e] \in Kills
    /\ LatestIn(e, {"confirmed", "moot"})
    /\ Successors(e) = {}

MayResume(e) == advice[e] = "kill_and_resume" /\ Cardinality(Repairs) < MaxRepairs

ResumeRun ==
    /\ step = "projected" /\ Completes(cur) /\ MayResume(cur) /\ campaign = "active"
    /\ \E s \in Managed : exp[s] = "none"
    /\ LET s == CHOOSE s \in Managed : exp[s] = "none"
       IN  /\ exp' = [exp EXCEPT ![s] = "reserved"]
           /\ parent' = [parent EXCEPT ![s] = cur]
    /\ Proceed("followed")
    /\ UNCHANGED <<task, campaign, escalated, health, agents, req, daemon, faults, hit>>

\* Also when the budget does not admit the successor.  A campaign that is not
\* active is left alone.
Escalate ==
    /\ step = "projected" /\ Completes(cur)
    /\ IF campaign = "active"
       THEN campaign' = "degraded" /\ escalated' = escalated \cup {cur}
       ELSE UNCHANGED <<campaign, escalated>>
    /\ Proceed("followed")
    /\ UNCHANGED <<task, lineage, health, agents, req, daemon, faults, hit>>

NothingToComplete ==
    /\ step = "projected" /\ ~Completes(cur)
    /\ Proceed("followed")
    /\ UNCHANGED <<task, db, daemon, faults, hit>>

\* Mutant: the row is set back and keeps its advice.
DeleteRow_Mutation ==
    /\ step = "followed"
    /\ row' = [row EXCEPT ![cur] = "none"]
    /\ fails' = [fails EXCEPT ![cur] = 0]
    /\ GoIdle
    /\ UNCHANGED <<task, lineage, campaign, escalated, advice, agents, req, daemon,
                   faults, hit>>

DeleteRow ==
    /\ step = "followed"
    /\ row' = [row EXCEPT ![cur] = "none"]
    /\ fails' = [fails EXCEPT ![cur] = 0]
    /\ advice' = [advice EXCEPT ![cur] = "none"]
    /\ GoIdle
    /\ UNCHANGED <<task, lineage, campaign, escalated, agents, req, daemon, faults, hit>>
----------------------------------------------------------------------------
(* The health observer and the execution of stored advice.                 *)

\* The signals of a pass are stale, or repeat a class of the pass before.
Observe(e) ==
    /\ Idle /\ row[e] = "healthy" /\ campaign # "paused"
    /\ \E r \in ListedAs(e) : Running(r)
    /\ row' = [row EXCEPT ![e] = "suspicious"]
    /\ UNCHANGED <<task, lineage, campaign, escalated, fails, advice, agents, req,
                   place, faults, hit>>

ContinueRun(e) ==
    /\ Idle /\ row[e] = "action_pending" /\ campaign # "paused"
    /\ advice[e] = "continue"
    /\ row' = [row EXCEPT ![e] = "healthy"]
    /\ UNCHANGED <<task, lineage, campaign, escalated, fails, advice, agents, req,
                   place, faults, hit>>

\* The task is found by its id, in whatever state it is.
DiagnosisAsksKill(e) ==
    /\ Idle /\ row[e] = "action_pending" /\ campaign # "paused"
    /\ advice[e] \in Kills /\ RequestsOf(e) = {}
    /\ \E r \in ListedAs(e) :
          SetRequest(r, "health", IF Running(r) THEN "requested" ELSE "misfiled")
    /\ UNCHANGED <<task, lineage, campaign, escalated, health, agents, place, faults, hit>>
----------------------------------------------------------------------------
(* Diagnosis.                                                              *)

\* Mutant: every run of the experiment counts, whether it is live or has ended.
RequeueInterrupted_Mutation(e) ==
    /\ Idle /\ row[e] = "diagnosing" /\ spent[e] = {}
    /\ row' = [row EXCEPT ![e] = "suspicious"]
    /\ UNCHANGED <<task, lineage, campaign, escalated, fails, advice, agents, req,
                   place, faults, hit>>

\* A row whose agent is gone is suspicious again.
RequeueInterrupted(e) ==
    /\ Idle /\ row[e] = "diagnosing" /\ agent # e
    /\ row' = [row EXCEPT ![e] = "suspicious"]
    /\ UNCHANGED <<task, lineage, campaign, escalated, fails, advice, agents, req,
                   place, faults, hit>>

\* Every attempt has an event of its own, named by the failures so far; the
\* project has one agent at a time.
ClaimDiagnosis(e) ==
    /\ Idle /\ row[e] = "suspicious" /\ campaign # "paused" /\ agent = None
    /\ fails[e] < MaxDiagnoses /\ fails[e] \notin spent[e]
    /\ row' = [row EXCEPT ![e] = "diagnosing"]
    /\ spent' = [spent EXCEPT ![e] = @ \cup {fails[e]}]
    /\ GoTo("launching", e, None)
    /\ UNCHANGED <<task, lineage, campaign, escalated, fails, advice, agent,
                   released, req, daemon, faults, hit>>

LaunchDiagnosis ==
    /\ step = "launching"
    /\ agent' = cur /\ GoIdle
    /\ UNCHANGED <<task, lineage, campaign, escalated, health, spent, released, req,
                   daemon, faults, hit>>

\* The row is set back and the event released, in whatever state it is.
ReleaseLaunch ==
    /\ step = "launching" /\ Fault("launch_failed")
    /\ row' = [row EXCEPT ![cur] = "suspicious"]
    /\ spent' = [spent EXCEPT ![cur] = @ \ {fails[cur]}]
    /\ GoIdle
    /\ UNCHANGED <<task, lineage, campaign, escalated, fails, advice, req, daemon, hit>>

\* Mutant: every event of the experiment is released.
LaunchFails_Mutation ==
    /\ step = "launching" /\ Fault("launch_failed")
    /\ row' = [row EXCEPT ![cur] = "suspicious"]
    /\ spent' = [spent EXCEPT ![cur] = {}]
    /\ GoIdle
    /\ UNCHANGED <<task, lineage, campaign, escalated, fails, advice, agent, released,
                   req, daemon, hit>>

\* No run was bound yet, or the bound one was finalized at once: then the
\* attempt is made again, even if its agent may have executed and the finalizer
\* had given the event up for that.
LaunchFails == ReleaseLaunch /\ UNCHANGED <<agent, released>>

\* The bound run could not be finalized and stays active.  Its event is
\* released under it, and from then on no finalizer accepts the pair.
LaunchLeavesRun ==
    /\ ReleaseLaunch
    /\ agent' = cur /\ released' = TRUE

\* The cleanup that the failed launch left, if it left one, fails in a round,
\* and the daemon ends.
CleanupFails ==
    /\ Idle /\ released
    /\ daemon' = "down"
    /\ UNCHANGED <<task, lineage, campaign, escalated, health, agents, req, step, cur,
                   src, faults, hit>>

\* The agent ended with an advice or without one; the outcome is stored in the
\* row first, whatever state that is in, and its state follows.
StoreDiagnosis(e) ==
    /\ Idle /\ agent = e /\ ~released /\ row[e] # "none"
    /\ \/ \E a \in Kills \cup {"continue"} :
             /\ advice' = [advice EXCEPT ![e] = a]
             /\ fails' = [fails EXCEPT ![e] = 0]
       \/ /\ advice' = [advice EXCEPT ![e] = "none"]
          /\ fails' = [fails EXCEPT ![e] = @ + 1]
    /\ GoTo("stored", e, None)
    /\ UNCHANGED <<task, lineage, campaign, escalated, row, agents, req, daemon,
                   faults, hit>>

FinishDiagnosis ==
    /\ step = "stored"
    /\ row' = [row EXCEPT ![cur] = IF advice[cur] = "none" THEN "suspicious"
                                   ELSE "action_pending"]
    /\ agent' = None /\ GoIdle
    /\ UNCHANGED <<task, lineage, campaign, escalated, fails, advice, spent,
                   released, req, daemon, faults, hit>>

\* The task ended while its agent was at work: there is no row to store the
\* outcome in, the round fails and the daemon ends.
DiagnosisWithoutRow(e) ==
    /\ Idle /\ agent = e /\ ~released /\ row[e] = "none"
    /\ daemon' = "down"
    /\ UNCHANGED <<task, lineage, campaign, escalated, health, agents, req, step, cur,
                   src, faults, hit>>
----------------------------------------------------------------------------
(* Termination.                                                            *)

\* Mutant: the id alone is compared.
Signed_Mutation(r, o) ==
    req[r][o] # "misfiled" /\ \E q \in Runs : SameId(q, r) /\ Running(q)

\* Pueue lists a running task with the signature that the request has: the id
\* and the group of the task, its command, its times and its state.
Signed(r, o) == req[r][o] # "misfiled" /\ Running(r)

\* The task is no longer the running one that the request names.
NotRunning(r, o) ==
    /\ Idle /\ req[r][o] \in {"requested", "misfiled"} /\ ~Signed(r, o)
    /\ SetRequest(r, o, "moot")
    /\ UNCHANGED <<task, lineage, campaign, escalated, health, agents, place, faults, hit>>

\* Mutant: only a new request is claimed.
ClaimKill_Mutation(r, o) ==
    /\ Idle /\ req[r][o] = "requested" /\ Signed(r, o)
    /\ SetRequest(r, o, "dispatching")
    /\ GoTo("killing", r, o)
    /\ UNCHANGED <<task, lineage, campaign, escalated, health, agents, daemon, faults, hit>>

\* A dispatch that was interrupted is claimed again when its lease is over.
ClaimKill(r, o) ==
    /\ Idle /\ req[r][o] \in {"requested", "dispatching"} /\ Signed(r, o)
    /\ SetRequest(r, o, "dispatching")
    /\ GoTo("killing", r, o)
    /\ UNCHANGED <<task, lineage, campaign, escalated, health, agents, daemon, faults, hit>>

\* The kill goes to a task id.  It may reach the task and yet time out.
Kill ==
    /\ step = "killing"
    /\ \E r \in ListedAs(Owner(cur)) :
          /\ Running(r)
          /\ task' = [task EXCEPT ![r] = "signalled"]
          /\ hit' = hit \cup {r}
    /\ Proceed("kill_sent") \/ Proceed("kill_failed")
    /\ UNCHANGED <<db, daemon, faults>>

KillFails ==
    /\ step = "killing" /\ Proceed("kill_failed")
    /\ UNCHANGED <<task, db, daemon, faults, hit>>

MarkKill ==
    /\ step \in {"kill_sent", "kill_failed"}
    /\ SetRequest(cur, src, IF step = "kill_sent" THEN "sent" ELSE "failed")
    /\ GoIdle
    /\ UNCHANGED <<task, lineage, campaign, escalated, health, agents, daemon, faults, hit>>

\* The grace for the confirmation is over.
KillTimesOut(r, o) ==
    /\ Idle /\ req[r][o] = "sent"
    /\ SetRequest(r, o, "timed_out")
    /\ UNCHANGED <<task, lineage, campaign, escalated, health, agents, place, faults, hit>>
----------------------------------------------------------------------------
Environment ==
    \/ \E r \in Runs : TaskEnds(r) \/ UserKills(r) \/ UserPauses(r) \/ UserResumes(r)
                     \/ UserCleans(r)
    \/ \E f \in Foreign : IdIsReused(f)
    \/ PauseCampaign \/ ResumeCampaign \/ Crash

\* What the daemon does of its own in a round.
Round ==
    \/ \E r \in Runs : RegisterRunning(r) \/ ConfirmKill(r)
    \/ ProjectTerminal \/ ResumeRun \/ Escalate \/ NothingToComplete \/ DeleteRow
    \/ \E e \in Managed :
          \/ ContinueRun(e) \/ DiagnosisAsksKill(e)
          \/ RequeueInterrupted(e) \/ ClaimDiagnosis(e)
          \/ StoreDiagnosis(e) \/ DiagnosisWithoutRow(e)
    \/ LaunchDiagnosis \/ LaunchFails \/ LaunchLeavesRun \/ FinishDiagnosis
    \/ \E r \in Runs, o \in Origins : NotRunning(r, o) \/ ClaimKill(r, o) \/ KillTimesOut(r, o)
    \/ Kill \/ KillFails \/ MarkKill

\* What the logs of the tasks make it do.
Detection ==
    \/ \E e \in Managed : Observe(e)
    \/ \E r \in Runs : PolicyAsksKill(r)

Next == Environment \/ Restart \/ Round \/ Detection \/ CleanupFails

Spec == Init /\ [][Next]_vars

\* The daemon is restarted when recovery accepts what it finds, it goes round,
\* and a diagnosis agent has a time limit.  Nothing is assumed of Pueue, its
\* users, the logs and the operator, nor that a failed launch leaves a cleanup.
Fairness == WF_vars(Restart) /\ WF_vars(Round)

FairSpec == Spec /\ Fairness
----------------------------------------------------------------------------
(***************************************************************************)
(* Safety.                                                                 *)
(***************************************************************************)

\* The state that belongs to each place of a handler.
PlaceInv ==
    /\ step = "idle" <=> cur = None
    /\ daemon = "down" => step = "idle"
    /\ step \in {"killing", "kill_sent", "kill_failed"} <=> src # None
    /\ src # None => cur \in Runs /\ req[cur][src] = "dispatching"
    /\ "id_reused" \notin faults =>
          /\ step = "killing" => \A r \in ListedAs(Owner(cur)) : r = cur
          /\ step = "kill_sent" => cur \in hit
    /\ step \notin {"idle", "killing", "kill_sent", "kill_failed"} => cur \in Managed
    /\ step = "launching" =>
          agent = None /\ row[cur] = "diagnosing" /\ fails[cur] < MaxDiagnoses
    /\ step = "stored" => agent = cur /\ ~released /\ row[cur] \notin {"none", "action_pending"}
    /\ step \in {"projected", "followed"} => exp[cur] = "ended"

\* A health row and what its diagnosis_json may hold.
RowInv ==
    \A e \in Managed :
        /\ row[e] = "none" => advice[e] = "none" /\ fails[e] = 0
        /\ row[e] # "none" => exp[e] \in {"accepted", "ended"}
        /\ advice[e] # "none" => fails[e] = 0
        /\ row[e] = "action_pending" => advice[e] # "none" /\ agent # e
        /\ (agent = e /\ step # "stored" /\ daemon = "up") => fails[e] < MaxDiagnoses

\* A lineage of experiments, and the ids of tasks.
LineageInv ==
    /\ \A e \in Managed :
          /\ exp[e] = "none" => parent[e] = None /\ Successors(e) = {}
          /\ exp[e] \notin {"accepted", "ended"} => task[e] = "none"
    /\ \A f \in Foreign : task[f] # "none" => task[Reuses[f]] = "gone"
    /\ \A r \in Runs, o \in Origins : req[r][o] # "none" => task[r] # "none"

\* A kill of the daemon reaches only a run that a request names, though the
\* kill goes to an id and Pueue gives ids away again; and a request is sent or
\* confirmed without an error only when its kill has reached the run it names.
\* The comparison of signatures before the kill (execute of termination.rs)
\* leaves one way out: the id is given away between the two.
KillsAreOwned ==
    "id_reused" \notin faults =>
        /\ \A r \in hit : \E o \in Origins :
              req[r][o] \in {"dispatching", "sent", "confirmed", "failed", "timed_out"}
        /\ \A r \in Runs, o \in Origins : req[r][o] \in {"sent", "confirmed"} => r \in hit

\* Whatever the order of the daemon's passes, its crashes, and what Pueue and
\* its users do to tasks: an action that waits has an advice behind it and its
\* agent is not at work any more; a new row starts without the advice and the
\* failures of an earlier one; an agent at work has an attempt left; a request
\* names a run that has a task; the kill that is under way is a dispatched one,
\* of the only task with its id as long as Pueue does not give that id away
\* under it, so that kills are owned.  (The health rows of
\* db/running_health.rs, the requests of termination.rs.)
HealthInv == TypeOK /\ PlaceInv /\ RowInv /\ LineageInv /\ KillsAreOwned

\* The events of the attempts: those that can no longer be claimed are the first
\* ones, and they take in every counted failure and the attempt of an agent at
\* work.  Whatever gives an event back -- a lapsed claim, recovery, a launch that
\* failed -- gives back the last one only, and never that of an agent at work or
\* of a failure that was counted, so that two agents never have one attempt.
\* The one exception is the run that a failed launch left active: its event is
\* released under it (release_claimed_event of health_diagnosis.rs, the event
\* ids made of the experiment and the failures so far).
AttemptsAreHeld ==
    /\ \A e \in Managed : \E n \in 0..MaxDiagnoses :
          spent[e] = 0..(n - 1) /\ fails[e] <= n
    /\ step = "launching" => spent[cur] = 0..fails[cur]
    /\ (agent # None /\ ~released /\ step # "stored" /\ daemon = "up") =>
          fails[agent] \in spent[agent]
    /\ released => agent # None /\ "launch_failed" \in faults

\* An experiment has one successor at most, and has ended before it has one; a
\* lineage has no more repairs than the campaign allows.
RepairsFit ==
    /\ \A e \in Managed : Cardinality(Successors(e)) <= 1
    /\ Cardinality(Repairs) <= MaxRepairs
    /\ \A s \in Repairs : exp[parent[s]] = "ended"

\* What was resumed is neither resumed again nor escalated by this step.
StaysResumed ==
    \A e \in Managed : Successors(e) # {} =>
        /\ Successors(e)' = Successors(e)
        /\ e \in escalated' => e \in escalated

\* Both, though the daemon may stop before the health row is deleted and follow
\* the end up once more (handle_terminal_projection of health.rs).
ResumesFit == []RepairsFit /\ [][StaysResumed]_vars
----------------------------------------------------------------------------
(* Refinement of KillDelivery.                                             *)

LifeOf(r) ==
    CASE task[r] \in {"running", "signalled", "paused"} -> "live"
      [] OTHER                                          -> task[r]

RequestOf(status) ==
    CASE status \in {"requested", "misfiled"} -> "asked"
      [] status = "dispatching"               -> "begun"
      [] status = "confirmed"                 -> "done"
      [] status = "moot"                      -> "void"
      [] status = "timed_out"                 -> "expired"
      [] OTHER                                -> status

Resumed == {e \in Managed : Successors(e) # {}}

Delivery == INSTANCE KillDelivery
    WITH life <- [r \in Runs |-> LifeOf(r)],
         request <- [r \in Runs |-> [o \in Origins |-> RequestOf(req[r][o])]],
         struck <- hit, stray <- "id_reused" \in faults, resumed <- Resumed

\* Passes over lists that are out of date, kills by id, lost answers and
\* crashes (termination.rs, health.rs, the terminal block of reconcile.rs) keep
\* the promise of KillDelivery: from the request to the successor everything
\* concerns one run, whoever has its id before or after.
KillsDeliver == Delivery!KillSpec
----------------------------------------------------------------------------
(***************************************************************************)
(* Liveness.                                                               *)
(***************************************************************************)

\* The end of a task that a confirmed kill of the diagnosis brought about is
\* followed up, by a successor or an escalation, whatever crashes come between
\* the confirmation, the projection, the follow-up and the deletion of the row
\* -- unless the campaign is not active then, or the task is cleaned first
\* (the terminal block of reconcile.rs).
FollowedUp ==
    \A e \in Managed :
        (Completes(e) /\ step # "followed") ~>
            \/ Successors(e) # {} \/ e \in escalated
            \/ campaign # "active" \/ task[e] = "gone"

\* The daemon died while it dispatched the kill, and the task ended then: no
\* pass of termination touches the request again.
Orphaned(r, o) == req[r][o] = "dispatching" /\ ~Running(r)

\* The daemon is down after a launch left a run whose event is released: no
\* later daemon comes past startup recovery.
Refused == released /\ daemon = "down"

\* A request for a kill comes to a result, through crashes, failed kills, tasks
\* that end by themselves and ids that are used again: only a dispatch that the
\* crash orphaned stays as it is, and what a daemon that cannot start any more
\* has left (execute and finish_sent_request of termination.rs).
KillRequestsSettle ==
    <>[](Refused \/ \A r \in Runs, o \in Origins :
            \/ req[r][o] \in {"none", "confirmed", "moot", "failed", "timed_out"}
            \/ Orphaned(r, o))

\* The event of the attempt is spent, yet the attempt is not among the counted
\* failures: after a crash, after an advice to continue, which sets the count
\* back to the number of an earlier event, or when a run that has the id of an
\* ended experiment gets a second row.
LostAttempt(e) ==
    /\ fails[e] \in spent[e]
    /\ "crash" \in faults \/ advice[e] = "continue" \/ exp[e] = "ended"

Judged(e) ==
    \/ row[e] \in {"none", "healthy", "action_pending"}
    \/ fails[e] = MaxDiagnoses
    \/ row[e] = "suspicious" /\ LostAttempt(e)
    \/ campaign = "paused"

\* A suspicious run is judged in the end, or its attempts are used up, or its
\* task ends; no row stays with a diagnosis that nobody works at, and none is
\* suspicious for ever while it has an attempt left that can be claimed -- but
\* for a project whose failed launch left its run: that run is never ended, and
\* no other diagnosis starts beside it
\* (run_due_diagnoses of health_diagnosis.rs, requeue_interrupted_diagnoses).
SuspicionsAreJudged == <>[](released \/ \A e \in Managed : Judged(e))
============================================================================
