------------------------ MODULE CodeChangePromotion ------------------------
(***************************************************************************)
(* One code-change run from its worktree to its cleanup: rounds of checks, *)
(* the commit of the checked worktree, the experiment on the candidate,    *)
(* the promotion of the campaign's best branch, the removal of the         *)
(* worktree.  Rows, git and Pueue are changed one at a time, each while    *)
(* the user, the experiment or a check may write the worktree, the user    *)
(* may move the branch, and the daemon may crash.                          *)
(*                                                                         *)
(* A version stands for the contents of the worktree; every write gives a  *)
(* version that was not there before.  The editor's stage is one action    *)
(* here: CodeChangeEditing is its model.                                   *)
(***************************************************************************)
EXTENDS Naturals, FiniteSets

CONSTANTS
    MaxChecks,     \* limits.max_code_change_checks: project checks of a round
    MaxWrites,     \* bound: writes to the worktree nobody asked for
    MaxMoves,      \* bound: moves of the best branch by others
    MaxCrashes     \* bound: crashes of the daemon

ASSUME ChecksAssumption == MaxChecks \in Nat \ {0}
ASSUME BoundsAssumption == MaxWrites \in Nat /\ MaxMoves \in Nat /\ MaxCrashes \in Nat

VARIABLES
    \* SQLite, code_change_runs: state, editor attempts begun, whether the last
    \* one is ready for a round, diff_digest, candidate_sha, promotion intent
    state, attempt, ready, digest, sha, intent,
    \* SQLite, code_change_checks of the attempt: the supervisor's is number 0
    rows,
    \* SQLite: the campaign, whether it has an objective, its best experiment;
    \* the candidate's experiment and its metrics
    campaign, objective, winner, exp, metrics,
    \* git: the worktree (0: absent), its HEAD on the candidate, the candidate
    \* branch (0: absent), the best branch, the user's refs as they were
    tree, onCandidate, ref, best, intact,
    \* Pueue: the experiment's task
    task,
    \* the daemon, the coordinator's place in a handler, the diff facts and the
    \* value of the best branch it holds in memory
    daemon, pc, expected, seen,
    \* bounds: versions made, writes, moves, crashes
    made, writes, moves, crashes,
    \* history: the version each check passed on, the one the experiment ended
    \* on, and whether the coordinator moved the best branch
    passedOn, ranOn, moved

run      == <<state, attempt, ready, digest, sha, intent, rows>>
campaigns == <<campaign, objective, winner, exp, metrics>>
git      == <<tree, onCandidate, ref, best, intact>>
memory   == <<expected, seen>>
bounds   == <<made, writes, moves, crashes>>
history  == <<passedOn, ranOn, moved>>

vars == <<run, campaigns, git, task, daemon, pc, memory, bounds, history>>

Checks    == 0..MaxChecks
Ends      == {"succeeded", "failed", "cancelled"}
\* The candidate's metric against the best experiments it may meet.
Values    == {"none", "worse", "better", "best"}
Outcomes  == {"improved", "not_improved", "no_metric", "no_objective"}
NoIntent  == [outcome |-> "none", old |-> "none", winner |-> "none"]

TypeOK ==
    /\ state \in {"reserved", "preparing_worktree", "editing", "checking", "committing",
                  "candidate_ready", "experiment_submitted", "evaluated",
                  "cleanup_pending", "completed", "rejected", "recovery_required"}
    /\ attempt \in 0..2 /\ ready \in BOOLEAN
    /\ digest \in 0..made /\ sha \in 0..made
    /\ intent \in {NoIntent} \cup [outcome : Outcomes, old : {"base", "other", "candidate"},
                                   winner : {"first", "other", "candidate"}]
    /\ rows \in [Checks -> {"none", "reserved", "passed", "failed"}]
    /\ campaign \in {"active", "stopped"} /\ objective \in BOOLEAN
    /\ winner \in {"first", "other", "candidate"}
    /\ exp \in {"none", "open"} \cup Ends
    /\ metrics \in {"missing"} \cup Values
    /\ tree \in 0..made /\ onCandidate \in BOOLEAN /\ ref \in 0..made
    /\ best \in {"base", "other", "candidate"} /\ intact \in BOOLEAN
    /\ task \in {"none", "live"} \cup Ends
    /\ daemon \in {"up", "down"}
    /\ pc \in {"idle", "prepare", "own", "round", "record", "plan", "check", "failed",
               "passed", "commit", "reset", "store", "publish", "read", "prepared",
               "cas", "moved", "confirm", "verify", "finalize", "remove", "removed", "error"}
    /\ expected \in 0..made /\ seen \in {"base", "other", "candidate"}
    /\ made \in Nat /\ writes \in 0..MaxWrites /\ moves \in 0..MaxMoves
    /\ crashes \in 0..MaxCrashes
    /\ passedOn \in [Checks -> 0..made] /\ ranOn \in 0..made /\ moved \in BOOLEAN

\* The run was reserved with its proposal; nothing else exists yet.
Init ==
    /\ state = "reserved" /\ attempt = 0 /\ ready = FALSE
    /\ digest = 0 /\ sha = 0 /\ intent = NoIntent
    /\ rows = [c \in Checks |-> "none"]
    /\ campaign = "active" /\ objective \in BOOLEAN /\ winner = "first"
    /\ exp = "none" /\ metrics = "missing"
    /\ tree = 0 /\ onCandidate = FALSE /\ ref = 0 /\ best = "base" /\ intact = TRUE
    /\ task = "none"
    /\ daemon = "up" /\ pc = "idle" /\ expected = 0 /\ seen = "base"
    /\ made = 0 /\ writes = 0 /\ moves = 0 /\ crashes = 0
    /\ passedOn = [c \in Checks |-> 0] /\ ranOn = 0 /\ moved = FALSE
----------------------------------------------------------------------------
(* What others do.                                                         *)

StopOrResume ==
    /\ campaign' = IF campaign = "active" THEN "stopped" ELSE "active"
    /\ UNCHANGED <<run, objective, winner, exp, metrics, git, task, daemon, pc, memory,
                   bounds, history>>

\* The user, a check, an editor left over or the experiment writes a file.
WriteTree ==
    /\ tree # 0 /\ writes < MaxWrites
    /\ writes' = writes + 1
    /\ made' = made + 1 /\ tree' = made'
    /\ UNCHANGED <<run, campaigns, onCandidate, ref, best, intact, task, daemon, pc,
                   memory, moves, crashes, history>>

\* The user moves the best branch, ...
MoveBest ==
    /\ moves < MaxMoves
    /\ moves' = moves + 1
    /\ best' \in {"base", "other"} \ {best}
    /\ UNCHANGED <<run, campaigns, tree, onCandidate, ref, intact, task, daemon, pc,
                   memory, made, writes, crashes, history>>

\* ... or another branch, a tag or a remote of the repository.
MoveOther ==
    /\ intact /\ moves < MaxMoves
    /\ moves' = moves + 1
    /\ intact' = FALSE
    /\ UNCHANGED <<run, campaigns, tree, onCandidate, ref, best, task, daemon, pc,
                   memory, made, writes, crashes, history>>

TaskEnds ==
    /\ task = "live"
    /\ task' \in Ends
    /\ ranOn' = tree
    /\ UNCHANGED <<run, campaigns, git, daemon, pc, memory, bounds, passedOn, moved>>

\* A crash, or a database error: the coordinator's memory is gone.
Crash ==
    /\ daemon = "up" /\ crashes < MaxCrashes
    /\ crashes' = crashes + 1
    /\ daemon' = "down" /\ pc' = "idle"
    /\ UNCHANGED <<run, campaigns, git, task, memory, made, writes, moves, history>>

Restart ==
    /\ daemon = "down"
    /\ daemon' = "up"
    /\ UNCHANGED <<run, campaigns, git, task, pc, memory, bounds, history>>
----------------------------------------------------------------------------
Idle      == daemon = "up" /\ pc = "idle"
At(where) == daemon = "up" /\ pc = where

\* A handler's error; the caller then asks for recovery.
Fail == pc' = "error"

RequireRecovery ==
    /\ At("error")
    /\ state' = "recovery_required" /\ pc' = "idle"
    /\ UNCHANGED <<attempt, ready, digest, sha, intent, rows, campaigns, git, task, daemon,
                   memory, bounds, history>>

\* Mutant: a candidate is recognised by its HEAD, whatever its files are.
Committed_HeadOnly == ref # 0 /\ onCandidate

\* The worktree is the committed candidate: its branch, HEAD and every file.
Committed == ref # 0 /\ onCandidate /\ tree = ref

\* The candidate can be used again: it and the user's refs are as they were.
Clean == intact /\ Committed

\* The worktree of a run that has no commit yet can be.
Retained == intact /\ tree # 0
----------------------------------------------------------------------------
(* The worktree and the editor.                                            *)

MayAdvance == Idle /\ campaign = "active"

Prepare ==
    /\ MayAdvance /\ state \in {"reserved", "preparing_worktree"}
    /\ state' = "preparing_worktree" /\ pc' = "prepare"
    /\ UNCHANGED <<attempt, ready, digest, sha, intent, rows, campaigns, git, task, daemon,
                   memory, bounds, history>>

\* `git worktree add`, unless the path is taken.
CreateWorktree ==
    /\ At("prepare")
    /\ \/ /\ tree = 0 /\ intact
          /\ made' = made + 1 /\ tree' = made' /\ pc' = "own"
       \/ /\ tree # 0 \/ ~intact
          /\ Fail /\ UNCHANGED <<made, tree>>
    /\ UNCHANGED <<run, campaigns, onCandidate, ref, best, intact, task, daemon, memory,
                   writes, moves, crashes, history>>

\* The ownership of the worktree is recorded and the run handed to editors.
EnterEditing ==
    /\ At("own")
    /\ state' = "editing" /\ pc' = "idle"
    /\ UNCHANGED <<attempt, ready, digest, sha, intent, rows, campaigns, git, task, daemon,
                   memory, bounds, history>>

\* An editor, or the second after a failed one, reports that it is ready.
EditorReports ==
    /\ Idle /\ state = "editing" /\ ~ready
    /\ \E n \in {1, 2} : attempt < n /\ attempt' = n
    /\ ready' = TRUE
    /\ made' = made + 1 /\ tree' = made'
    /\ UNCHANGED <<state, digest, sha, intent, rows, campaigns, onCandidate, ref, best,
                   intact, task, daemon, pc, memory, writes, moves, crashes, history>>

\* The editors give up, or it is not known what became of one.
EditorFails ==
    /\ Idle /\ state = "editing" /\ ~ready
    /\ state' \in {"rejected", "recovery_required"}
    /\ UNCHANGED <<attempt, ready, digest, sha, intent, rows, campaigns, git, task, daemon,
                   pc, memory, bounds, history>>
----------------------------------------------------------------------------
(* advance_check_round: verify, record, plan, check, verify again.         *)

BeginRound ==
    /\ MayAdvance
    /\ state = "checking" \/ (state = "editing" /\ ready)
    /\ \/ Retained /\ state' = "checking" /\ pc' = "round"
       \/ ~Retained /\ Fail /\ UNCHANGED state
    /\ UNCHANGED <<attempt, ready, digest, sha, intent, rows, campaigns, git, task, daemon,
                   memory, bounds, history>>

\* The diff is within its limits, or the round ends in an error.
VerifyTree ==
    /\ At("round")
    /\ \/ intact /\ expected' = tree /\ pc' = "record"
       \/ Fail /\ UNCHANGED expected
    /\ UNCHANGED <<run, campaigns, git, task, daemon, seen, bounds, history>>

Retry ==
    /\ state' = "editing" /\ ready' = FALSE /\ digest' = 0
    /\ rows' = [c \in Checks |-> "none"]

Correctable ==
    /\ attempt = 1
    /\ rows[0] # "none"
    /\ \A c \in Checks : rows[c] # "reserved"

\* Mutant: a changed diff replaces the recorded one, passed checks stay.
RecordDiff_Replaced ==
    /\ At("record")
    /\ digest' = expected /\ pc' = "plan"
    /\ UNCHANGED <<state, attempt, ready, sha, intent, rows, campaigns, git, task, daemon,
                   memory, bounds, history>>

\* The first round of an attempt records its diff; a later one has to find
\* the same, or the attempt is corrected if none of its checks is open.
RecordDiff ==
    /\ At("record")
    /\ \/ /\ digest \in {0, expected}
          /\ digest' = expected /\ pc' = "plan"
          /\ UNCHANGED <<state, ready, rows>>
       \/ /\ digest \notin {0, expected} /\ Correctable
          /\ Retry /\ pc' = "idle"
       \/ /\ digest \notin {0, expected} /\ ~Correctable
          /\ Fail /\ UNCHANGED <<state, ready, digest, rows>>
    /\ UNCHANGED <<attempt, sha, intent, campaigns, git, task, daemon, memory, bounds, history>>

\* The supervisor's check and any number of project checks are reserved, once
\* for an attempt; the worktree has to be as it was verified.
PlanChecks ==
    /\ At("plan")
    /\ \/ /\ tree = expected /\ intact
          /\ pc' = "check"
          /\ IF rows[0] # "none" THEN UNCHANGED rows
             ELSE \E n \in Checks :
                    rows' = [c \in Checks |-> IF c <= n THEN "reserved" ELSE "none"]
       \/ /\ tree # expected \/ ~intact
          /\ Fail /\ UNCHANGED rows
    /\ UNCHANGED <<state, attempt, ready, digest, sha, intent, campaigns, git, task, daemon,
                   memory, bounds, history>>

\* The checks run in order and the first that failed ends the round.
NextCheck(c) == rows[c] = "reserved" /\ \A d \in 0..(c - 1) : rows[d] = "passed"

RunCheck(c) ==
    /\ At("check") /\ NextCheck(c)
    /\ \/ /\ rows' = [rows EXCEPT ![c] = "passed"]
          /\ passedOn' = [passedOn EXCEPT ![c] = tree]
          /\ UNCHANGED pc
       \/ /\ rows' = [rows EXCEPT ![c] = "failed"]
          /\ pc' = "failed"
          /\ UNCHANGED passedOn
       \/ Fail /\ UNCHANGED <<rows, passedOn>>
    /\ UNCHANGED <<state, attempt, ready, digest, sha, intent, campaigns, git, task, daemon,
                   memory, bounds, ranOn, moved>>

\* A check that had failed before a restart fails the round again.
FailedBefore ==
    /\ At("check") /\ \E c \in Checks : rows[c] = "failed"
    /\ pc' = "failed"
    /\ UNCHANGED <<run, campaigns, git, task, daemon, memory, bounds, history>>

AllPassed == \A c \in Checks : rows[c] \in {"passed", "none"}
HasProjectCheck == rows[1] # "none"

VerifyAgain ==
    /\ At("check") /\ AllPassed
    /\ \/ intact /\ pc' = IF tree = expected /\ HasProjectCheck THEN "passed" ELSE "failed"
       \/ ~intact /\ Fail
    /\ UNCHANGED <<run, campaigns, git, task, daemon, memory, bounds, history>>

\* Mutant: the correction of a failed round leaves its attempt ready.
FinishFailedRound_StillReady ==
    /\ At("failed")
    /\ pc' = "idle"
    /\ IF HasProjectCheck /\ attempt = 1
       THEN /\ state' = "editing" /\ digest' = 0
            /\ rows' = [c \in Checks |-> "none"]
       ELSE state' = "rejected" /\ UNCHANGED <<digest, rows>>
    /\ UNCHANGED <<attempt, ready, sha, intent, campaigns, git, task, daemon, memory, bounds,
                   history>>

FinishFailedRound ==
    /\ At("failed")
    /\ pc' = "idle"
    /\ IF HasProjectCheck /\ attempt = 1 THEN Retry
       ELSE state' = "rejected" /\ UNCHANGED <<ready, digest, rows>>
    /\ UNCHANGED <<attempt, sha, intent, campaigns, git, task, daemon, memory, bounds, history>>
----------------------------------------------------------------------------
(* commit_checked_candidate and resume_committing_candidate.               *)

EnterCommitting ==
    /\ At("passed")
    /\ state' = "committing" /\ pc' = "commit"
    /\ UNCHANGED <<attempt, ready, digest, sha, intent, rows, campaigns, git, task, daemon,
                   memory, bounds, history>>

\* The candidate branch gets a commit of the tree that was verified.
CommitCandidate ==
    /\ At("commit")
    /\ \/ /\ tree = expected /\ intact
          /\ ref' = expected /\ pc' = "reset"
       \/ /\ tree # expected \/ ~intact
          /\ Fail /\ UNCHANGED ref
    /\ UNCHANGED <<run, campaigns, tree, onCandidate, best, intact, task, daemon, memory,
                   bounds, history>>

\* `git reset --hard` puts tracked files back, and finds an untracked one.
ResetWorktree ==
    /\ At("reset")
    /\ onCandidate' = TRUE
    /\ \/ intact /\ tree' = ref /\ pc' = "store"
       \/ /\ tree # ref \/ ~intact
          /\ Fail /\ UNCHANGED tree
    /\ UNCHANGED <<run, campaigns, ref, best, intact, task, daemon, memory, bounds, history>>

RecordCandidate ==
    /\ At("store")
    /\ sha' = ref /\ pc' = "publish"
    /\ UNCHANGED <<state, attempt, ready, digest, intent, rows, campaigns, git, task, daemon,
                   memory, bounds, history>>

PublishCandidate ==
    /\ At("publish")
    /\ state' = "candidate_ready" /\ pc' = "idle"
    /\ UNCHANGED <<attempt, ready, digest, sha, intent, rows, campaigns, git, task, daemon,
                   memory, bounds, history>>

Recorded    == Clean /\ digest = ref /\ sha \in {0, ref}
Uncommitted == intact /\ ref = 0 /\ sha = 0 /\ tree = digest

\* Mutant: a commit that was interrupted is made from what is there now.
ResumeCommitting_Unverified ==
    /\ MayAdvance /\ state = "committing"
    /\ \/ /\ Recorded
          /\ pc' = "store" /\ UNCHANGED expected
       \/ /\ ref = 0 /\ intact
          /\ pc' = "commit" /\ expected' = tree
       \/ /\ ~Recorded /\ ref # 0
          /\ Fail /\ UNCHANGED expected
    /\ UNCHANGED <<run, campaigns, git, task, daemon, seen, bounds, history>>

\* After a crash: a branch that is there and clean is recorded, none is made
\* from a worktree that still has the checked diff, anything else is an error.
ResumeCommitting ==
    /\ MayAdvance /\ state = "committing"
    /\ \/ /\ Recorded
          /\ pc' = "store" /\ UNCHANGED expected
       \/ /\ Uncommitted
          /\ pc' = "commit" /\ expected' = tree
       \/ /\ ~Recorded /\ ~Uncommitted
          /\ Fail /\ UNCHANGED expected
    /\ UNCHANGED <<run, campaigns, git, task, daemon, seen, bounds, history>>
----------------------------------------------------------------------------
(* The candidate's experiment.  What the daemon's round does here outside  *)
(* of the coordinator ends the daemon when it meets an error.              *)

DaemonFails == daemon' = "down"

\* submit_candidate_intent: verify, accept, add.
SubmitCandidate ==
    /\ Idle /\ state = "candidate_ready" /\ campaign = "active"
    /\ \/ /\ Clean
          /\ state' = "experiment_submitted" /\ exp' = "open" /\ task' = "live"
          /\ UNCHANGED daemon
       \/ /\ ~Clean
          /\ DaemonFails /\ UNCHANGED <<state, exp, task>>
    /\ UNCHANGED <<attempt, ready, digest, sha, intent, rows, campaign, objective, winner,
                   metrics, git, pc, memory, bounds, history>>

\* Reconciliation first takes in the result, if there is an objective, ...
IngestResult ==
    /\ Idle /\ task \in Ends /\ exp = "open" /\ objective /\ metrics = "missing"
    /\ \/ Clean /\ metrics' \in Values /\ UNCHANGED daemon
       \/ ~Clean /\ DaemonFails /\ UNCHANGED metrics
    /\ UNCHANGED <<run, campaign, objective, winner, exp, git, task, pc, memory, bounds,
                   history>>

\* ... then the end of the experiment.
ProjectEnd ==
    /\ Idle /\ task \in Ends /\ exp = "open" /\ (objective => metrics # "missing")
    /\ exp' = task
    /\ UNCHANGED <<run, campaign, objective, winner, metrics, git, task, daemon, pc, memory,
                   bounds, history>>

\* Another experiment of the campaign becomes its best.
OtherWins ==
    /\ Idle /\ winner = "first"
    /\ winner' = "other"
    /\ UNCHANGED <<run, campaign, objective, exp, metrics, git, task, daemon, pc, memory,
                   bounds, history>>
----------------------------------------------------------------------------
(* advance_submitted_code_change.                                          *)

ReopenResult ==
    /\ Idle /\ state = "experiment_submitted" /\ exp \in Ends
    /\ \/ Clean /\ pc' = "read"
       \/ ~Clean /\ Fail
    /\ UNCHANGED <<run, campaigns, git, task, daemon, memory, bounds, history>>

ReadBest ==
    /\ At("read")
    /\ \/ intact /\ seen' = best /\ pc' = "prepared"
       \/ ~intact /\ Fail /\ UNCHANGED seen
    /\ UNCHANGED <<run, campaigns, git, task, daemon, expected, bounds, history>>

Beats == metrics = "best" \/ (metrics = "better" /\ winner = "first")

Preview ==
    CASE campaign # "active" \/ ~objective -> "no_objective"
      [] campaign = "active" /\ objective /\ exp # "succeeded" -> "no_metric"
      [] OTHER -> IF Beats THEN "improved" ELSE "not_improved"

\* Where an intent leads: to the branch, or around it.
Onward(o) == IF o = "improved" THEN "cas" ELSE "verify"

\* prepare_code_promotion: the intent of the first pass is kept, and a later
\* pass has to come to the same.
PreparePromotion ==
    /\ At("prepared")
    /\ LET plan == [outcome |-> Preview, winner |-> winner,
                    old |-> IF intent = NoIntent THEN seen ELSE intent.old]
       IN  \/ /\ metrics # "missing" /\ intent \in {NoIntent, plan}
              /\ intent' = plan /\ pc' = Onward(plan.outcome)
           \/ /\ metrics = "missing" \/ intent \notin {NoIntent, plan}
              /\ Fail /\ UNCHANGED intent
    /\ UNCHANGED <<state, attempt, ready, digest, sha, rows, campaigns, git, task, daemon,
                   memory, bounds, history>>

\* `git update-ref` moves the branch from the intent's old value only.
MoveBranch ==
    /\ At("cas") /\ seen = intent.old
    /\ \/ best = intent.old /\ intact
          /\ best' = "candidate" /\ moved' = TRUE /\ pc' = "moved"
       \/ /\ best # intent.old \/ ~intact
          /\ Fail /\ UNCHANGED <<best, moved>>
    /\ UNCHANGED <<run, campaigns, tree, onCandidate, ref, intact, task, daemon, memory,
                   bounds, passedOn, ranOn>>

\* It is read again: the move is taken back when the user's refs have changed,
\* and left to another round when the branch is on its old value.
CheckMove ==
    /\ At("moved")
    /\ IF best = "candidate" /\ ~intact
       THEN best' = intent.old /\ moved' = FALSE /\ Fail
       ELSE /\ pc' = (CASE best = "candidate"          -> "confirm"
                        [] best = intent.old /\ intact -> "idle"
                        [] OTHER                       -> "error")
            /\ UNCHANGED <<best, moved>>
    /\ UNCHANGED <<run, campaigns, tree, onCandidate, ref, intact, task, daemon, memory,
                   bounds, passedOn, ranOn>>

\* A branch found on the candidate stays; one found elsewhere is left alone.
BranchIsElsewhere ==
    /\ At("cas") /\ seen # intent.old
    /\ IF seen = "candidate" THEN pc' = "confirm" ELSE Fail
    /\ UNCHANGED <<run, campaigns, git, task, daemon, memory, bounds, history>>

ConfirmBranch ==
    /\ At("confirm")
    /\ IF best = "candidate" /\ intact THEN pc' = "verify" ELSE Fail
    /\ UNCHANGED <<run, campaigns, git, task, daemon, memory, bounds, history>>

VerifyCandidate ==
    /\ At("verify")
    /\ IF Clean THEN pc' = "finalize" ELSE Fail
    /\ UNCHANGED <<run, campaigns, git, task, daemon, memory, bounds, history>>

\* finalize_code_promotion: one transaction, for the best the intent compared
\* with.
FinalizePromotion ==
    /\ At("finalize")
    /\ \/ /\ winner = intent.winner
          /\ winner' = IF intent.outcome = "improved" THEN "candidate" ELSE winner
          /\ state' = "evaluated" /\ pc' = "idle"
       \/ winner # intent.winner /\ Fail /\ UNCHANGED <<winner, state>>
    /\ UNCHANGED <<attempt, ready, digest, sha, intent, rows, campaign, objective, exp,
                   metrics, git, task, daemon, memory, bounds, history>>

ScheduleCleanup ==
    /\ Idle /\ state = "evaluated"
    /\ state' = "cleanup_pending"
    /\ UNCHANGED <<attempt, ready, digest, sha, intent, rows, campaigns, git, task, daemon,
                   pc, memory, bounds, history>>
----------------------------------------------------------------------------
(* advance_cleanup_code_change; with an error it waits for another round.  *)

Cleanable ==
    \/ state = "cleanup_pending" /\ Clean
    \/ state = "rejected" /\ Retained

RemoveWorktree ==
    /\ Idle /\ Cleanable
    /\ tree' = 0 /\ pc' = "removed"
    /\ UNCHANGED <<run, campaigns, onCandidate, ref, best, intact, task, daemon, memory,
                   bounds, history>>

\* The user's refs are looked at once more before the end is recorded.
FinishCleanup ==
    /\ At("removed")
    /\ state' = IF state = "cleanup_pending" /\ intact THEN "completed" ELSE state
    /\ pc' = "idle"
    /\ UNCHANGED <<attempt, ready, digest, sha, intent, rows, campaigns, git, task, daemon,
                   memory, bounds, history>>
----------------------------------------------------------------------------
RoundStep ==
    \/ Prepare \/ CreateWorktree \/ EnterEditing
    \/ BeginRound \/ VerifyTree \/ RecordDiff \/ PlanChecks
    \/ \E c \in Checks : RunCheck(c)
    \/ FailedBefore \/ VerifyAgain \/ FinishFailedRound
    \/ EnterCommitting \/ CommitCandidate \/ ResetWorktree \/ RecordCandidate
    \/ PublishCandidate \/ ResumeCommitting
    \/ RequireRecovery

ExperimentStep == SubmitCandidate \/ IngestResult \/ ProjectEnd

PromotionStep ==
    \/ ReopenResult \/ ReadBest \/ PreparePromotion \/ MoveBranch \/ CheckMove
    \/ BranchIsElsewhere \/ ConfirmBranch \/ VerifyCandidate \/ FinalizePromotion \/ ScheduleCleanup

CleanupStep == RemoveWorktree \/ FinishCleanup

EditorStep == EditorReports \/ EditorFails

Environment ==
    StopOrResume \/ WriteTree \/ MoveBest \/ MoveOther \/ TaskEnds \/ OtherWins \/ Crash

Next == RoundStep \/ ExperimentStep \/ PromotionStep \/ CleanupStep \/ EditorStep
        \/ Restart \/ Environment

Spec == Init /\ [][Next]_vars

\* The daemon runs its rounds and is restarted; editors and tasks end.
Fairness ==
    /\ WF_vars(RoundStep) /\ WF_vars(PromotionStep) /\ WF_vars(CleanupStep)
    /\ WF_vars(ExperimentStep) /\ WF_vars(EditorStep)
    /\ WF_vars(Restart) /\ WF_vars(TaskEnds)

FairSpec == Spec /\ Fairness
----------------------------------------------------------------------------
(* Properties.                                                             *)

Early     == {"reserved", "preparing_worktree", "editing"}
Kept      == {"committing", "candidate_ready", "experiment_submitted", "evaluated",
              "cleanup_pending", "completed"}
Submitted == {"experiment_submitted", "evaluated", "cleanup_pending", "completed",
              "recovery_required"}
Promoting == {"read", "prepared", "cas", "moved", "confirm", "verify", "finalize"}

\* Every check of the round passed, on the tree whose diff is recorded.
Checked ==
    /\ digest # 0 /\ HasProjectCheck /\ AllPassed
    /\ \A c \in Checks : rows[c] = "passed" => passedOn[c] = digest

\* The place in a handler goes with the state of the run.
PlaceInv ==
    /\ daemon = "down" => pc = "idle"
    /\ pc \in {"prepare", "own"} => state = "preparing_worktree"
    /\ pc \in {"round", "record", "plan", "check", "failed", "passed"} => state = "checking"
    /\ pc \in {"commit", "reset", "store", "publish"} => state = "committing"
    /\ pc \in Promoting => state = "experiment_submitted" /\ exp \in Ends
    /\ pc = "removed" => state \in {"cleanup_pending", "rejected"}

\* The digest is not older than the tree a check passed on, which is not newer
\* than the worktree, so that all three agree when the first and last do.
RoundInv ==
    /\ state \in Early => digest = 0 /\ ref = 0
    /\ digest = 0 => \A c \in Checks : rows[c] = "none"
    /\ pc = "own" \/ state \in {"editing", "checking"} => tree # 0
    /\ state = "checking" => /\ ref = 0
                            /\ \A c \in Checks : rows[c] = "passed"
                                   => digest <= passedOn[c] /\ passedOn[c] <= tree
    /\ pc \in {"record", "plan", "check"} => expected # 0 /\ expected <= tree
    /\ pc \in {"plan", "check", "passed", "commit"} => digest = expected
    /\ state \in Kept \/ pc = "passed" \/ ref # 0 => Checked
    /\ ref # 0 => ref = digest /\ state \in Kept \cup {"recovery_required"}

\* What the intent, the branch and the experiment say of each other.
IntentInv ==
    /\ exp \in Ends => task = exp
    /\ task # "none" => ref # 0 /\ state \in Submitted
    /\ task \in Ends => ranOn = ref \/ tree # ref
    /\ intent # NoIntent => state \in Submitted /\ exp \in Ends
    /\ intent.outcome = "improved" => exp = "succeeded"
    /\ intent.old # "candidate"
    /\ best = "candidate" => moved
    /\ moved => intent.outcome = "improved"
    /\ pc \in {"prepared", "cas"} /\ seen = "candidate" => moved
    /\ pc \in {"cas", "moved", "confirm"} => intent.outcome = "improved"
    /\ pc \in {"confirm", "verify", "finalize"} /\ intent.outcome = "improved" => moved
    /\ pc = "finalize" => ranOn = ref
    /\ winner = "candidate" => /\ state \in Submitted \ {"experiment_submitted"}
                              /\ moved /\ intent.outcome = "improved" /\ ranOn = ref

\* The four together are inductive, and imply the two invariants below.
PromotionInv == TypeOK /\ PlaceInv /\ RoundInv /\ IntentInv

\* Unchecked bytes are never committed: the candidate branch holds the tree
\* whose diff is recorded, and every check of its round passed on that tree, a
\* project's check among them.
CommittedWasChecked ==
    ref # 0 => /\ digest = ref
               /\ HasProjectCheck /\ AllPassed
               /\ \A c \in Checks : rows[c] = "passed" => passedOn[c] = ref

\* The database calls the candidate the best only after the branch was moved to
\* it, and after an experiment that succeeded and left it as committed.
BestWasInstalled ==
    winner = "candidate" => /\ moved /\ intent.outcome = "improved"
                            /\ exp = "succeeded" /\ ranOn = ref

----------------------------------------------------------------------------
(* Refinement of CandidateDelivery.                                        *)

\* The version every check of the last round has passed on.
Approved == IF Checked THEN digest ELSE 0

Delivery == INSTANCE CandidateDelivery
    WITH approved <- Approved, candidate <- ref, trial <- task, tried <- ranOn,
         verdict <- intent.outcome, from <- intent.old, branch <- best,
         installed <- moved, crowned <- winner = "candidate"

\* Rows, git and Pueue, changed one at a time among crashes, writes and moves
\* of the user (code_change.rs, db/code_changes.rs), keep the promise of
\* CandidateDelivery: one commit of the approved files, one judgement that a
\* restart cannot change, and a best experiment that ran on what was committed.
CandidatesDeliver == Delivery!CandidateSpec
----------------------------------------------------------------------------

Unfinished == {"reserved", "preparing_worktree", "editing", "checking", "committing"}

\* A run of an active campaign becomes a candidate, or ends, after two attempts
\* at most; one whose experiment ended is evaluated or needs recovery.
RunsSettle ==
    /\ (state \in Unfinished) ~> (state \notin Unfinished \/ campaign # "active")
    /\ (state = "experiment_submitted" /\ exp \in Ends) ~> (state # "experiment_submitted")

\* An experiment that changed its checkout makes the result non-promotable: the
\* run ends, in recovery.
MutationIsContained ==
    (state = "experiment_submitted" /\ task \in Ends /\ ~Clean)
        ~> (state # "experiment_submitted")
=============================================================================
