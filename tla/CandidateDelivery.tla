------------------------- MODULE CandidateDelivery -------------------------
(***************************************************************************)
(* What a campaign promises about a candidate that its code-change run     *)
(* makes, whatever the worktree, the user, other branches and crashes do.  *)
(* Only an approved version is committed, and only once; the commit is     *)
(* tried once and judged once; it takes the best branch's place only after *)
(* it was judged better, from the place the judgement named; and it is     *)
(* crowned only when it was installed and its trial ran on the very files  *)
(* that were committed.  Nothing uninstalls what was crowned.              *)
(***************************************************************************)
EXTENDS Naturals

VARIABLES
    approved,    \* the version that passed the checks, or 0
    candidate,   \* the version that was committed, or 0
    trial,       \* the experiment on the candidate
    tried,       \* the version the trial ended on
    verdict,     \* what the trial was judged to be
    from,        \* where the best branch has to be for the candidate to follow
    branch,      \* where the best branch is
    installed,   \* the candidate was put on the branch and not taken back
    crowned      \* the candidate is the campaign's best

Ends     == {"succeeded", "failed", "cancelled"}
Verdicts == {"improved", "not_improved", "no_metric", "no_objective"}
Places   == {"base", "other"}

CandidateInit ==
    /\ approved = 0 /\ candidate = 0
    /\ trial = "none" /\ tried = 0
    /\ verdict = "none" /\ from = "none"
    /\ branch = "base" /\ installed = FALSE /\ crowned = FALSE

\* The checks approve of a version, or an approval is withdrawn.
Approve ==
    /\ candidate = 0
    /\ approved' \in Nat
    /\ UNCHANGED <<candidate, trial, tried, verdict, from, branch, installed, crowned>>

Commit ==
    /\ candidate = 0 /\ approved # 0
    /\ candidate' = approved
    /\ UNCHANGED <<approved, trial, tried, verdict, from, branch, installed, crowned>>

Try ==
    /\ candidate # 0 /\ trial = "none"
    /\ trial' = "live"
    /\ UNCHANGED <<approved, candidate, tried, verdict, from, branch, installed, crowned>>

EndTrial ==
    /\ trial = "live"
    /\ trial' \in Ends /\ tried' \in Nat
    /\ UNCHANGED <<approved, candidate, verdict, from, branch, installed, crowned>>

Judge ==
    /\ trial \in Ends /\ verdict = "none"
    /\ verdict' \in Verdicts /\ from' \in Places
    /\ verdict' = "improved" => trial = "succeeded"
    /\ UNCHANGED <<approved, candidate, trial, tried, branch, installed, crowned>>

Install ==
    /\ verdict = "improved" /\ branch = from /\ ~crowned
    /\ branch' = "candidate" /\ installed' = TRUE
    /\ UNCHANGED <<approved, candidate, trial, tried, verdict, from, crowned>>

TakeBack ==
    /\ branch = "candidate" /\ ~crowned
    /\ branch' = from /\ installed' = FALSE
    /\ UNCHANGED <<approved, candidate, trial, tried, verdict, from, crowned>>

\* Somebody else moves the branch, never to the candidate.
MoveAway ==
    /\ branch' \in Places
    /\ UNCHANGED <<approved, candidate, trial, tried, verdict, from, installed, crowned>>

Crown ==
    /\ installed /\ verdict = "improved" /\ tried = candidate
    /\ crowned' = TRUE
    /\ UNCHANGED <<approved, candidate, trial, tried, verdict, from, branch, installed>>

CandidateNext ==
    \/ Approve \/ Commit \/ Try \/ EndTrial \/ Judge
    \/ Install \/ TakeBack \/ MoveAway \/ Crown

candidateVars ==
    <<approved, candidate, trial, tried, verdict, from, branch, installed, crowned>>

CandidateSpec == CandidateInit /\ [][CandidateNext]_candidateVars
============================================================================
