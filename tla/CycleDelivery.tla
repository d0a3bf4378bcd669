--------------------------- MODULE CycleDelivery ---------------------------
(***************************************************************************)
(* What a campaign promises about the decision that follows an experiment, *)
(* whatever events, locks, claims and restarts do underneath.  One cycle   *)
(* at a time, the oldest, is prepared and asked; its agent acts alone; the *)
(* answer is used after the agent is gone.  An attempt that was asked and  *)
(* brought nothing is counted, one that was only prepared is not; a cycle  *)
(* that failed too often, or whose outcome is unknown, is given up, and    *)
(* with it the campaign stops for good.                                    *)
(***************************************************************************)
EXTENDS Naturals

CONSTANTS Cycles, MaxAttempts

VARIABLES
    stage,      \* stage[c]: where cycle c is in its life
    failures,   \* failures[c]: failed attempts since the last success
    acting,     \* the cycles whose agent may be acting
    active      \* the campaign is active

Stage == {"absent", "open", "prepared", "asked", "answered", "waiting", "done",
          "given up"}

CycleTypeOK ==
    /\ stage \in [Cycles -> Stage] /\ failures \in [Cycles -> 0..MaxAttempts]
    /\ acting \in SUBSET Cycles /\ active \in BOOLEAN

CycleInit ==
    /\ stage = [c \in Cycles |-> "absent"] /\ failures = [c \in Cycles |-> 0]
    /\ acting = {} /\ active = TRUE

Turn(c, p, q) == stage[c] = p /\ stage' = [stage EXCEPT ![c] = q]

Open(c) ==
    /\ \A d \in Cycles : d < c => stage[d] # "absent"
    /\ Turn(c, "absent", "open")
    /\ UNCHANGED <<failures, acting, active>>

Prepare(c) ==
    /\ active /\ acting = {}
    /\ \A d \in Cycles : stage[d] \notin {"prepared", "asked"}
    /\ \A d \in Cycles : stage[d] = "open" => c <= d
    /\ Turn(c, "open", "prepared")
    /\ UNCHANGED <<failures, acting, active>>

\* The attempt goes back uncounted; the budget may stop the campaign with it.
GiveBack(c) ==
    /\ Turn(c, "prepared", "open")
    /\ active' \in {active, FALSE}
    /\ UNCHANGED <<failures, acting>>

Ask(c) == Turn(c, "prepared", "asked") /\ UNCHANGED <<failures, acting, active>>

Act(c) ==
    /\ stage[c] = "asked" /\ acting = {} /\ acting' = {c}
    /\ UNCHANGED <<stage, failures, active>>

Answer(c) ==
    /\ c \in acting
    /\ Turn(c, "asked", "answered")
    /\ UNCHANGED <<failures, acting, active>>

\* No answer, or one that is refused after its agent has ended.
Fail(c) ==
    /\ \/ stage[c] = "asked"
       \/ stage[c] = "answered" /\ c \notin acting
    /\ failures' = [failures EXCEPT ![c] = @ + 1]
    /\ IF failures'[c] >= MaxAttempts
       THEN Turn(c, stage[c], "given up") /\ active' = FALSE
       ELSE Turn(c, stage[c], "open") /\ UNCHANGED active
    /\ UNCHANGED acting

\* The answer is used; the claim that the goal is reached stops the campaign.
Close(c) ==
    /\ active /\ c \notin acting
    /\ Turn(c, "answered", "waiting") \/ Turn(c, "answered", "done")
    /\ failures' = [failures EXCEPT ![c] = 0]
    /\ active' \in {active, FALSE}
    /\ UNCHANGED acting

Reopen(c) == Turn(c, "waiting", "open") /\ UNCHANGED <<failures, acting, active>>

\* A failed attempt turns out to have an outcome nobody knows, or a campaign
\* that is over.
GiveUp(c) ==
    /\ Turn(c, "open", "given up")
    /\ active' = FALSE
    /\ acting \subseteq {c} /\ acting' = {}
    /\ UNCHANGED failures

AgentEnds == acting' = {} /\ UNCHANGED <<stage, failures, active>>

\* Operators and the budget; no campaign goes on with a cycle given up.
Switch ==
    /\ active' => \A c \in Cycles : stage[c] # "given up"
    /\ UNCHANGED <<stage, failures, acting>>

CycleNext ==
    \/ \E c \in Cycles :
          \/ Open(c) \/ Prepare(c) \/ GiveBack(c) \/ Ask(c) \/ Act(c) \/ Answer(c)
          \/ Fail(c) \/ Close(c) \/ Reopen(c) \/ GiveUp(c)
    \/ AgentEnds \/ Switch

cycleVars == <<stage, failures, acting, active>>

CycleSpec == CycleInit /\ [][CycleNext]_cycleVars
============================================================================
