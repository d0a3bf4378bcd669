--------------------------- MODULE IntentDelivery ---------------------------
(***************************************************************************)
(* What a campaign promises about an experiment it has reserved, whatever  *)
(* locks, crashes and lost answers happen between the database and Pueue.  *)
(* A promise is kept by at most one `pueue add`: the experiment is exposed *)
(* while that add is under way, owned once its task is known, doubtful     *)
(* when it cannot be known, and settled when the task's result is taken.   *)
(***************************************************************************)
EXTENDS Naturals

CONSTANT Experiments

VARIABLES
    fate,   \* fate[x]: where experiment x is in its life
    sent    \* sent[x]: Pueue tasks created for x

Fate == {"absent", "promised", "exposed", "owned", "doubtful", "settled"}

IntentTypeOK == fate \in [Experiments -> Fate] /\ sent \in [Experiments -> 0..1]

IntentInit ==
    /\ fate = [x \in Experiments |-> "absent"]
    /\ sent = [x \in Experiments |-> 0]

Turn(x, p, q) ==
    /\ fate[x] = p
    /\ fate' = [fate EXCEPT ![x] = q]
    /\ UNCHANGED sent

Promise(x) == Turn(x, "absent", "promised")
Expose(x)  == Turn(x, "promised", "exposed")
Settle(x)  == Turn(x, "owned", "settled")

\* Only an intent whose task exists is ever owned.
Own(x)     == sent[x] = 1 /\ Turn(x, "exposed", "owned")

\* Nobody knows any more: several experiments at once when a daemon starts.
Doubt(X) ==
    /\ \A x \in X : fate[x] \in {"exposed", "owned"}
    /\ fate' = [x \in Experiments |-> IF x \in X THEN "doubtful" ELSE fate[x]]
    /\ UNCHANGED sent

\* The add may still arrive after everybody gave it up.
Send(x) ==
    /\ fate[x] \in {"exposed", "doubtful"}
    /\ sent[x] = 0
    /\ sent' = [sent EXCEPT ![x] = 1]
    /\ UNCHANGED fate

IntentNext ==
    \/ \E x \in Experiments : Promise(x) \/ Expose(x) \/ Own(x) \/ Settle(x) \/ Send(x)
    \/ \E X \in SUBSET Experiments : Doubt(X)

intentVars == <<fate, sent>>

IntentSpec == IntentInit /\ [][IntentNext]_intentVars
=============================================================================
