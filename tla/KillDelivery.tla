---------------------------- MODULE KillDelivery ----------------------------
(***************************************************************************)
(* What the daemon promises about the runs it kills, whatever its passes,  *)
(* crashes, retries and the task ids do underneath.  A kill reaches only a *)
(* run that a request names and is carrying out; a request counts as sent  *)
(* only when its run was struck, and as done only when that run is over    *)
(* besides.  A run is followed up -- resumed by a successor or escalated   *)
(* to the operator -- only after it was killed and a request for it was    *)
(* settled, and never again after it was resumed.  The only way out is a   *)
(* run that is given the id of another while the kill of that id is under  *)
(* way.                                                                    *)
(***************************************************************************)
CONSTANTS Runs, Origins

VARIABLES
    life,       \* life[r]: what has become of run r
    request,    \* request[r][o]: the request of origin o that r be killed
    struck,     \* the runs that a kill has reached
    stray,      \* a run was given an id while the kill of that id was under way
    resumed,    \* the runs that have a successor
    escalated   \* the runs that the operator was told of

Life == {"none", "live", "done", "killed", "gone"}

Request == {"none", "asked", "begun", "sent", "done", "void", "failed", "expired"}

KillTypeOK ==
    /\ life \in [Runs -> Life] /\ request \in [Runs -> [Origins -> Request]]
    /\ struck \in SUBSET Runs /\ stray \in BOOLEAN
    /\ resumed \in SUBSET Runs /\ escalated \in SUBSET Runs

KillInit ==
    /\ life \in [Runs -> {"none", "live"}]
    /\ request = [r \in Runs |-> [o \in Origins |-> "none"]]
    /\ struck = {} /\ stray = FALSE
    /\ escalated = {}
    /\ resumed \in SUBSET {r \in Runs : life[r] = "none"}

Live(r) == life[r] = "live"
Over(r) == life[r] \in {"done", "killed"}

Begin(r) ==
    /\ life[r] = "none" /\ life' = [life EXCEPT ![r] = "live"]
    /\ stray' \in {stray, TRUE}
    /\ UNCHANGED <<request, struck, resumed, escalated>>

End(r) ==
    /\ \/ Live(r) /\ \E s \in {"done", "killed"} : life' = [life EXCEPT ![r] = s]
       \/ Over(r) /\ life' = [life EXCEPT ![r] = "gone"]
    /\ UNCHANGED <<request, struck, stray, resumed, escalated>>

Turn(r, o, p, q) ==
    /\ request[r][o] = p /\ request' = [request EXCEPT ![r][o] = q]
    /\ UNCHANGED <<life, struck, stray, resumed, escalated>>

Ask(r, o) == (Live(r) \/ Over(r)) /\ Turn(r, o, "none", "asked")

\* Also for a kill that was interrupted, whose request stays as it is.
CarryOut(r, o) == Live(r) /\ Turn(r, o, "asked", "begun")

Strike(r) ==
    /\ Live(r) /\ (stray \/ \E o \in Origins : request[r][o] = "begun")
    /\ struck' = struck \cup {r}
    /\ UNCHANGED <<life, request, stray, resumed, escalated>>

Send(r, o)    == (stray \/ r \in struck) /\ Turn(r, o, "begun", "sent")
Fail(r, o)    == Turn(r, o, "begun", "failed")
Confirm(r, o) == Over(r) /\ Turn(r, o, "sent", "done")
Expire(r, o)  == Turn(r, o, "sent", "expired")
Void(r, o)    == Turn(r, o, "asked", "void")

MayFollow(r) ==
    /\ r \notin resumed /\ life[r] = "killed"
    /\ \E o \in Origins : request[r][o] \in {"done", "void"}

Resume(r) ==
    /\ MayFollow(r) /\ resumed' = resumed \cup {r}
    /\ UNCHANGED <<life, request, struck, stray, escalated>>

Escalate(r) ==
    /\ MayFollow(r) /\ escalated' = escalated \cup {r}
    /\ UNCHANGED <<life, request, struck, stray, resumed>>

KillNext ==
    \E r \in Runs :
        \/ Begin(r) \/ End(r) \/ Strike(r) \/ Resume(r) \/ Escalate(r)
        \/ \E o \in Origins : Ask(r, o) \/ CarryOut(r, o) \/ Send(r, o) \/ Fail(r, o)
                              \/ Confirm(r, o) \/ Expire(r, o) \/ Void(r, o)

killVars == <<life, request, struck, stray, resumed, escalated>>

KillSpec == KillInit /\ [][KillNext]_killVars
=============================================================================
