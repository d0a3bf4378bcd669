------------------------ MODULE RunningHealthProofs ------------------------
(***************************************************************************)
(* Proofs about RunningHealth: HealthInv is inductive, the repairs of a    *)
(* lineage stay within the limit, the attempts of a diagnosis are held,    *)
(* and the module implements KillDelivery.                                 *)
(***************************************************************************)
EXTENDS RunningHealth, FiniteSetTheorems, TLAPS

\* A request in one of these states may have reached its task.
Reaching == {"dispatching", "sent", "confirmed", "failed", "timed_out"}

LEMMA InitInv == Init => HealthInv /\ RepairsFit
<1> SUFFICES ASSUME Init PROVE HealthInv /\ RepairsFit
  OBVIOUS
<1>1. PICK older \in {{}, {Origin}} :
          /\ exp = [e \in Managed |-> IF e = First THEN "accepted"
                                      ELSE IF e \in older THEN "ended" ELSE "none"]
          /\ parent = [e \in Managed |-> IF e = First /\ older # {} THEN Origin ELSE None]
          /\ Cardinality(older) <= MaxRepairs
  BY DEF Init
<1>2. TypeOK
  <2>1. agent \in Managed \cup {None} /\ released \in BOOLEAN
    BY DEF Init
  <2>2. /\ exp \in [Managed -> {"none", "reserved", "accepted", "ended"}]
        /\ parent \in [Managed -> Managed \cup {None}]
    BY <1>1, RunsAssumption
  <2>3. /\ req \in [Runs -> [Origins -> Statuses]] /\ task \in [Runs -> {"none", "running"}]
        /\ faults \subseteq FaultKinds /\ hit \in SUBSET Runs
    BY DEF Init, Statuses
  <2>4. /\ fails \in [Managed -> 0..MaxDiagnoses]
        /\ spent \in [Managed -> SUBSET (0..MaxDiagnoses - 1)]
    BY BoundsAssumption DEF Init
  <2> QED
    BY <2>1, <2>2, <2>3, <2>4 DEF Init, TypeOK, Steps
<1>3. PlaceInv
  BY DEF Init, PlaceInv
<1>4. RowInv
  BY RunsAssumption, BoundsAssumption DEF Init, RowInv
<1>5. LineageInv
  BY <1>1, RunsAssumption DEF Init, LineageInv, Successors, Runs
<1>6. KillsAreOwned
  BY DEF Init, KillsAreOwned
<1>7. RepairsFit
  <2>1. /\ Repairs = IF older = {} THEN {} ELSE {First}
        /\ \A e \in Managed : Successors(e) = IF older # {} /\ e = Origin THEN {First} ELSE {}
        /\ \A s \in Repairs : parent[s] = Origin /\ exp[Origin] = "ended"
    BY <1>1, RunsAssumption DEF Repairs, Successors
  <2>2. Cardinality({}) = 0 /\ Cardinality({First}) = 1 /\ Cardinality({Origin}) = 1
    BY FS_EmptySet, FS_Singleton
  <2> QED
    BY <1>1, <2>1, <2>2, BoundsAssumption DEF RepairsFit
<1> QED
  BY <1>2, <1>3, <1>4, <1>5, <1>6, <1>7 DEF HealthInv

----------------------------------------------------------------------------
(* What steps that leave a part of the state alone preserve.               *)

LEMMA LineageKept ==
    ASSUME LineageInv, UNCHANGED lineage,
           \A r \in Runs : /\ task'[r] = "none" <=> task[r] = "none"
                           /\ task[r] = "gone" => task'[r] = "gone",
           \A r \in Runs, o \in Origins :
               req'[r][o] # "none" => req[r][o] # "none" \/ task[r] # "none"
    PROVE  LineageInv'
BY RunsAssumption DEF LineageInv, lineage, Successors, Runs

LEMMA SetAt ==
    ASSUME TypeOK, NEW r \in Runs, NEW o \in Origins, NEW s \in Statuses, SetRequest(r, o, s)
    PROVE  /\ req' \in [Runs -> [Origins -> Statuses]]
           /\ \A q \in Runs, p \in Origins :
                 req'[q][p] = IF q = r /\ p = o THEN s ELSE req[q][p]
BY DEF TypeOK, SetRequest

LEMMA OwnedKept ==
    ASSUME TypeOK, KillsAreOwned, UNCHANGED <<hit, faults>>,
           \A q \in Runs, p \in Origins : req[q][p] \in Reaching => req'[q][p] \in Reaching,
           \A q \in Runs, p \in Origins :
               req'[q][p] \in {"sent", "confirmed"} =>
                   req[q][p] \in {"sent", "confirmed"} \/ "id_reused" \in faults \/ q \in hit
    PROVE  KillsAreOwned'
<1>1. ASSUME "id_reused" \notin faults, NEW q \in hit
      PROVE  \E p \in Origins : req'[q][p] \in Reaching
  <2>1. PICK p \in Origins : req[q][p] \in Reaching
    BY <1>1 DEF KillsAreOwned, Reaching
  <2> QED
    BY <1>1, <2>1 DEF TypeOK
<1>2. ASSUME "id_reused" \notin faults, NEW q \in Runs, NEW p \in Origins,
             req'[q][p] \in {"sent", "confirmed"}
      PROVE  q \in hit
  BY <1>2 DEF KillsAreOwned
<1> QED
  BY <1>1, <1>2 DEF KillsAreOwned, Reaching

LEMMA OwnedMoves ==
    ASSUME TypeOK, KillsAreOwned, NEW r \in Runs, NEW o \in Origins, NEW s \in Statuses,
           SetRequest(r, o, s), UNCHANGED <<hit, faults>>,
           req[r][o] \in Reaching => s \in Reaching,
           s \in {"sent", "confirmed"} => "id_reused" \in faults \/ r \in hit
    PROVE  KillsAreOwned'
<1>1. \A q \in Runs, p \in Origins : req'[q][p] = IF q = r /\ p = o THEN s ELSE req[q][p]
  BY DEF TypeOK, SetRequest
<1>2. \A q \in Runs, p \in Origins : req[q][p] \in Reaching => req'[q][p] \in Reaching
  BY <1>1
<1>3. \A q \in Runs, p \in Origins :
          req'[q][p] \in {"sent", "confirmed"} =>
              req[q][p] \in {"sent", "confirmed"} \/ "id_reused" \in faults \/ q \in hit
  BY <1>1
<1> QED
  BY <1>2, <1>3, OwnedKept

\* The task of one run moves on and the daemon does nothing.
LEMMA TaskMoves ==
    ASSUME HealthInv, UNCHANGED <<db, place, hit>>, faults \subseteq faults', faults' \subseteq FaultKinds,
           NEW r \in Runs, NEW s \in {"running", "signalled", "paused", "done", "killed", "gone"},
           task' = [task EXCEPT ![r] = s], Listed(r)
    PROVE  HealthInv'
<1> USE DEF HealthInv, db, place, lineage, health, agents
<1>1. TypeOK'
  BY DEF TypeOK
<1>2. PlaceInv'
  <2>1. ListedAs(Owner(cur))' \subseteq ListedAs(Owner(cur))
    BY DEF TypeOK, ListedAs, Listed, SameId, Owner
  <2> QED
    BY <2>1 DEF PlaceInv
<1>3. RowInv'
  BY DEF RowInv
<1>4. LineageInv'
  BY LineageKept DEF TypeOK, Listed
<1>5. KillsAreOwned'
  BY DEF KillsAreOwned
<1> QED
  BY <1>1, <1>2, <1>3, <1>4, <1>5

\* A row of an idle daemon becomes healthy or suspicious.
LEMMA RowMoves ==
    ASSUME HealthInv, Idle, NEW e \in Managed, NEW s \in {"healthy", "suspicious"},
           row' = [row EXCEPT ![e] = s], exp[e] \in {"accepted", "ended"},
           UNCHANGED <<task, lineage, campaign, escalated, fails, advice, agents, req,
                       place, faults, hit>>
    PROVE  HealthInv'
<1> USE DEF HealthInv, Idle, place, lineage, agents
<1>1. TypeOK'
  BY DEF TypeOK
<1>2. PlaceInv'
  BY DEF PlaceInv, ListedAs, Listed, SameId, Owner
<1>3. RowInv'
  BY DEF RowInv, TypeOK
<1>4. LineageInv'
  BY LineageKept
<1>5. KillsAreOwned'
  BY DEF KillsAreOwned
<1> QED
  BY <1>1, <1>2, <1>3, <1>4, <1>5

\* A request of an idle daemon moves, and no kill of it is under way.
LEMMA RequestMoves ==
    ASSUME HealthInv, Idle, NEW r \in Runs, NEW o \in Origins,
           NEW s \in {"requested", "misfiled", "moot", "timed_out"}, SetRequest(r, o, s),
           req[r][o] \in Reaching => s \in Reaching, task[r] # "none",
           UNCHANGED <<task, lineage, campaign, escalated, health, agents, place, faults, hit>>
    PROVE  HealthInv'
<1> USE DEF HealthInv, Idle, place, lineage, health, agents
<1>1. s \in Statuses
  BY DEF Statuses
<1>2. TypeOK'
  BY <1>1, SetAt DEF TypeOK
<1>3. PlaceInv'
  BY DEF PlaceInv
<1>4. RowInv'
  BY DEF RowInv
<1>5. LineageInv'
  BY <1>1, SetAt, LineageKept
<1>6. KillsAreOwned'
  BY <1>1, OwnedMoves
<1> QED
  BY <1>2, <1>3, <1>4, <1>5, <1>6

\* Nothing but the campaign and its escalations move.
LEMMA CampaignMoves ==
    ASSUME HealthInv, campaign' \in {"active", "paused", "degraded"}, escalated' \in SUBSET Managed,
           faults \subseteq faults', faults' \subseteq FaultKinds,
           UNCHANGED <<task, lineage, health, agents, req, place, hit>>
    PROVE  HealthInv'
<1> USE DEF HealthInv, place, lineage, health, agents
<1>1. TypeOK'
  BY DEF TypeOK
<1>2. PlaceInv'
  BY DEF PlaceInv, ListedAs, Listed, SameId, Owner
<1>3. RowInv'
  BY DEF RowInv
<1>4. LineageInv'
  BY LineageKept
<1>5. KillsAreOwned'
  BY DEF KillsAreOwned
<1> QED
  BY <1>1, <1>2, <1>3, <1>4, <1>5

----------------------------------------------------------------------------
(* Pueue, its users, the operator; crash and restart.                      *)

LEMMA TaskSteps ==
    ASSUME HealthInv, NEW r \in Runs,
           TaskEnds(r) \/ UserKills(r) \/ UserPauses(r) \/ UserResumes(r) \/ UserCleans(r)
    PROVE  HealthInv'
<1>1. Listed(r) /\ UNCHANGED <<db, place, hit>>
  BY DEF TaskEnds, UserKills, UserPauses, UserResumes, UserCleans, Listed, Running, Terminal
<1>2. faults \subseteq faults' /\ faults' \subseteq FaultKinds
  BY DEF TaskEnds, UserKills, UserPauses, UserResumes, UserCleans, Fault, FaultKinds, HealthInv, TypeOK
<1>3. \E s \in {"running", "signalled", "paused", "done", "killed", "gone"} : task' = [task EXCEPT ![r] = s]
  BY DEF TaskEnds, UserKills, UserPauses, UserResumes, UserCleans
<1> QED
  BY <1>1, <1>2, <1>3, TaskMoves

LEMMA IdIsReusedKeeps == ASSUME HealthInv, NEW f \in Foreign, IdIsReused(f) PROVE HealthInv'
<1> USE DEF HealthInv
<1>1. TypeOK'
  <2>1. faults' \subseteq FaultKinds
    BY DEF TypeOK, IdIsReused, Fault, FaultKinds
  <2> QED
    BY <2>1 DEF TypeOK, IdIsReused, Runs, db, place, lineage, health, agents
<1>2. PlaceInv'
  BY RunsAssumption DEF TypeOK, PlaceInv, None, Runs, ListedAs, Listed, SameId, Owner, Running,
     IdIsReused, Fault, place, db, agents, health, lineage
<1>3. RowInv'
  BY DEF RowInv, IdIsReused, db, place, lineage, health, agents
<1>4. LineageInv'
  <2>1. task \in [Runs -> {"none", "running", "signalled", "paused", "done", "killed", "gone"}]
    BY DEF TypeOK
  <2>2. \A q \in Runs : q # f => task'[q] = task[q]
    BY <2>1 DEF IdIsReused
  <2>3. Reuses[f] \in Managed /\ task'[Reuses[f]] = "gone"
    BY <2>2, RunsAssumption DEF IdIsReused, Runs
  <2>4. /\ \A e \in Managed : e # f /\ e \in Runs /\ Successors(e)' = Successors(e)
        /\ UNCHANGED <<exp, parent>>
    BY RunsAssumption DEF Runs, IdIsReused, db, lineage, Successors
  <2>5. /\ task'[f] = "running"
        /\ \A r \in Runs, o \in Origins : req[r][o] # "none" => task'[r] # "none"
        /\ req' = req
    BY <2>1, <2>2 DEF IdIsReused, db, Runs, LineageInv
  <2> QED
    BY <2>2, <2>3, <2>4, <2>5, RunsAssumption DEF LineageInv, Runs
<1>5. KillsAreOwned'
  BY DEF KillsAreOwned, IdIsReused, Fault, db
<1> QED
  BY <1>1, <1>2, <1>3, <1>4, <1>5

LEMMA CampaignSteps == ASSUME HealthInv, PauseCampaign \/ ResumeCampaign PROVE HealthInv'
BY CampaignMoves DEF PauseCampaign, ResumeCampaign, Fault, FaultKinds, HealthInv, TypeOK

LEMMA CrashKeeps == ASSUME HealthInv, Crash PROVE HealthInv'
<1> USE DEF HealthInv
<1>1. TypeOK'
  <2>1. spent' \in [Managed -> SUBSET (0..MaxDiagnoses - 1)]
    BY DEF Crash, TypeOK
  <2> QED
    BY <2>1 DEF TypeOK, Crash, GoIdle, GoTo, Steps, Fault, FaultKinds, lineage, health
<1>2. PlaceInv'
  BY DEF PlaceInv, Crash, GoIdle, GoTo, None
<1>3. RowInv'
  BY DEF RowInv, Crash, lineage, health
<1>4. LineageInv'
  BY LineageKept DEF Crash, lineage
<1>5. KillsAreOwned'
  BY DEF KillsAreOwned, Crash, Fault
<1> QED
  BY <1>1, <1>2, <1>3, <1>4, <1>5

LEMMA RestartKeeps == ASSUME HealthInv, Restart PROVE HealthInv'
<1> USE DEF HealthInv
<1>1. TypeOK'
  BY DEF TypeOK, Restart, lineage, health
<1>2. PlaceInv'
  BY RunsAssumption DEF PlaceInv, Restart, health, ListedAs, Listed, SameId, Owner
<1>3. RowInv'
  BY RunsAssumption DEF RowInv, Restart, health, lineage
<1>4. LineageInv'
  BY LineageKept DEF Restart, lineage
<1>5. KillsAreOwned'
  BY DEF KillsAreOwned, Restart
<1> QED
  BY <1>1, <1>2, <1>3, <1>4, <1>5

----------------------------------------------------------------------------
(* Reconciliation, the observer and stored advice.                         *)

LEMMA RowSteps ==
    ASSUME HealthInv, \/ \E r \in Runs : RegisterRunning(r)
                \/ \E e \in Managed : Observe(e) \/ ContinueRun(e) \/ RequeueInterrupted(e)
    PROVE  HealthInv'
<1>1. \E e \in Managed, s \in {"healthy", "suspicious"} :
          row' = [row EXCEPT ![e] = s] /\ exp[e] \in {"accepted", "ended"}
  BY RunsAssumption DEF RegisterRunning, Observe, ContinueRun, RequeueInterrupted, Owner, Runs, HealthInv, RowInv
<1>2. Idle /\ UNCHANGED <<task, lineage, campaign, escalated, fails, advice, agents, req,
                         place, faults, hit>>
  BY DEF RegisterRunning, Observe, ContinueRun, RequeueInterrupted
<1> QED
  BY <1>1, <1>2, RowMoves

LEMMA RequestSteps ==
    ASSUME HealthInv, NEW r \in Runs, NEW o \in Origins,
           PolicyAsksKill(r) \/ NotRunning(r, o) \/ KillTimesOut(r, o)
    PROVE  HealthInv'
<1>1. CASE PolicyAsksKill(r)
  BY <1>1, RequestMoves DEF PolicyAsksKill, Running, Reaching, Origins
<1>2. CASE NotRunning(r, o)
  BY <1>2, RequestMoves DEF NotRunning, Reaching, HealthInv, LineageInv
<1>3. CASE KillTimesOut(r, o)
  BY <1>3, RequestMoves DEF KillTimesOut, Reaching, HealthInv, LineageInv
<1> QED
  BY <1>1, <1>2, <1>3

LEMMA DiagnosisAsksKillKeeps == ASSUME HealthInv, NEW e \in Managed, DiagnosisAsksKill(e) PROVE HealthInv'
<1>1. PICK r \in ListedAs(e) : SetRequest(r, "health", IF Running(r) THEN "requested" ELSE "misfiled")
  BY DEF DiagnosisAsksKill
<1>2. r \in Runs /\ SameId(r, e)
  BY <1>1 DEF ListedAs
<1>3. req[r]["health"] = "none"
  <2>1. <<r, "health">> \in Runs \X Origins /\ <<r, "health">> \notin RequestsOf(e)
    BY <1>2 DEF DiagnosisAsksKill, Origins
  <2> QED
    BY <1>2, <2>1 DEF RequestsOf
<1>4. PICK s \in {"requested", "misfiled"} : SetRequest(r, "health", s)
  BY <1>1
<1>5. Idle /\ UNCHANGED <<task, lineage, campaign, escalated, health, agents, place, faults, hit>>
  BY DEF DiagnosisAsksKill
<1>6. task[r] # "none"
  BY <1>1 DEF ListedAs, Listed
<1> QED
  BY <1>2, <1>3, <1>4, <1>5, <1>6, RequestMoves DEF Reaching, Origins

LEMMA ConfirmKillKeeps == ASSUME HealthInv, NEW r \in Runs, ConfirmKill(r) PROVE HealthInv'
<1> USE DEF HealthInv
<1>1. TypeOK'
  BY RunsAssumption DEF TypeOK, PlaceInv, Runs, None, Steps, Statuses, Origins,
     ConfirmKill, agents, health, lineage, GoIdle, GoTo, Idle
<1>2. PlaceInv'
  BY RunsAssumption DEF PlaceInv, ConfirmKill, agents, health, lineage, GoIdle, GoTo, Idle
<1>3. RowInv'
  BY DEF RowInv, ConfirmKill, GoIdle, GoTo, Idle, agents, health, lineage
<1>4. LineageInv'
  BY LineageKept DEF ConfirmKill, lineage
<1>5. KillsAreOwned'
  <2>1. UNCHANGED <<faults, hit>>
    BY DEF ConfirmKill
  <2>2. \A q \in Runs, p \in Origins :
            \/ req'[q][p] = req[q][p]
            \/ req[q][p] = "sent" /\ req'[q][p] = "confirmed"
    BY DEF ConfirmKill, TypeOK, Origins
  <2> QED
    BY <2>1, <2>2, OwnedKept DEF Reaching
<1> QED
  BY <1>1, <1>2, <1>3, <1>4, <1>5

LEMMA ProjectTerminalKeeps == ASSUME HealthInv, ProjectTerminal PROVE HealthInv'
<1> USE DEF HealthInv
<1>1. TypeOK'
  BY DEF TypeOK, PlaceInv, ProjectTerminal, Proceed, GoTo, Steps, agents, health
<1>2. PlaceInv'
  BY RunsAssumption DEF TypeOK, PlaceInv, None, ProjectTerminal, agents, health, Proceed, GoTo
<1>3. RowInv'
  BY DEF RowInv, TypeOK, ProjectTerminal, Proceed, GoTo, agents, health
<1>4. LineageInv'
  BY RunsAssumption DEF TypeOK, PlaceInv, LineageInv, Successors, Runs, None, ProjectTerminal
<1>5. KillsAreOwned'
  BY DEF KillsAreOwned, ProjectTerminal
<1> QED
  BY <1>1, <1>2, <1>3, <1>4, <1>5

LEMMA ResumeRunKeeps == ASSUME HealthInv, ResumeRun PROVE HealthInv'
<1> USE DEF HealthInv
<1>1. TypeOK'
  BY DEF TypeOK, PlaceInv, ResumeRun, Proceed, GoTo, Steps, agents, health
<1>2. PlaceInv'
  BY RunsAssumption DEF PlaceInv, ResumeRun, agents, health, Proceed, GoTo
<1>3. RowInv'
  BY DEF RowInv, TypeOK, ResumeRun, Proceed, GoTo, agents, health
<1>4. LineageInv'
  BY RunsAssumption DEF TypeOK, PlaceInv, LineageInv, Successors, Runs, None, ResumeRun
<1>5. KillsAreOwned'
  BY DEF KillsAreOwned, ResumeRun
<1> QED
  BY <1>1, <1>2, <1>3, <1>4, <1>5

LEMMA EscalateKeeps == ASSUME HealthInv, Escalate PROVE HealthInv'
<1> USE DEF HealthInv
<1>1. TypeOK'
  BY RunsAssumption DEF TypeOK, PlaceInv, Escalate, Proceed, GoTo, Steps, Runs, None, agents, health, lineage
<1>2. PlaceInv'
  BY DEF PlaceInv, Escalate, Proceed, GoTo, agents, health, lineage
<1>3. RowInv'
  BY DEF RowInv, Escalate, Proceed, GoTo, agents, health, lineage
<1>4. LineageInv'
  BY LineageKept DEF Escalate, lineage
<1>5. KillsAreOwned'
  BY DEF KillsAreOwned, Escalate
<1> QED
  BY <1>1, <1>2, <1>3, <1>4, <1>5

LEMMA NothingToCompleteKeeps == ASSUME HealthInv, NothingToComplete PROVE HealthInv'
<1> USE DEF HealthInv
<1>1. TypeOK'
  BY DEF TypeOK, NothingToComplete, Proceed, GoTo, Steps, db, agents, health, lineage
<1>2. PlaceInv'
  BY DEF PlaceInv, NothingToComplete, Proceed, GoTo, db, agents, health, lineage
<1>3. RowInv'
  BY DEF RowInv, NothingToComplete, Proceed, GoTo, db, agents, health, lineage
<1>4. LineageInv'
  BY LineageKept DEF NothingToComplete, db, lineage
<1>5. KillsAreOwned'
  BY DEF KillsAreOwned, NothingToComplete, db
<1> QED
  BY <1>1, <1>2, <1>3, <1>4, <1>5

LEMMA DeleteRowKeeps == ASSUME HealthInv, DeleteRow PROVE HealthInv'
<1> USE DEF HealthInv
<1>1. TypeOK'
  BY RunsAssumption, BoundsAssumption DEF TypeOK, PlaceInv, Runs, None, Steps, DeleteRow, agents, lineage, GoIdle, GoTo
<1>2. PlaceInv'
  BY DEF PlaceInv, DeleteRow, GoIdle, GoTo
<1>3. RowInv'
  BY RunsAssumption, BoundsAssumption DEF TypeOK, PlaceInv, RowInv, DeleteRow, GoIdle, GoTo, agents, lineage
<1>4. LineageInv'
  BY LineageKept DEF DeleteRow, lineage
<1>5. KillsAreOwned'
  BY DEF KillsAreOwned, DeleteRow
<1> QED
  BY <1>1, <1>2, <1>3, <1>4, <1>5

----------------------------------------------------------------------------
(* Diagnosis.                                                              *)

LEMMA ClaimDiagnosisKeeps == ASSUME HealthInv, NEW e \in Managed, ClaimDiagnosis(e) PROVE HealthInv'
<1> USE DEF HealthInv
<1>1. TypeOK'
  BY RunsAssumption, BoundsAssumption DEF TypeOK, PlaceInv, Runs, None, Steps, ClaimDiagnosis, lineage, GoTo, Idle
<1>2. PlaceInv'
  BY RunsAssumption DEF TypeOK, PlaceInv, None, ClaimDiagnosis, lineage, GoTo, Idle
<1>3. RowInv'
  BY RunsAssumption DEF RowInv, TypeOK, None, ClaimDiagnosis, lineage, GoTo, Idle
<1>4. LineageInv'
  BY LineageKept DEF ClaimDiagnosis, lineage
<1>5. KillsAreOwned'
  BY DEF KillsAreOwned, ClaimDiagnosis
<1> QED
  BY <1>1, <1>2, <1>3, <1>4, <1>5

LEMMA LaunchDiagnosisKeeps == ASSUME HealthInv, LaunchDiagnosis PROVE HealthInv'
<1> USE DEF HealthInv
<1>1. TypeOK'
  BY DEF TypeOK, PlaceInv, LaunchDiagnosis, GoIdle, GoTo, Steps, health, lineage
<1>2. PlaceInv'
  BY DEF PlaceInv, LaunchDiagnosis, GoIdle, GoTo
<1>3. RowInv'
  BY DEF RowInv, PlaceInv, LaunchDiagnosis, GoIdle, GoTo, health, lineage
<1>4. LineageInv'
  BY LineageKept DEF LaunchDiagnosis, lineage
<1>5. KillsAreOwned'
  BY DEF KillsAreOwned, LaunchDiagnosis
<1> QED
  BY <1>1, <1>2, <1>3, <1>4, <1>5

LEMMA LaunchFailsKeeps == ASSUME HealthInv, LaunchFails PROVE HealthInv'
<1> USE DEF HealthInv, LaunchFails, ReleaseLaunch
<1>1. TypeOK'
  BY DEF TypeOK, PlaceInv, GoIdle, GoTo, Fault, FaultKinds, Steps, lineage
<1>2. PlaceInv'
  BY DEF PlaceInv, GoIdle, GoTo
<1>3. RowInv'
  BY RunsAssumption DEF RowInv, PlaceInv, TypeOK, None, GoIdle, GoTo, lineage
<1>4. LineageInv'
  BY LineageKept DEF lineage
<1>5. KillsAreOwned'
  BY DEF KillsAreOwned, Fault
<1> QED
  BY <1>1, <1>2, <1>3, <1>4, <1>5

LEMMA LaunchLeavesRunKeeps == ASSUME HealthInv, LaunchLeavesRun PROVE HealthInv'
<1> USE DEF HealthInv, LaunchLeavesRun, ReleaseLaunch
<1>1. TypeOK'
  BY DEF TypeOK, PlaceInv, GoIdle, GoTo, Fault, FaultKinds, Steps, lineage
<1>2. PlaceInv'
  BY DEF PlaceInv, GoIdle, GoTo
<1>3. RowInv'
  BY RunsAssumption DEF RowInv, PlaceInv, TypeOK, None, GoIdle, GoTo, lineage
<1>4. LineageInv'
  BY LineageKept DEF lineage
<1>5. KillsAreOwned'
  BY DEF KillsAreOwned, Fault
<1> QED
  BY <1>1, <1>2, <1>3, <1>4, <1>5

LEMMA StoreDiagnosisKeeps == ASSUME HealthInv, NEW e \in Managed, StoreDiagnosis(e) PROVE HealthInv'
<1> USE DEF HealthInv
<1>1. TypeOK'
  <2>1. fails[e] \in 0..MaxDiagnoses /\ fails[e] < MaxDiagnoses
    BY DEF RowInv, StoreDiagnosis, Idle, TypeOK
  <2>2. fails' \in [Managed -> 0..MaxDiagnoses] /\ advice' \in [Managed -> Kills \cup {"continue", "none"}]
    BY <2>1, BoundsAssumption DEF TypeOK, StoreDiagnosis
  <2> QED
    BY <2>2 DEF TypeOK, StoreDiagnosis, GoTo, Steps, Runs, lineage, agents
<1>2. PlaceInv'
  BY RunsAssumption DEF TypeOK, PlaceInv, RowInv, None, Runs, StoreDiagnosis, agents, lineage, GoTo, Idle
<1>3. RowInv'
  BY RunsAssumption DEF TypeOK, RowInv, StoreDiagnosis, agents, lineage, GoTo, Idle
<1>4. LineageInv'
  BY LineageKept DEF StoreDiagnosis, lineage
<1>5. KillsAreOwned'
  BY DEF KillsAreOwned, StoreDiagnosis
<1> QED
  BY <1>1, <1>2, <1>3, <1>4, <1>5

LEMMA FinishDiagnosisKeeps == ASSUME HealthInv, FinishDiagnosis PROVE HealthInv'
<1> USE DEF HealthInv
<1>1. TypeOK'
  BY DEF TypeOK, PlaceInv, FinishDiagnosis, GoIdle, GoTo, Steps, lineage
<1>2. PlaceInv'
  BY DEF PlaceInv, FinishDiagnosis, GoIdle, GoTo
<1>3. RowInv'
  BY RunsAssumption DEF TypeOK, PlaceInv, RowInv, None, FinishDiagnosis, lineage, GoIdle, GoTo
<1>4. LineageInv'
  BY LineageKept DEF FinishDiagnosis, lineage
<1>5. KillsAreOwned'
  BY DEF KillsAreOwned, FinishDiagnosis
<1> QED
  BY <1>1, <1>2, <1>3, <1>4, <1>5

LEMMA DiagnosisWithoutRowKeeps == ASSUME HealthInv, NEW e \in Managed, DiagnosisWithoutRow(e) PROVE HealthInv'
<1> USE DEF HealthInv
<1>1. TypeOK'
  BY DEF TypeOK, DiagnosisWithoutRow, agents, health, lineage
<1>2. PlaceInv'
  BY DEF PlaceInv, DiagnosisWithoutRow, Idle
<1>3. RowInv'
  BY DEF RowInv, DiagnosisWithoutRow, agents, health, lineage
<1>4. LineageInv'
  BY LineageKept DEF DiagnosisWithoutRow, lineage
<1>5. KillsAreOwned'
  BY DEF KillsAreOwned, DiagnosisWithoutRow
<1> QED
  BY <1>1, <1>2, <1>3, <1>4, <1>5

LEMMA CleanupFailsKeeps == ASSUME HealthInv, CleanupFails PROVE HealthInv'
<1> USE DEF HealthInv
<1>1. TypeOK'
  BY DEF TypeOK, CleanupFails, agents, health, lineage
<1>2. PlaceInv'
  BY DEF PlaceInv, CleanupFails, Idle
<1>3. RowInv'
  BY DEF RowInv, CleanupFails, agents, health, lineage
<1>4. LineageInv'
  BY LineageKept DEF CleanupFails, lineage
<1>5. KillsAreOwned'
  BY DEF KillsAreOwned, CleanupFails
<1> QED
  BY <1>1, <1>2, <1>3, <1>4, <1>5

----------------------------------------------------------------------------
(* Termination.                                                            *)

LEMMA ClaimKillKeeps == ASSUME HealthInv, NEW r \in Runs, NEW o \in Origins, ClaimKill(r, o) PROVE HealthInv'
<1> USE DEF HealthInv
<1>1. TypeOK'
  <2>1. req' \in [Runs -> [Origins -> Statuses]]
    BY SetAt DEF ClaimKill, Statuses
  <2> QED
    BY <2>1 DEF TypeOK, ClaimKill, GoTo, Steps, agents, health, lineage
<1>2. PlaceInv'
  <2>1. \A q \in ListedAs(Owner(r)) : q = r
    BY RunsAssumption DEF ClaimKill, Signed, Running, TypeOK, LineageInv, ListedAs, Listed, SameId, Owner, Runs
  <2>2. /\ step' = "killing" /\ cur' = r /\ src' = o /\ src' # None /\ cur' # None
        /\ req'[r][o] = "dispatching" /\ daemon' = "up"
    BY SetAt, RunsAssumption DEF ClaimKill, GoTo, Idle, Statuses, Origins, None, Runs
  <2>3. ListedAs(Owner(cur))' = ListedAs(Owner(r))
    BY <2>2 DEF ClaimKill, ListedAs, Listed, SameId, Owner
  <2> QED
    BY <2>1, <2>2, <2>3 DEF PlaceInv
<1>3. RowInv'
  BY DEF RowInv, ClaimKill, GoTo, Idle, agents, health, lineage
<1>4. LineageInv'
  <2>1. \A q \in Runs, p \in Origins :
            req'[q][p] # "none" => req[q][p] # "none" \/ task[q] # "none"
    BY SetAt DEF ClaimKill, Signed, Running, Statuses
  <2> QED
    BY <2>1, LineageKept DEF ClaimKill, lineage
<1>5. KillsAreOwned'
  BY RunsAssumption DEF TypeOK, KillsAreOwned, ClaimKill, SetRequest
<1> QED
  BY <1>1, <1>2, <1>3, <1>4, <1>5

LEMMA KillKeeps == ASSUME HealthInv, Kill PROVE HealthInv'
<1> USE DEF HealthInv
<1>1. TypeOK'
  <2>1. PICK r \in Runs : task' = [task EXCEPT ![r] = "signalled"] /\ hit' = hit \cup {r}
    BY DEF Kill, ListedAs
  <2>2. step' \in {"kill_sent", "kill_failed"} /\ UNCHANGED <<cur, src>>
    BY DEF Kill, Proceed, GoTo
  <2> QED
    BY <2>1, <2>2 DEF TypeOK, Kill, Steps, db, lineage, health, agents
<1>2. PlaceInv'
  BY RunsAssumption DEF PlaceInv, Kill, db, agents, health, lineage, Proceed, GoTo
<1>3. RowInv'
  BY DEF RowInv, Kill, db, agents, health, lineage, Proceed, GoTo
<1>4. LineageInv'
  BY LineageKept DEF Kill, db, lineage, ListedAs, Listed, TypeOK
<1>5. KillsAreOwned'
  BY RunsAssumption DEF TypeOK, PlaceInv, KillsAreOwned, Kill, db, Proceed, GoTo
<1> QED
  BY <1>1, <1>2, <1>3, <1>4, <1>5

LEMMA KillFailsKeeps == ASSUME HealthInv, KillFails PROVE HealthInv'
<1> USE DEF HealthInv
<1>1. TypeOK'
  BY DEF TypeOK, KillFails, Proceed, GoTo, Steps, db, agents, health, lineage
<1>2. PlaceInv'
  BY DEF PlaceInv, KillFails, Proceed, GoTo, db
<1>3. RowInv'
  BY DEF RowInv, KillFails, db, agents, health, lineage, Proceed, GoTo
<1>4. LineageInv'
  BY LineageKept DEF KillFails, db, lineage
<1>5. KillsAreOwned'
  BY DEF KillsAreOwned, KillFails, db
<1> QED
  BY <1>1, <1>2, <1>3, <1>4, <1>5

LEMMA MarkKillKeeps == ASSUME HealthInv, MarkKill PROVE HealthInv'
<1> USE DEF HealthInv
<1>1. TypeOK'
  <2>1. cur \in Runs /\ src \in Origins
    BY DEF MarkKill, TypeOK, PlaceInv
  <2>2. req' \in [Runs -> [Origins -> Statuses]]
    BY <2>1, SetAt DEF MarkKill, Statuses
  <2> QED
    BY <2>2 DEF TypeOK, MarkKill, GoIdle, GoTo, Steps, agents, health, lineage
<1>2. PlaceInv'
  BY DEF PlaceInv, MarkKill, GoIdle, GoTo
<1>3. RowInv'
  BY DEF RowInv, MarkKill, GoIdle, GoTo, agents, health, lineage
<1>4. LineageInv'
  <2>1. \A q \in Runs, p \in Origins : req'[q][p] # "none" => req[q][p] # "none"
    <3>1. cur \in Runs /\ src \in Origins /\ req[cur][src] = "dispatching"
      BY DEF MarkKill, TypeOK, PlaceInv
    <3>2. \E t \in {"sent", "failed"} : SetRequest(cur, src, t)
      BY DEF MarkKill
    <3> QED
      BY <3>1, <3>2, SetAt DEF Statuses
  <2> QED
    BY <2>1, LineageKept DEF MarkKill, lineage
<1>5. KillsAreOwned'
  BY RunsAssumption DEF TypeOK, PlaceInv, KillsAreOwned, MarkKill, SetRequest
<1> QED
  BY <1>1, <1>2, <1>3, <1>4, <1>5

----------------------------------------------------------------------------
(* The repairs of a lineage.                                               *)

LEMMA FreshRepair == ASSUME HealthInv, RepairsFit, ResumeRun PROVE RepairsFit' /\ StaysResumed
<1> USE DEF HealthInv
<1> DEFINE s == CHOOSE x \in Managed : exp[x] = "none"
<1>1. s \in Managed /\ exp[s] = "none" /\ parent[s] = None /\ Successors(s) = {}
  BY DEF ResumeRun, LineageInv
<1>2. cur \in Managed /\ exp[cur] = "ended" /\ Successors(cur) = {} /\ Cardinality(Repairs) < MaxRepairs
  BY DEF ResumeRun, PlaceInv, Completes, MayResume
<1>3. \A e \in Managed : /\ parent'[e] = IF e = s THEN cur ELSE parent[e]
                         /\ exp'[e] = IF e = s THEN "reserved" ELSE exp[e]
  BY DEF ResumeRun, TypeOK
<1> HIDE DEF s
<1>4. /\ Repairs' = Repairs \cup {s} /\ s \notin Repairs
      /\ \A e \in Managed : Successors(e)' = IF e = cur THEN {s} ELSE Successors(e)
  BY <1>1, <1>2, <1>3, RunsAssumption DEF Repairs, Successors
<1>5. Cardinality(Repairs') = Cardinality(Repairs) + 1 /\ Cardinality(Repairs) \in Nat /\ Cardinality({s}) = 1
  <2>1. IsFiniteSet(Repairs)
    BY RunsAssumption, FS_Subset DEF Repairs
  <2> QED
    BY <1>4, <2>1, FS_AddElement, FS_CardinalityType, FS_Singleton
<1>6. \A x \in Repairs' : exp'[parent'[x]] = "ended"
  BY <1>1, <1>2, <1>3, <1>4 DEF RepairsFit, Repairs, TypeOK
<1>7. RepairsFit'
  <2>1. \A e \in Managed : Cardinality(Successors(e)') <= 1
    BY <1>4, <1>5 DEF RepairsFit
  <2>2. Cardinality(Repairs') <= MaxRepairs
    BY <1>2, <1>5, BoundsAssumption
  <2> QED
    BY <1>6, <2>1, <2>2 DEF RepairsFit
<1>8. StaysResumed
  BY <1>2, <1>4 DEF StaysResumed, ResumeRun
<1> QED
  BY <1>7, <1>8

LEMMA OtherSteps ==
    ASSUME HealthInv, Next, ~ResumeRun
    PROVE  /\ parent' = parent
           /\ \A e \in Managed : exp[e] = "ended" => exp'[e] = "ended"
           /\ \A e \in escalated' : e \in escalated \/ (e = cur /\ Completes(cur))
<1> USE DEF HealthInv
<1>1. CASE Environment
  BY <1>1 DEF Environment, TaskEnds, UserKills, UserPauses, UserResumes, UserCleans, IdIsReused, PauseCampaign,
     ResumeCampaign, Crash, db, lineage
<1>2. CASE Restart
  BY <1>2 DEF Restart, lineage
<1>3. CASE Detection
  BY <1>3 DEF Detection, Observe, PolicyAsksKill, lineage
<1>4. CASE ProjectTerminal
  BY <1>4 DEF ProjectTerminal, TypeOK
<1>5. CASE Escalate
  BY <1>5 DEF Escalate, lineage
<1>6. CASE Round /\ ~ProjectTerminal /\ ~Escalate
  BY <1>6 DEF Round, RegisterRunning, ConfirmKill, NothingToComplete, DeleteRow,
     ContinueRun, DiagnosisAsksKill, RequeueInterrupted, ClaimDiagnosis, StoreDiagnosis, DiagnosisWithoutRow,
     LaunchDiagnosis, LaunchFails, LaunchLeavesRun, ReleaseLaunch, FinishDiagnosis, NotRunning, ClaimKill,
     KillTimesOut, Kill, KillFails, MarkKill, db, lineage
<1>7. CASE CleanupFails
  BY <1>7 DEF CleanupFails, lineage
<1> QED
  BY <1>1, <1>2, <1>3, <1>4, <1>5, <1>6, <1>7 DEF Next

LEMMA StepFits == ASSUME HealthInv, RepairsFit, [Next]_vars PROVE RepairsFit' /\ StaysResumed
<1>1. CASE ResumeRun
  BY <1>1, FreshRepair
<1>2. CASE ~ResumeRun
  <2>1. /\ parent' = parent
        /\ \A e \in Managed : exp[e] = "ended" => exp'[e] = "ended"
        /\ \A e \in escalated' : e \in escalated \/ (e = cur /\ Completes(cur))
    BY <1>2, OtherSteps DEF vars
  <2>2. Repairs' = Repairs /\ \A e \in Managed : Successors(e)' = Successors(e)
    BY <2>1 DEF Repairs, Successors
  <2>3. \A s \in Repairs : parent[s] \in Managed
    BY DEF HealthInv, TypeOK, Repairs
  <2>4. RepairsFit'
    BY <2>1, <2>2, <2>3 DEF RepairsFit
  <2>5. StaysResumed
    BY <2>1, <2>2 DEF StaysResumed, Completes
  <2> QED
    BY <2>4, <2>5
<1> QED
  BY <1>1, <1>2

----------------------------------------------------------------------------

LEMMA StutterKeeps == ASSUME HealthInv, UNCHANGED vars PROVE HealthInv'
  BY CampaignMoves DEF vars, lineage, health, agents, place, HealthInv, TypeOK

LEMMA NextKeeps == ASSUME HealthInv, [Next]_vars PROVE HealthInv'
<1>1. CASE Environment
  BY <1>1, TaskSteps, IdIsReusedKeeps, CampaignSteps, CrashKeeps DEF Environment
<1>2. CASE Restart
  BY <1>2, RestartKeeps
<1>3. CASE Detection
  BY <1>3, RowSteps, RequestSteps DEF Detection, Origins
<1>4. CASE Round
  BY <1>4, RowSteps, RequestSteps, DiagnosisAsksKillKeeps, ConfirmKillKeeps, ProjectTerminalKeeps,
     ResumeRunKeeps, EscalateKeeps, NothingToCompleteKeeps, DeleteRowKeeps, ClaimDiagnosisKeeps,
     StoreDiagnosisKeeps, DiagnosisWithoutRowKeeps, LaunchDiagnosisKeeps, LaunchFailsKeeps,
     LaunchLeavesRunKeeps, FinishDiagnosisKeeps, ClaimKillKeeps, KillKeeps, KillFailsKeeps, MarkKillKeeps DEF Round
<1>5. CASE CleanupFails
  BY <1>5, CleanupFailsKeeps
<1>6. CASE UNCHANGED vars
  BY <1>6, StutterKeeps
<1> QED
  BY <1>1, <1>2, <1>3, <1>4, <1>5, <1>6 DEF Next

\* Rows, requests, lineages and the daemon's place in a handler agree in every
\* reachable state, for any number of experiments, foreign runs and attempts
\* (the rows of db/running_health.rs, the requests of termination.rs).
THEOREM HealthAgrees == Spec => []HealthInv
<1>1. Init => HealthInv
  BY InitInv
<1>2. HealthInv /\ [Next]_vars => HealthInv'
  BY NextKeeps
<1> QED
  BY <1>1, <1>2, PTL DEF Spec

\* A kill of the daemon reaches only a run that a request names, unless its id
\* is given away between the comparison and the kill (execute of
\* termination.rs).
THEOREM OnlyNamedRunsAreKilled == Spec => []KillsAreOwned
<1>1. HealthInv => KillsAreOwned
  BY DEF HealthInv
<1> QED
  BY <1>1, HealthAgrees, PTL

\* Repairs stay within the limit, and an experiment that was resumed is neither
\* resumed again nor escalated, whatever crashes and repeated projections there
\* are (handle_terminal_projection of health.rs).
THEOREM RepairsAreLimited == Spec => ResumesFit
<1>1. Init => HealthInv /\ RepairsFit
  BY InitInv
<1>2. HealthInv /\ RepairsFit /\ [Next]_vars => HealthInv' /\ RepairsFit'
  BY NextKeeps, StepFits
<1>3. HealthInv /\ RepairsFit /\ [Next]_vars => [StaysResumed]_vars
  BY StepFits
<1> QED
  BY <1>1, <1>2, <1>3, PTL DEF Spec, ResumesFit
----------------------------------------------------------------------------
(* The attempts of a diagnosis.                                            *)

attempts == <<fails, spent, agent, released>>

LEMMA InitHeld == Init => AttemptsAreHeld
<1> SUFFICES ASSUME Init PROVE AttemptsAreHeld
  OBVIOUS
<1>1. \A e \in Managed : spent[e] = 0..(0 - 1) /\ fails[e] <= 0
  BY DEF Init
<1>2. 0 \in 0..MaxDiagnoses
  BY BoundsAssumption
<1> QED
  BY <1>1, <1>2 DEF Init, AttemptsAreHeld

\* A step that leaves the attempts alone, and does not begin a launch or leave
\* a place where the agent's attempt is already counted.
LEMMA AttemptsKept ==
    ASSUME AttemptsAreHeld, UNCHANGED attempts, faults \subseteq faults',
           step' = "launching" => step = "launching" /\ cur' = cur,
           step' # "stored" /\ daemon' = "up" => step # "stored" /\ daemon = "up"
    PROVE  AttemptsAreHeld'
BY DEF AttemptsAreHeld, attempts

\* The events of one experiment change, and its count of failures.
LEMMA AttemptsOf ==
    ASSUME TypeOK, AttemptsAreHeld, NEW e \in Managed, NEW n \in 0..MaxDiagnoses,
           spent' \in [Managed -> SUBSET (0..MaxDiagnoses - 1)],
           \A d \in Managed \ {e} : spent'[d] = spent[d] /\ fails'[d] = fails[d],
           spent'[e] = 0..(n - 1), fails'[e] <= n
    PROVE  \A d \in Managed : \E m \in 0..MaxDiagnoses :
               spent'[d] = 0..(m - 1) /\ fails'[d] <= m
BY DEF AttemptsAreHeld

LEMMA ClaimHolds ==
    ASSUME HealthInv, AttemptsAreHeld, NEW e \in Managed, ClaimDiagnosis(e)
    PROVE  AttemptsAreHeld'
<1> USE DEF HealthInv, ClaimDiagnosis
<1>1. PICK n \in 0..MaxDiagnoses : spent[e] = 0..(n - 1) /\ fails[e] <= n
  BY DEF AttemptsAreHeld
<1>2. fails[e] \in Nat /\ fails[e] = n /\ MaxDiagnoses \in Nat
  BY <1>1, BoundsAssumption DEF TypeOK
<1>3. spent'[e] = 0..n /\ \A d \in Managed \ {e} : spent'[d] = spent[d]
  BY <1>1, <1>2 DEF TypeOK
<1>4. spent' \in [Managed -> SUBSET (0..MaxDiagnoses - 1)]
  BY <1>2 DEF TypeOK
<1>5. \A d \in Managed : \E m \in 0..MaxDiagnoses : spent'[d] = 0..(m - 1) /\ fails'[d] <= m
  <2>1. n + 1 \in 0..MaxDiagnoses /\ (n + 1) - 1 = n /\ fails'[e] <= n + 1
    BY <1>2
  <2> QED
    BY <1>3, <1>4, <2>1, AttemptsOf
<1>6. ~released
  BY DEF AttemptsAreHeld
<1> QED
  BY <1>2, <1>3, <1>5, <1>6 DEF AttemptsAreHeld, GoTo

\* A launch is given up, by the daemon or by its end, and its event with it.
LEMMA GivenBack ==
    ASSUME HealthInv, AttemptsAreHeld, step = "launching",
           spent' = [spent EXCEPT ![cur] = @ \ {fails[cur]}], fails' = fails
    PROVE  \A d \in Managed : \E m \in 0..MaxDiagnoses : spent'[d] = 0..(m - 1) /\ fails'[d] <= m
<1> USE DEF HealthInv
<1>1. cur \in Managed /\ fails[cur] \in 0..MaxDiagnoses /\ spent[cur] = 0..fails[cur]
  BY DEF PlaceInv, TypeOK, AttemptsAreHeld
<1>2. /\ spent'[cur] = spent[cur] \ {fails[cur]}
      /\ \A d \in Managed \ {cur} : spent'[d] = spent[d]
      /\ spent' \in [Managed -> SUBSET (0..MaxDiagnoses - 1)]
  BY <1>1 DEF TypeOK
<1>3. spent'[cur] = 0..(fails[cur] - 1) /\ fails'[cur] <= fails[cur]
  BY <1>1, <1>2, BoundsAssumption
<1> QED
  BY <1>1, <1>2, <1>3, AttemptsOf

LEMMA LaunchHolds ==
    ASSUME HealthInv, AttemptsAreHeld, LaunchDiagnosis \/ LaunchFails \/ LaunchLeavesRun
    PROVE  AttemptsAreHeld'
<1>1. /\ step = "launching" /\ step' = "idle" /\ fails' = fails
      /\ cur \in Managed /\ agent = None /\ ~released
  BY DEF LaunchDiagnosis, LaunchFails, LaunchLeavesRun, ReleaseLaunch, GoIdle, GoTo,
     health, HealthInv, PlaceInv, AttemptsAreHeld
<1>2. CASE LaunchDiagnosis
  <2>1. spent[cur] = 0..fails[cur] /\ fails[cur] \in Nat
    BY <1>1, BoundsAssumption DEF AttemptsAreHeld, HealthInv, TypeOK
  <2>2. fails[cur] \in spent[cur]
    BY <2>1
  <2> QED
    BY <1>1, <1>2, <2>2 DEF LaunchDiagnosis, AttemptsAreHeld
<1>3. CASE LaunchFails \/ LaunchLeavesRun
  <2>1. \A d \in Managed : \E m \in 0..MaxDiagnoses : spent'[d] = 0..(m - 1) /\ fails'[d] <= m
    BY <1>1, <1>3, GivenBack DEF LaunchFails, LaunchLeavesRun, ReleaseLaunch
  <2>2. \/ agent' = None /\ ~released'
        \/ agent' = cur /\ cur # None /\ released' /\ "launch_failed" \in faults'
    BY <1>1, <1>3, RunsAssumption DEF LaunchFails, LaunchLeavesRun, ReleaseLaunch, Fault
  <2> QED
    BY <1>1, <2>1, <2>2 DEF AttemptsAreHeld
<1> QED
  BY <1>2, <1>3

LEMMA CrashHolds == ASSUME HealthInv, AttemptsAreHeld, Crash PROVE AttemptsAreHeld'
<1>1. /\ fails' = fails /\ step' = "idle" /\ daemon' = "down" /\ UNCHANGED <<agent, released>>
      /\ faults \subseteq faults'
  BY DEF Crash, GoIdle, GoTo, health, Fault
<1>2. \/ spent' = spent
      \/ step = "launching" /\ spent' = [spent EXCEPT ![cur] = @ \ {fails[cur]}]
  BY DEF Crash
<1>3. \A d \in Managed : \E m \in 0..MaxDiagnoses : spent'[d] = 0..(m - 1) /\ fails'[d] <= m
  BY <1>1, <1>2, GivenBack DEF AttemptsAreHeld
<1> QED
  BY <1>1, <1>3 DEF AttemptsAreHeld

\* The outcome of an agent is stored: its failure is one of the spent attempts.
LEMMA StoreHolds ==
    ASSUME HealthInv, AttemptsAreHeld, NEW e \in Managed, StoreDiagnosis(e)
    PROVE  AttemptsAreHeld'
<1> USE DEF HealthInv
<1>1. PICK n \in 0..MaxDiagnoses : spent[e] = 0..(n - 1) /\ fails[e] <= n
  BY DEF AttemptsAreHeld
<1>2. agent = e /\ e # None /\ ~released /\ fails[e] \in spent[e] /\ fails[e] \in Nat
  BY RunsAssumption, BoundsAssumption DEF StoreDiagnosis, Idle, AttemptsAreHeld, TypeOK
<1>3. fails[e] + 1 <= n /\ 0 <= n /\ n \in Nat
  BY <1>1, <1>2, BoundsAssumption
<1>4. /\ fails'[e] \in {0, fails[e] + 1} /\ \A d \in Managed \ {e} : fails'[d] = fails[d]
      /\ spent' = spent /\ step' = "stored" /\ UNCHANGED <<agent, released, faults>>
  BY DEF StoreDiagnosis, TypeOK, agents, GoTo
<1>5. \A d \in Managed : \E m \in 0..MaxDiagnoses : spent'[d] = 0..(m - 1) /\ fails'[d] <= m
  BY <1>1, <1>3, <1>4, AttemptsOf DEF TypeOK
<1> QED
  BY <1>2, <1>4, <1>5 DEF AttemptsAreHeld

\* The row of a run that ended goes, and its count with it.
LEMMA DeleteHolds == ASSUME HealthInv, AttemptsAreHeld, DeleteRow PROVE AttemptsAreHeld'
<1> USE DEF HealthInv
<1>1. /\ step = "followed" /\ daemon = "up" /\ cur \in Managed
      /\ step' = "idle" /\ UNCHANGED <<spent, agent, released, faults>>
  BY DEF DeleteRow, GoIdle, GoTo, agents, PlaceInv, TypeOK
<1>2. /\ fails'[cur] \in {0, fails[cur]} /\ \A d \in Managed \ {cur} : fails'[d] = fails[d]
  BY <1>1 DEF DeleteRow, TypeOK
<1>3. PICK n \in 0..MaxDiagnoses : spent[cur] = 0..(n - 1) /\ fails[cur] <= n
  BY <1>1 DEF AttemptsAreHeld
<1>4. 0 <= n /\ n \in Nat /\ fails[cur] \in Nat
  BY <1>1, BoundsAssumption DEF TypeOK
<1>5. \A d \in Managed : \E m \in 0..MaxDiagnoses : spent'[d] = 0..(m - 1) /\ fails'[d] <= m
  BY <1>1, <1>2, <1>3, <1>4, AttemptsOf DEF TypeOK
<1>6. (agent # None /\ ~released) => fails'[agent] \in spent[agent]
  <2>1. ASSUME agent # None, ~released PROVE fails'[agent] \in spent[agent]
    <3>1. agent \in Managed /\ fails[agent] \in spent[agent]
      BY <1>1, <2>1 DEF AttemptsAreHeld, TypeOK
    <3>2. CASE agent = cur
      BY <1>2, <1>3, <1>4, <3>1, <3>2
    <3> QED
      BY <1>2, <3>1, <3>2
  <2> QED
    BY <2>1
<1> QED
  BY <1>1, <1>5, <1>6 DEF AttemptsAreHeld

\* An agent is gone: it finished, or startup recovery ended its run.
LEMMA AgentGoneHolds ==
    ASSUME HealthInv, AttemptsAreHeld, FinishDiagnosis \/ Restart
    PROVE  AttemptsAreHeld'
<1>1. /\ agent' = None /\ UNCHANGED <<fails, spent, released, faults>>
      /\ ~released /\ step' = "idle"
  BY DEF FinishDiagnosis, Restart, GoIdle, GoTo, health, HealthInv, PlaceInv
<1> QED
  BY <1>1 DEF AttemptsAreHeld

\* The other steps leave the attempts alone.
LEMMA OthersHold ==
    ASSUME HealthInv, AttemptsAreHeld,
           \/ Environment /\ ~Crash
           \/ Detection \/ CleanupFails
           \/ \E r \in Runs : RegisterRunning(r) \/ ConfirmKill(r)
           \/ ProjectTerminal \/ ResumeRun \/ Escalate \/ NothingToComplete
           \/ \E e \in Managed : \/ ContinueRun(e) \/ DiagnosisAsksKill(e)
                                 \/ RequeueInterrupted(e) \/ DiagnosisWithoutRow(e)
           \/ \E r \in Runs, o \in Origins : NotRunning(r, o) \/ ClaimKill(r, o) \/ KillTimesOut(r, o)
           \/ Kill \/ KillFails \/ MarkKill
    PROVE  AttemptsAreHeld'
<1>1. UNCHANGED attempts /\ faults \subseteq faults'
  BY DEF Environment, TaskEnds, UserKills, UserPauses, UserResumes, UserCleans, IdIsReused,
     PauseCampaign, ResumeCampaign, Detection, Observe, PolicyAsksKill, CleanupFails,
     RegisterRunning, ConfirmKill, ProjectTerminal, ResumeRun, Escalate, NothingToComplete,
     ContinueRun, DiagnosisAsksKill, RequeueInterrupted, DiagnosisWithoutRow, NotRunning,
     ClaimKill, KillTimesOut, Kill, KillFails, MarkKill, Fault, db, health, agents, attempts
<1>2. /\ step' = "launching" => step = "launching" /\ cur' = cur
      /\ step' # "stored" /\ daemon' = "up" => step # "stored" /\ daemon = "up"
  BY DEF Environment, TaskEnds, UserKills, UserPauses, UserResumes, UserCleans, IdIsReused,
     PauseCampaign, ResumeCampaign, Detection, Observe, PolicyAsksKill, CleanupFails,
     RegisterRunning, ConfirmKill, ProjectTerminal, ResumeRun, Escalate, NothingToComplete,
     ContinueRun, DiagnosisAsksKill, RequeueInterrupted, DiagnosisWithoutRow, NotRunning,
     ClaimKill, KillTimesOut, Kill, KillFails, MarkKill, place, Idle, GoIdle, GoTo, Proceed,
     HealthInv, PlaceInv, TypeOK
<1> QED
  BY <1>1, <1>2, AttemptsKept

LEMMA NextHolds == ASSUME HealthInv, AttemptsAreHeld, [Next]_vars PROVE AttemptsAreHeld'
<1>1. CASE Environment
  BY <1>1, CrashHolds, OthersHold
<1>2. CASE Restart
  BY <1>2, AgentGoneHolds
<1>3. CASE Detection \/ CleanupFails
  BY <1>3, OthersHold
<1>4. CASE Round
  BY <1>4, ClaimHolds, LaunchHolds, StoreHolds, DeleteHolds, AgentGoneHolds, OthersHold DEF Round
<1>5. CASE UNCHANGED vars
  BY <1>5, AttemptsKept DEF vars, attempts
<1> QED
  BY <1>1, <1>2, <1>3, <1>4, <1>5 DEF Next

\* For any number of experiments and attempts: an event that is given back is
\* the last one, and never that of a live agent or of a counted failure; only a
\* launch that fails and leaves its run takes the event from under an agent
\* (release_claimed_event and run_due_diagnoses of health_diagnosis.rs).
THEOREM AttemptsStayHeld == Spec => []AttemptsAreHeld
<1>1. Init => AttemptsAreHeld
  BY InitHeld
<1>2. HealthInv /\ AttemptsAreHeld /\ [Next]_vars => AttemptsAreHeld'
  BY NextHolds
<1> QED
  BY <1>1, <1>2, HealthAgrees, PTL DEF Spec
----------------------------------------------------------------------------
(* The refinement of KillDelivery: every step moves one run, one request,  *)
(* or nothing that KillDelivery speaks of.                                 *)

lives    == [r \in Runs |-> LifeOf(r)]
requests == [r \in Runs |-> [o \in Origins |-> RequestOf(req[r][o])]]

DeliveryStep ==
    \/ Delivery!KillNext
    \/ UNCHANGED <<lives, requests, hit, "id_reused" \in faults, Resumed, escalated>>

LEMMA LivesKept == ASSUME UNCHANGED task PROVE UNCHANGED lives
BY DEF lives, LifeOf

LEMMA RequestsKept == ASSUME UNCHANGED req PROVE UNCHANGED requests
BY DEF requests

LEMMA ResumedKept == ASSUME UNCHANGED parent PROVE UNCHANGED Resumed
BY DEF Resumed, Successors

LEMMA QuietStep ==
    ASSUME UNCHANGED <<task, req, hit, parent, escalated>>,
           UNCHANGED ("id_reused" \in faults)
    PROVE  DeliveryStep
BY LivesKept, RequestsKept, ResumedKept DEF DeliveryStep

LEMMA LifeMoves ==
    ASSUME TypeOK, NEW r \in Runs, NEW s, task' = [task EXCEPT ![r] = s]
    PROVE  lives' = [lives EXCEPT ![r] = LifeOf(r)']
BY DEF lives, LifeOf, TypeOK

\* A request moves as KillDelivery's Turn, whatever handler moves it.
LEMMA RequestTurns ==
    ASSUME TypeOK, NEW r \in Runs, NEW o \in Origins, NEW s \in Statuses,
           SetRequest(r, o, s), UNCHANGED <<task, hit, faults, parent, escalated>>
    PROVE  Delivery!Turn(r, o, RequestOf(req[r][o]), RequestOf(s))
<1>1. \A q \in Runs, p \in Origins :
          req'[q][p] = IF q = r /\ p = o THEN s ELSE req[q][p]
  BY SetAt
<1>2. requests' = [requests EXCEPT ![r][o] = RequestOf(s)]
  <2> DEFINE R == [requests EXCEPT ![r][o] = RequestOf(s)]
  <2>1. \A q \in Runs : requests'[q] = [p \in Origins |-> RequestOf(req'[q][p])]
    BY DEF requests
  <2>2. \A q \in Runs : R[q] = [p \in Origins |-> IF q = r /\ p = o THEN RequestOf(s)
                                                  ELSE RequestOf(req[q][p])]
    BY DEF requests
  <2>3. ASSUME NEW q \in Runs PROVE requests'[q] = R[q]
    <3>1. \A p \in Origins :
              RequestOf(req'[q][p]) = IF q = r /\ p = o THEN RequestOf(s) ELSE RequestOf(req[q][p])
      BY <1>1
    <3> HIDE DEF R
    <3> QED
      BY <2>1, <2>2, <3>1
  <2>4. /\ requests' = [q \in Runs |-> requests'[q]]
        /\ R = [q \in Runs |-> R[q]]
    BY DEF requests
  <2> HIDE DEF R
  <2>5. requests' = R
    BY <2>3, <2>4
  <2> QED
    BY <2>5 DEF R
<1>3. requests[r][o] = RequestOf(req[r][o])
  BY DEF requests
<1> QED
  BY <1>2, <1>3, LivesKept, ResumedKept DEF Delivery!Turn, lives, requests
----------------------------------------------------------------------------
(* Steps of a task.                                                        *)

LEMMA TaskStepsDeliver ==
    ASSUME HealthInv, NEW r \in Runs,
           TaskEnds(r) \/ UserKills(r) \/ UserPauses(r) \/ UserResumes(r) \/ UserCleans(r)
    PROVE  DeliveryStep
<1>1. TypeOK /\ UNCHANGED <<req, hit, parent, escalated>> /\ UNCHANGED <<requests, Resumed>>
  BY RequestsKept, ResumedKept
  DEF HealthInv, TaskEnds, UserKills, UserPauses, UserResumes, UserCleans, db, lineage
<1>2. UNCHANGED ("id_reused" \in faults)
  BY DEF TaskEnds, UserKills, UserPauses, UserResumes, UserCleans, Fault
<1>3. CASE UserPauses(r) \/ UserResumes(r)
  <2>1. LifeOf(r)' = LifeOf(r) /\ \E s : task' = [task EXCEPT ![r] = s]
    BY <1>1, <1>3 DEF UserPauses, UserResumes, LifeOf, TypeOK
  <2>2. UNCHANGED lives
    BY <1>1, <2>1, LifeMoves DEF lives
  <2> QED
    BY <1>1, <1>2, <2>2 DEF DeliveryStep
<1>4. CASE TaskEnds(r) \/ UserKills(r)
  <2>1. LifeOf(r) = "live" /\ LifeOf(r)' \in {"done", "killed"} /\ \E s : task' = [task EXCEPT ![r] = s]
    BY <1>1, <1>4 DEF TaskEnds, UserKills, Running, LifeOf, TypeOK
  <2>2. lives[r] = "live" /\ \E s \in {"done", "killed"} : lives' = [lives EXCEPT ![r] = s]
    BY <1>1, <2>1, LifeMoves DEF lives
  <2>3. Delivery!End(r)
    BY <1>1, <1>2, <2>2 DEF Delivery!End, Delivery!Live, lives, requests
  <2> QED
    BY <2>3 DEF DeliveryStep, Delivery!KillNext
<1>5. CASE UserCleans(r)
  <2>1. LifeOf(r) \in {"done", "killed"} /\ LifeOf(r)' = "gone" /\ \E s : task' = [task EXCEPT ![r] = s]
    BY <1>1, <1>5 DEF UserCleans, Terminal, LifeOf, TypeOK
  <2>2. lives[r] \in {"done", "killed"} /\ lives' = [lives EXCEPT ![r] = "gone"]
    BY <1>1, <2>1, LifeMoves DEF lives
  <2>3. Delivery!End(r)
    BY <1>1, <1>2, <2>2 DEF Delivery!End, Delivery!Over, lives, requests
  <2> QED
    BY <2>3 DEF DeliveryStep, Delivery!KillNext
<1> QED
  BY <1>3, <1>4, <1>5

LEMMA IdIsReusedDelivers == ASSUME HealthInv, NEW f \in Foreign, IdIsReused(f) PROVE DeliveryStep
<1>1. TypeOK /\ f \in Runs /\ UNCHANGED <<req, hit, parent, escalated>> /\ UNCHANGED <<requests, Resumed>>
  BY RequestsKept, ResumedKept DEF HealthInv, IdIsReused, db, lineage, Runs
<1>2. ("id_reused" \in faults)' \in {"id_reused" \in faults, TRUE}
  BY DEF IdIsReused, Fault
<1>3. LifeOf(f) = "none" /\ LifeOf(f)' = "live" /\ task' = [task EXCEPT ![f] = "running"]
  BY <1>1 DEF IdIsReused, LifeOf, TypeOK
<1>4. lives[f] = "none" /\ lives' = [lives EXCEPT ![f] = "live"]
  BY <1>1, <1>3, LifeMoves DEF lives
<1>5. Delivery!Begin(f)
  BY <1>1, <1>2, <1>4 DEF Delivery!Begin, lives, requests
<1> QED
  BY <1>1, <1>5 DEF DeliveryStep, Delivery!KillNext

\* The kill goes to an id, and the run that it reaches is the one in hand.
LEMMA KillDelivers == ASSUME HealthInv, Kill PROVE DeliveryStep
<1> USE DEF HealthInv
<1>1. PICK r \in ListedAs(Owner(cur)) :
          Running(r) /\ task' = [task EXCEPT ![r] = "signalled"] /\ hit' = hit \cup {r}
  BY DEF Kill
<1>2. r \in Runs /\ UNCHANGED <<req, faults, parent, escalated>> /\ UNCHANGED <<requests, Resumed>>
  BY RequestsKept, ResumedKept DEF ListedAs, Kill, db, lineage
<1>3. LifeOf(r) = "live" /\ LifeOf(r)' = "live"
  BY <1>1, <1>2 DEF Running, LifeOf, TypeOK
<1>4. lives[r] = "live" /\ UNCHANGED lives
  BY <1>1, <1>2, <1>3, LifeMoves DEF lives
<1>5. "id_reused" \in faults \/ \E o \in Origins : requests[r][o] = "begun"
  <2>1. CASE "id_reused" \notin faults
    <3>1. r = cur /\ src \in Origins /\ req[cur][src] = "dispatching"
      BY <1>1, <2>1 DEF Kill, PlaceInv, TypeOK
    <3> QED
      BY <1>2, <3>1 DEF requests, RequestOf
  <2> QED
    BY <2>1
<1>6. Delivery!Strike(r)
  BY <1>1, <1>2, <1>4, <1>5 DEF Delivery!Strike, Delivery!Live, lives, requests
<1> QED
  BY <1>2, <1>6 DEF DeliveryStep, Delivery!KillNext
----------------------------------------------------------------------------
(* Steps of a request.                                                     *)

LEMMA AskDelivers ==
    ASSUME HealthInv, NEW r \in Runs, NEW o \in Origins, NEW s \in {"requested", "misfiled"},
           SetRequest(r, o, s), req[r][o] = "none", Listed(r),
           UNCHANGED <<task, hit, faults, parent, escalated>>
    PROVE  DeliveryStep
<1>1. lives[r] \in {"live", "done", "killed"}
  BY DEF HealthInv, TypeOK, Listed, lives, LifeOf
<1>2. Delivery!Turn(r, o, "none", "asked")
  <2>1. TypeOK /\ s \in Statuses /\ RequestOf(s) = "asked" /\ RequestOf("none") = "none"
    BY DEF HealthInv, Statuses, RequestOf
  <2> QED
    BY <2>1, RequestTurns
<1>3. Delivery!Ask(r, o)
  BY <1>1, <1>2 DEF Delivery!Ask, Delivery!Live, Delivery!Over, lives
<1> QED
  BY <1>3 DEF DeliveryStep, Delivery!KillNext

LEMMA PolicyAsksKillDelivers == ASSUME HealthInv, NEW r \in Runs, PolicyAsksKill(r) PROVE DeliveryStep
BY AskDelivers DEF PolicyAsksKill, Running, Listed, lineage, Origins

LEMMA DiagnosisAsksKillDelivers ==
    ASSUME HealthInv, NEW e \in Managed, DiagnosisAsksKill(e) PROVE DeliveryStep
<1>1. PICK r \in ListedAs(e) : SetRequest(r, "health", IF Running(r) THEN "requested" ELSE "misfiled")
  BY DEF DiagnosisAsksKill
<1>2. r \in Runs /\ Listed(r) /\ SameId(r, e) /\ "health" \in Origins
  BY <1>1 DEF ListedAs, Origins
<1>3. req[r]["health"] = "none"
  <2>1. <<r, "health">> \in Runs \X Origins /\ <<r, "health">> \notin RequestsOf(e)
    BY <1>2 DEF DiagnosisAsksKill, Origins
  <2> QED
    BY <1>2, <2>1 DEF RequestsOf
<1>4. PICK s \in {"requested", "misfiled"} : SetRequest(r, "health", s)
  BY <1>1
<1>5. UNCHANGED <<task, hit, faults, parent, escalated>>
  BY DEF DiagnosisAsksKill, lineage
<1> QED
  BY <1>2, <1>3, <1>4, <1>5, AskDelivers

LEMMA NotRunningDelivers ==
    ASSUME HealthInv, NEW r \in Runs, NEW o \in Origins, NotRunning(r, o) PROVE DeliveryStep
<1>1. Delivery!Turn(r, o, "asked", "void")
  <2>1. /\ TypeOK /\ "moot" \in Statuses /\ SetRequest(r, o, "moot")
        /\ RequestOf(req[r][o]) = "asked" /\ RequestOf("moot") = "void"
        /\ UNCHANGED <<task, hit, faults, parent, escalated>>
    BY DEF HealthInv, Statuses, RequestOf, NotRunning, lineage
  <2> QED
    BY <2>1, RequestTurns
<1> QED
  BY <1>1 DEF DeliveryStep, Delivery!KillNext, Delivery!Void

LEMMA KillTimesOutDelivers ==
    ASSUME HealthInv, NEW r \in Runs, NEW o \in Origins, KillTimesOut(r, o) PROVE DeliveryStep
<1>1. Delivery!Turn(r, o, "sent", "expired")
  <2>1. /\ TypeOK /\ "timed_out" \in Statuses /\ SetRequest(r, o, "timed_out")
        /\ RequestOf(req[r][o]) = "sent" /\ RequestOf("timed_out") = "expired"
        /\ UNCHANGED <<task, hit, faults, parent, escalated>>
    BY DEF HealthInv, Statuses, RequestOf, KillTimesOut, lineage
  <2> QED
    BY <2>1, RequestTurns
<1> QED
  BY <1>1 DEF DeliveryStep, Delivery!KillNext, Delivery!Expire

LEMMA ClaimKillDelivers ==
    ASSUME HealthInv, NEW r \in Runs, NEW o \in Origins, ClaimKill(r, o) PROVE DeliveryStep
<1>1. /\ TypeOK /\ "dispatching" \in Statuses /\ SetRequest(r, o, "dispatching")
      /\ RequestOf("dispatching") = "begun"
      /\ UNCHANGED <<task, hit, faults, parent, escalated>>
  BY DEF HealthInv, Statuses, RequestOf, ClaimKill, lineage
<1>2. CASE req[r][o] = "requested"
  <2>1. RequestOf("requested") = "asked"
    BY DEF RequestOf
  <2>2. Delivery!Turn(r, o, "asked", "begun")
    BY <1>1, <1>2, <2>1, RequestTurns
  <2>3. lives[r] = "live"
    BY DEF ClaimKill, Signed, Running, lives, LifeOf
  <2>4. Delivery!CarryOut(r, o)
    BY <2>2, <2>3 DEF Delivery!CarryOut, Delivery!Live, lives
  <2> QED
    BY <2>4 DEF DeliveryStep, Delivery!KillNext
<1>3. CASE req[r][o] = "dispatching"
  <2>1. req' = req
    BY <1>1, <1>3 DEF SetRequest, TypeOK
  <2> QED
    BY <1>1, <2>1, QuietStep
<1> QED
  BY <1>2, <1>3 DEF ClaimKill

LEMMA MarkKillDelivers == ASSUME HealthInv, MarkKill PROVE DeliveryStep
<1>1. /\ TypeOK /\ cur \in Runs /\ src \in Origins /\ req[cur][src] = "dispatching"
      /\ UNCHANGED <<task, hit, faults, parent, escalated>>
  BY DEF HealthInv, TypeOK, PlaceInv, MarkKill, lineage
<1>2. CASE step = "kill_sent"
  <2>1. "sent" \in Statuses /\ SetRequest(cur, src, "sent")
    BY <1>2 DEF MarkKill, Statuses
  <2>2. RequestOf("dispatching") = "begun" /\ RequestOf("sent") = "sent"
    BY DEF RequestOf
  <2>3. Delivery!Turn(cur, src, "begun", "sent")
    BY <1>1, <2>1, <2>2, RequestTurns
  <2>4. "id_reused" \in faults \/ cur \in hit
    BY <1>2 DEF HealthInv, PlaceInv
  <2>5. Delivery!Send(cur, src)
    BY <2>3, <2>4 DEF Delivery!Send
  <2> QED
    BY <1>1, <2>5 DEF DeliveryStep, Delivery!KillNext
<1>3. CASE step = "kill_failed"
  <2>1. "failed" \in Statuses /\ SetRequest(cur, src, "failed")
    BY <1>3 DEF MarkKill, Statuses
  <2>2. RequestOf("dispatching") = "begun" /\ RequestOf("failed") = "failed"
    BY DEF RequestOf
  <2>3. Delivery!Turn(cur, src, "begun", "failed")
    BY <1>1, <2>1, <2>2, RequestTurns
  <2> QED
    BY <1>1, <2>3 DEF DeliveryStep, Delivery!KillNext, Delivery!Fail
<1> QED
  BY <1>2, <1>3 DEF MarkKill

LEMMA ConfirmKillDelivers == ASSUME HealthInv, NEW r \in Runs, ConfirmKill(r) PROVE DeliveryStep
<1>1. TypeOK /\ UNCHANGED <<task, hit, faults, parent, escalated>>
  BY DEF HealthInv, ConfirmKill, lineage
<1>2. CASE req' = req
  BY <1>1, <1>2, QuietStep
<1>3. CASE req' # req
  <2>1. PICK o \in Origins : req[r][o] = "sent" /\ SetRequest(r, o, "confirmed")
    BY <1>3 DEF ConfirmKill, SetRequest, Origins
  <2>2. "confirmed" \in Statuses /\ RequestOf("confirmed") = "done" /\ RequestOf("sent") = "sent"
    BY DEF Statuses, RequestOf
  <2>3. Delivery!Turn(r, o, "sent", "done")
    BY <1>1, <2>1, <2>2, RequestTurns
  <2>4. lives[r] \in {"done", "killed"}
    BY DEF ConfirmKill, Terminal, lives, LifeOf
  <2>5. Delivery!Confirm(r, o)
    BY <2>3, <2>4 DEF Delivery!Confirm, Delivery!Over, lives
  <2> QED
    BY <2>5 DEF DeliveryStep, Delivery!KillNext
<1> QED
  BY <1>2, <1>3
----------------------------------------------------------------------------
(* The follow-up.                                                          *)

\* The latest request under the id of a killed task, which is still listed, is
\* its own: nobody has been given the id yet.
LEMMA OwnRequestIsSettled ==
    ASSUME HealthInv, NEW e \in Managed, Completes(e)
    PROVE  e \in Runs /\ Delivery!MayFollow(e)
<1> USE DEF HealthInv
<1>1. task[e] = "killed" /\ Successors(e) = {}
  BY DEF Completes
<1>2. PICK q \in RequestsOf(e) : req[q[1]][q[2]] \in {"confirmed", "moot"}
  BY DEF Completes, LatestIn
<1>3. q[1] \in Runs /\ q[2] \in Origins /\ SameId(q[1], e) /\ task[q[1]] # "none"
  BY <1>2 DEF RequestsOf, LineageInv
<1>4. q[1] = e
  <2>1. Owner(e) = e
    BY RunsAssumption DEF Owner
  <2>2. q[1] \notin Foreign
    BY <1>1, <1>3, <2>1 DEF LineageInv, SameId, Owner
  <2> QED
    BY <1>3, <2>1, <2>2 DEF SameId, Owner
<1>5. requests[e][q[2]] \in {"done", "void"}
  BY <1>2, <1>3, <1>4 DEF requests, RequestOf
<1>6. lives[e] = "killed"
  BY <1>1 DEF lives, LifeOf, Runs
<1>7. e \notin Resumed
  BY <1>1 DEF Resumed
<1> QED
  BY <1>3, <1>5, <1>6, <1>7 DEF Delivery!MayFollow, lives, requests, Runs

LEMMA ResumeRunDelivers == ASSUME HealthInv, ResumeRun PROVE DeliveryStep
<1>1. cur \in Managed /\ TypeOK
  BY DEF HealthInv, PlaceInv, ResumeRun
<1>2. cur \in Runs /\ Delivery!MayFollow(cur)
  BY <1>1, OwnRequestIsSettled DEF ResumeRun
<1>3. UNCHANGED <<lives, requests, hit, faults, escalated>>
  BY LivesKept, RequestsKept DEF ResumeRun
<1>4. Resumed' = Resumed \cup {cur}
  <2> DEFINE s == CHOOSE x \in Managed : exp[x] = "none"
  <2>1. s \in Managed /\ parent[s] = None
    BY DEF ResumeRun, HealthInv, LineageInv
  <2>2. parent' = [parent EXCEPT ![s] = cur]
    BY DEF ResumeRun
  <2> HIDE DEF s
  <2>3. \A e \in Managed : Successors(e)' = IF e = cur THEN Successors(e) \cup {s} ELSE Successors(e)
    BY <1>1, <2>1, <2>2, RunsAssumption DEF Successors, TypeOK
  <2> QED
    BY <1>1, <2>3 DEF Resumed
<1>5. Delivery!Resume(cur)
  BY <1>2, <1>3, <1>4 DEF Delivery!Resume, lives, requests
<1> QED
  BY <1>2, <1>5 DEF DeliveryStep, Delivery!KillNext

LEMMA EscalateDelivers == ASSUME HealthInv, Escalate PROVE DeliveryStep
<1>1. CASE escalated' = escalated
  BY <1>1, QuietStep DEF Escalate, lineage
<1>2. CASE escalated' # escalated
  <2>1. cur \in Managed /\ escalated' = escalated \cup {cur}
    BY <1>2 DEF HealthInv, PlaceInv, Escalate
  <2>2. cur \in Runs /\ Delivery!MayFollow(cur)
    BY <2>1, OwnRequestIsSettled DEF Escalate
  <2>3. UNCHANGED <<lives, requests, hit, faults, Resumed>>
    BY LivesKept, RequestsKept, ResumedKept DEF Escalate, lineage
  <2>4. Delivery!Escalate(cur)
    BY <2>1, <2>2, <2>3 DEF Delivery!Escalate, lives, requests
  <2> QED
    BY <2>2, <2>4 DEF DeliveryStep, Delivery!KillNext
<1> QED
  BY <1>1, <1>2
----------------------------------------------------------------------------

\* Steps of rows, agents, the campaign and the daemon's place.
LEMMA OthersDeliver ==
    ASSUME \/ PauseCampaign \/ ResumeCampaign \/ Crash \/ Restart
           \/ \E r \in Runs : RegisterRunning(r)
           \/ ProjectTerminal \/ NothingToComplete \/ DeleteRow
           \/ \E e \in Managed :
                 \/ Observe(e) \/ ContinueRun(e) \/ RequeueInterrupted(e)
                 \/ ClaimDiagnosis(e) \/ StoreDiagnosis(e) \/ DiagnosisWithoutRow(e)
           \/ LaunchDiagnosis \/ LaunchFails \/ LaunchLeavesRun \/ FinishDiagnosis
           \/ CleanupFails \/ KillFails
    PROVE  DeliveryStep
<1>1. UNCHANGED <<task, req, hit, parent, escalated>>
  BY DEF PauseCampaign, ResumeCampaign, Crash, Restart, RegisterRunning, ProjectTerminal,
     NothingToComplete, DeleteRow, Observe, ContinueRun, RequeueInterrupted, ClaimDiagnosis,
     StoreDiagnosis, DiagnosisWithoutRow, LaunchDiagnosis, LaunchFails, LaunchLeavesRun, ReleaseLaunch,
     FinishDiagnosis, CleanupFails, KillFails, db, lineage
<1>2. UNCHANGED ("id_reused" \in faults)
  BY DEF PauseCampaign, ResumeCampaign, Crash, Restart, RegisterRunning, ProjectTerminal,
       NothingToComplete, DeleteRow, Observe, ContinueRun, RequeueInterrupted, ClaimDiagnosis,
       StoreDiagnosis, DiagnosisWithoutRow, LaunchDiagnosis, LaunchFails, LaunchLeavesRun, ReleaseLaunch,
       FinishDiagnosis, CleanupFails, KillFails, Fault
<1> QED
  BY <1>1, <1>2, QuietStep

LEMMA HealthDelivers == ASSUME HealthInv, [Next]_vars PROVE DeliveryStep
<1>1. CASE Environment
  BY <1>1, TaskStepsDeliver, IdIsReusedDelivers, OthersDeliver DEF Environment
<1>2. CASE Restart
  BY <1>2, OthersDeliver
<1>3. CASE Detection
  BY <1>3, OthersDeliver, PolicyAsksKillDelivers DEF Detection
<1>4. CASE Round
  BY <1>4, OthersDeliver, ConfirmKillDelivers, ResumeRunDelivers, EscalateDelivers,
     DiagnosisAsksKillDelivers, NotRunningDelivers, ClaimKillDelivers, KillTimesOutDelivers,
     KillDelivers, MarkKillDelivers DEF Round
<1>5. CASE CleanupFails
  BY <1>5, OthersDeliver
<1>6. CASE UNCHANGED vars
  BY <1>6, QuietStep DEF vars
<1> QED
  BY <1>1, <1>2, <1>3, <1>4, <1>5, <1>6 DEF Next

LEMMA InitDelivers == Init => Delivery!KillInit
<1> SUFFICES ASSUME Init PROVE Delivery!KillInit
  OBVIOUS
<1>1. lives \in [Runs -> {"none", "live"}]
  BY DEF Init, lives, LifeOf
<1>2. requests = [r \in Runs |-> [o \in Origins |-> "none"]]
  BY DEF Init, requests, RequestOf
<1>3. Resumed \subseteq {r \in Runs : lives[r] = "none"}
  <2>1. Resumed \subseteq {Origin}
    BY RunsAssumption DEF Init, Resumed, Successors
  <2>2. Origin \in Runs /\ lives[Origin] = "none"
    BY RunsAssumption DEF Init, Runs, lives, LifeOf
  <2> QED
    BY <2>1, <2>2
<1> QED
  BY <1>1, <1>2, <1>3 DEF Init, Delivery!KillInit, lives, requests

\* From the request to the successor everything concerns one run, for any
\* number of experiments, foreign runs and reused ids: a kill strikes the run
\* that a request names, the request counts as sent or done only for a run that
\* was struck and is over, and a run is followed up only after it was killed
\* and a request that names it was settled
\* (termination.rs, health.rs, the terminal block of reconcile.rs).
THEOREM KillsImplementDelivery == Spec => KillsDeliver
<1>1. Init => Delivery!KillInit
  BY InitDelivers
<1>2. HealthInv /\ [Next]_vars => [Delivery!KillNext]_(Delivery!killVars)
  BY HealthDelivers DEF DeliveryStep, Delivery!killVars, lives, requests
<1> QED
  BY <1>1, <1>2, HealthAgrees, PTL DEF Spec, KillsDeliver, Delivery!KillSpec
=============================================================================
