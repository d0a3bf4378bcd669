--------------------------- MODULE EventDelivery ---------------------------
(***************************************************************************)
(* What the supervisor promises about its durable events, whatever runs,   *)
(* launch gates, markers, leases and restarts do underneath.  An event     *)
(* waits, is bound to an agent run, is exposed once that agent may have    *)
(* acted on it, is reported once the outcome was seen, and is settled.     *)
(* An exposed event goes back to waiting only after its outcome was seen.  *)
(***************************************************************************)
CONSTANT Events

VARIABLE phase    \* phase[e]: where event e is in its life

Phase == {"absent", "waiting", "bound", "exposed", "reported", "settled"}

DeliveryTypeOK == phase \in [Events -> Phase]

DeliveryInit == phase = [e \in Events |-> "absent"]

\* The events of S, all of them in phase p, move to phases in Q.
Move(S, p, Q) ==
    /\ \A e \in S : phase[e] = p
    /\ \E B \in [S -> Q] :
          phase' = [e \in Events |-> IF e \in S THEN B[e] ELSE phase[e]]

Record(S)   == Move(S, "absent", {"waiting"})
Bind(S)     == Move(S, "waiting", {"bound"})
Expose(S)   == Move(S, "bound", {"exposed"})
Observe(S)  == Move(S, "exposed", {"reported"})

\* An attempt no agent acted on is retried or given up.
GiveBack(S) == Move(S, "bound", {"waiting", "settled"})

\* The outcome that was seen is written down: retried or settled.
Conclude(S) == Move(S, "reported", {"waiting", "settled"})

\* An outcome that was seen, but not written down, is forgotten in a crash.
Forget(S)   == Move(S, "reported", {"exposed"})

\* The outcome is unknown, or the event was never bound: settled for good.
GiveUp(S)   == \E p \in {"waiting", "exposed"} : Move(S, p, {"settled"})

DeliveryNext ==
    \E S \in SUBSET Events :
        \/ Record(S) \/ Bind(S) \/ Expose(S) \/ Observe(S)
        \/ GiveBack(S) \/ Conclude(S) \/ Forget(S) \/ GiveUp(S)

DeliverySpec == DeliveryInit /\ [][DeliveryNext]_phase
============================================================================
