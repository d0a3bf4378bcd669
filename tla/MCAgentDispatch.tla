-------------------------- MODULE MCAgentDispatch --------------------------
(* Small instances of AgentDispatch for TLC. *)
EXTENDS AgentDispatch, TLC

OneIntervention == {1}
TwoInterventions == {1, 2}

\* Events and runs are interchangeable; interventions are ordered.
Interchangeable == Permutations(Events) \cup Permutations(Runs)
============================================================================
