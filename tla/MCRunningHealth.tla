-------------------------- MODULE MCRunningHealth --------------------------
(* The small instance of RunningHealth for TLC. *)
EXTENDS RunningHealth, TLC

CONSTANTS e0, e1, e2, f

\* The foreign run is given the id of the experiment that runs.
FirstIsReused == f :> e1
=============================================================================
