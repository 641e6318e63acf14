------------------------------- MODULE Simulation -------------------------------
(***************************************************************************)
(* The simulation status, as the callers of cluster.Controller see it: one *)
(* operator per public method that may change it, each a single step       *)
(* because the controller does its work under one mutex.  The engine calls *)
(* these; ClusterPromise says what else a step of the controller does, and *)
(* Controller is shown to implement that.                                  *)
(***************************************************************************)

VARIABLE status   \* state.SimulationStatus

Statuses == {"IDLE", "RUNNING", "PAUSED", "COMPLETED"}

SimInit == status = "IDLE"

\* Controller.Start
MarkStarted == status' = "RUNNING"

\* Controller.PauseSimulation
MarkPaused == status' = IF status = "RUNNING" THEN "PAUSED" ELSE status

\* Controller.Reset and Controller.LoadScenario
MarkReplaced == status' = "IDLE"

\* Controller.SubmitProcess
MarkSubmitted == status' = IF status = "COMPLETED" THEN "IDLE" ELSE status

\* Controller.Finish
MarkFinished == status' = "COMPLETED"

\* Controller.Step returns nil.
MarkTicked == status # "COMPLETED" /\ status' \in {"RUNNING", "COMPLETED"}

\* Controller.Step refuses, which it always does once COMPLETED.
StepRefused == status = "COMPLETED" /\ UNCHANGED status

\* Controller.Step fails and restores what was there.
StepFailed == status # "COMPLETED" /\ UNCHANGED status
=============================================================================
