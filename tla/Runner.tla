--------------------------------- MODULE Runner ---------------------------------
(***************************************************************************)
(* Engine.RunScenario as cmd/simulator uses it: one goroutine, and no      *)
(* other, loads a scenario and steps the controller until it completes,    *)
(* a step fails, or the tick budget of the scenario is used up.            *)
(***************************************************************************)
EXTENDS ControllerProperties

VARIABLES
  pc,        \* "start", "loop" or "done"
  left,      \* iterations of the loop that are left
  outcome,   \* what RunScenario returned: "ok" or "error"
  scenario   \* its argument

runnerVars == <<pc, left, outcome, scenario>>

RunnerInit ==
  /\ Init
  /\ pc = "start" /\ left = 0 /\ outcome = ""
  /\ scenario \in Scenarios

Return(result) == pc' = "done" /\ outcome' = result

Load ==
  /\ pc = "start"
  /\ LoadScenario(scenario)
  /\ pc' = "loop" /\ left' = scenario.maxTicks
  /\ UNCHANGED <<outcome, scenario>>

Refuse ==
  /\ pc = "start"
  /\ ~ (ValidScenario(scenario) /\ WithinLimits(scenario))
  /\ Return("error")
  /\ UNCHANGED <<vars, left, scenario>>

CallStep ==
  /\ pc = "loop" /\ phase = "idle"
  /\ left > 0 /\ status # "COMPLETED"
  /\ BeginStep
  /\ left' = left - 1
  /\ UNCHANGED <<pc, outcome, scenario>>

\* Step is under way; it returns an error when it went back a tick.
StepRuns ==
  /\ pc = "loop"
  /\ InsideStep
  /\ IF tick' < tick THEN Return("error") ELSE UNCHANGED <<pc, outcome>>
  /\ UNCHANGED <<left, scenario>>

\* The loop ends because the snapshot says COMPLETED or the budget is used up;
\* Finish does nothing to a simulation that is COMPLETED.
LeaveLoop ==
  /\ pc = "loop" /\ phase = "idle"
  /\ status = "COMPLETED" \/ left = 0
  /\ IF status = "COMPLETED" THEN UNCHANGED vars ELSE Finish
  /\ Return("ok")
  /\ UNCHANGED <<left, scenario>>

RunnerNext == Load \/ Refuse \/ CallStep \/ StepRuns \/ LeaveLoop

RunnerSpec == RunnerInit /\ [][RunnerNext]_<<vars, runnerVars>>

-----------------------------------------------------------------------------

Returned(result) == pc = "done" /\ outcome = result

\* The loop is never left by running out of iterations: the tick that uses up
\* the budget completes the simulation itself (lifecycle.go:197, engine.go:149).
BudgetEndsTheRun == (pc = "loop" /\ phase = "idle" /\ left = 0) => status = "COMPLETED"

\* A run that ends because everything is over has submitted every process of
\* the document, also those due later, and applied every failure that was due.
NothingIsLost ==
  (Returned("ok") /\ reason = "ALL_TERMINAL") =>
    /\ DOMAIN procs = IdsOf(scenario.processes)
    /\ \A i \in DOMAIN scenario.failures :
         scenario.failures[i].at <= tick =>
           ~ \E f \in failures : f.pos = i

TotalWork(s) ==
  Cardinality(UNION {{d.id} \X (1 .. d.def.total) : d \in s.processes})

\* Every process of the document fits an empty node of it, nothing is made to
\* fail, and the budget covers the last submission and all work in sequence.
Ample(s) ==
  /\ ValidScenario(s) /\ WithinLimits(s)
  /\ s.processes # {} /\ s.failures = <<>>
  /\ \A d \in s.processes : \E n \in s.nodes :
       \A r \in Resources : d.def.request[r] <= n.capacity[r]
  /\ \A d \in s.processes : s.maxTicks >= SubmitTick(d) + TotalWork(s)

\* No algorithm starves a process: given enough ticks for all work in sequence,
\* everything a scenario submits terminates, however it competes for the nodes.
NobodyStarves ==
  (pc = "done" /\ Ample(scenario)) =>
    /\ outcome = "ok" /\ reason = "ALL_TERMINAL"
    /\ \A p \in DOMAIN procs : procs[p].state = "TERMINATED"

\* Without a failure in the document no step fails, and with one RunScenario
\* fails only at the tick of a failure it could not apply.
OnlyFailuresFail ==
  (Returned("error") /\ DOMAIN nodes # {}) =>
    \E f \in failures : f.at = tick + 1
=============================================================================
