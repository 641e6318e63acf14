-------------------------------- MODULE MCRunner --------------------------------
(* Scenario documents for RunScenario: every combination of an algorithm, *)
(* a set of processes and a list of failures below.                       *)
EXTENDS Runner

Capacity(c, m) == [r \in Resources |-> IF r = "cpu" THEN c ELSE m]

Def(prio, c, m, total, policy, restarts) ==
  [priority |-> prio, request |-> Capacity(c, m), total |-> total,
   policy |-> policy, maxRestarts |-> restarts]

\* The first process needs a whole node, so that the small ones compete with it.
Big   == Def(0, 2, 2, 2, "ON_FAILURE", 1)
Small == Def(2, 1, 1, 2, "NEVER", 0)
Huge  == Def(0, 3, 1, 1, "", 0)

Workloads ==
  { {},
    {[id |-> 1, at |-> 0, def |-> Big], [id |-> 2, at |-> 0, def |-> Small],
     [id |-> 3, at |-> 1, def |-> Small]},
    {[id |-> 1, at |-> 1, def |-> Big], [id |-> 2, at |-> 0, def |-> Small],
     [id |-> 3, at |-> 3, def |-> Small]},
    {[id |-> 1, at |-> 0, def |-> Huge], [id |-> 2, at |-> 2, def |-> Big]},
    {[id |-> 1, at |-> 0, def |-> Small], [id |-> 1, at |-> 2, def |-> Big]},
    {[id |-> 1, at |-> 4, def |-> Big]},
    {[id |-> 1, at |-> 0, def |-> [Big EXCEPT !.total = 0]]} }

FailureAt(t, kind, i) == [at |-> t, type |-> kind, id |-> i, stray |-> 0]

\* The last lists are duplicates but for the field that nobody looks at, and are valid.
FailureLists ==
  { <<>> }
    \cup { <<FailureAt(t, k, i)>> :
             t \in {0, 1, 2, 3}, k \in FailureTypes, i \in {1, 2} }
    \cup { <<FailureAt(2, k, 1), FailureAt(t, l, i)>> :
             t \in {1, 2, 3}, k, l \in FailureTypes, i \in {1, 2} }
    \cup { <<FailureAt(2, k, 1), [FailureAt(2, k, 1) EXCEPT !.stray = 2]>> :
             k \in FailureTypes }

Machines(two) ==
  {[id |-> 1, capacity |-> Capacity(2, 2)]}
    \cup (IF two THEN {[id |-> 2, capacity |-> Capacity(2, 2)]} ELSE {})

Documents ==
  {[scheduler |-> a, maxTicks |-> m, nodes |-> Machines(two),
    processes |-> w, failures |-> f] :
     a \in Algorithms, m \in {3, 9}, two \in BOOLEAN,
     w \in Workloads, f \in FailureLists}

NoInputs == {}

\* A run that has returned stays as it is, so that one that is stuck before is a deadlock.
RunToTheEnd ==
  RunnerInit /\ [][\/ RunnerNext
                   \/ pc = "done" /\ UNCHANGED <<vars, runnerVars>>]_<<vars, runnerVars>>
=============================================================================
