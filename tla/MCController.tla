------------------------------ MODULE MCController ------------------------------
(* Values of the constants of Controller for TLC, and the selections of its *)
(* actions that the runs explore.                                           *)
EXTENDS ControllerPromise

Capacity(c, m) == [r \in Resources |-> IF r = "cpu" THEN c ELSE m]

Def(prio, c, m, total, policy, restarts) ==
  [priority |-> prio, request |-> Capacity(c, m), total |-> total,
   policy |-> policy, maxRestarts |-> restarts]

\* A failure as documents write it: the field that its type does not look at is empty.
Fails(t, kind, i) == [at |-> t, type |-> kind, id |-> i, stray |-> 0]

OneSize   == {Capacity(2, 2)}
SomeSizes == {Capacity(2, 2), Capacity(1, 0)}     \* the second is refused

Short == Def(0, 1, 1, 1, "", 0)
Long  == Def(0, 2, 1, 2, "ON_FAILURE", 1)
SomeDefinitions == {Short, Long, Def(0, 0, 1, 1, "NEVER", 0)}  \* the last is refused
LongOnly == {Long}

NoScenarios == {}

\* Three processes on two nodes that cannot hold them all at once, under each
\* algorithm; the urgent one is small and the last in ID order, and another fits on
\* node 1 only.
Contended ==
  {[scheduler |-> a, maxTicks |-> 4,
    nodes |-> {[id |-> 1, capacity |-> Capacity(2, 3)],
               [id |-> 2, capacity |-> Capacity(4, 2)]},
    processes |-> {[id |-> 1, at |-> 0, def |-> Def(0, 2, 1, 2, "ON_FAILURE", 1)],
                   [id |-> 2, at |-> 0, def |-> Def(0, 2, 3, 2, "NEVER", 0)],
                   [id |-> 3, at |-> 2, def |-> Def(1, 1, 1, 1, "NEVER", 0)]},
    failures |-> <<>>] : a \in Algorithms}

\* One scenario is loaded into the empty cluster; then, while it runs, node 1
\* fails, drains and recovers and any process may leave the queue and return; process 1 may fail.
ContentionSpec ==
  Init /\ [][\/ DOMAIN nodes = {} /\ \E s \in Scenarios : LoadScenario(s)
             \/ FailNode(1) \/ RecoverNode(1) \/ ChangeNodeStatus(1, "DRAINING")
             \/ \E p \in ProcIds : WaitProcess(p) \/ WakeProcess(p) \/ KillProcess(p)
             \/ FailProcess(1)
             \/ BeginStep \/ InsideStep]_vars

\* A scenario that submits and fails things later, while clients take the same
\* IDs, kill or remove the targets, and start, reset and reload the simulation.
FailuresDue ==
  << Fails(1, "NODE", 1), Fails(2, "PROCESS", 1), Fails(2, "NODE", 1) >>

Scheduled ==
  {[scheduler |-> "round-robin", maxTicks |-> 3,
    nodes |-> {[id |-> 1, capacity |-> Capacity(2, 2)],
               [id |-> 2, capacity |-> Capacity(2, 2)]},
    processes |-> {[id |-> 1, at |-> 0, def |-> Long], [id |-> 2, at |-> t, def |-> Short]},
    failures |-> f] :
     t \in {2, 4},
     f \in { <<>>, FailuresDue, <<Fails(0, "PROCESS", 1)>>, <<Fails(1, "PROCESS", 2)>> }}

ScheduledSpec ==
  Init /\ [][\/ \E s \in Scenarios : LoadScenario(s)
             \/ RemoveNode(1) \/ RecoverNode(1) \/ FailNode(2)
             \/ \E p \in ProcIds : KillProcess(p) \/ FailProcess(p) \/ SubmitProcess(p, Short)
             \/ Start \/ PauseSimulation \/ Reset
             \/ BeginStep \/ InsideStep]_vars
       /\ WF_vars(InsideStep)
=============================================================================
