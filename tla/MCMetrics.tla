-------------------------------- MODULE MCMetrics --------------------------------
(* Values of the constants of Metrics for TLC, and a selection of commands. *)
EXTENDS Metrics, MCController

\* Two processes that do not fit the one node together, the second of which may come
\* later and fails, by the document, while it waits or after it was killed.
Measured ==
  {[scheduler |-> "priority-aware", maxTicks |-> 3,
    nodes |-> {[id |-> 1, capacity |-> Capacity(2, 2)]},
    processes |-> {[id |-> 1, at |-> 0, def |-> Long],
                   [id |-> 2, at |-> t, def |-> Def(0, 1, 1, 2, "ON_FAILURE", 1)]},
    failures |-> f] :
     t \in {0, 2}, f \in { <<>>, <<Fails(2, "PROCESS", 2)>> }}

\* One scenario is loaded into the empty cluster; then the node may fail and recover
\* and any process may be commanded at any time.
MeasuredSpec ==
  MetricsInit /\
  [][\/ ObserveCommand(\/ DOMAIN nodes = {} /\ \E s \in Scenarios : LoadScenario(s)
                       \/ FailNode(1) \/ RecoverNode(1)
                       \/ \E p \in ProcIds : ProcessCommand(p))
     \/ ObserveBegin \/ ObserveStep]_<<vars, historyVars>>
=============================================================================
