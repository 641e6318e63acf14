------------------------------ MODULE MCEventLog ------------------------------
(* Values of the constants of EventLog for TLC. *)
EXTENDS EventLog, MCController

CONSTANT ShortLog   \* bound: no other commands than these once the log has that many events

\* In tick 2 a process is submitted, the node may fail, and then another process is
\* made to fail, which is refused when a client killed it: by then the tick has
\* reported a submission and counted a failure.
KillsOne == Fails(2, "PROCESS", 1)

Logs ==
  {[scheduler |-> "least-loaded", maxTicks |-> 3,
    nodes |-> {[id |-> 1, capacity |-> Capacity(2, 2)]},
    processes |-> {[id |-> 1, at |-> 0, def |-> Long], [id |-> 2, at |-> 2, def |-> Short]},
    failures |-> f] :
     f \in { <<KillsOne>>, <<Fails(2, "NODE", 1), KillsOne>> }}

\* While the log is short any command may come.  Once a scenario has been loaded the
\* node may fail and recover and processes may be commanded until the log is long.
LogRunSpec ==
  LogInit /\ [][\/ Len(events) < ShortLog /\ LogCommand
                \/ /\ Len(events) < LogBound /\ maxTicks # 0
                   /\ \/ \E p \in ProcIds : LogProcessCommand(p)
                      \/ LogFailNode(1) \/ Reports(RecoverNode(1), RecoverEntries(1))
                \/ LogBegin \/ LogInsideStep]_<<vars, logVars>>
=============================================================================
