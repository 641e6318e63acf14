-------------------------------- MODULE Scenario --------------------------------
(***************************************************************************)
(* Scenario documents: Scenario.Validate of internal/domain and the way    *)
(* prepareScenario of internal/cluster turns a valid one into a cluster,   *)
(* a set of pending submissions and a set of scheduled failures.           *)
(*                                                                         *)
(* A scenario is a record                                                  *)
(*   [scheduler, maxTicks,                                                 *)
(*    nodes     : a set of [id, capacity],                                 *)
(*    processes : a set of [id, at, def],                                  *)
(*    failures  : a sequence of [at, type, id, stray]]                     *)
(* where two records with one id stand for a duplicate definition.  A      *)
(* failure has the fields nodeId and processId: id is the one that its     *)
(* type looks at, stray is what the document wrote in the other (0 when it *)
(* is empty), which only the search for duplicates reads.  The failures of *)
(* a tick are applied in document order, so they are numbered.             *)
(***************************************************************************)
EXTENDS Schedulers, Sequences

FailureTypes == {"NODE", "PROCESS"}

\* An entry of pendingProcesses, and one of scheduledFailures.
Submission == [id : ProcIds, at : Int, def : ProcessDefinition]
Failure    == [id : NodeIds \cup ProcIds, at : Int, pos : Nat, type : FailureTypes]

\* A nonpositive submission tick means "from the start".
SubmitTick(d) == IF d.at > 0 THEN d.at ELSE 0

UniqueIds(S) == \A a, b \in S : a.id = b.id => a = b

ValidFailure(s, f) ==
  /\ f.at \in 1 .. s.maxTicks
  /\ \/ /\ f.type = "NODE"
        /\ \E d \in s.nodes : d.id = f.id
     \/ /\ f.type = "PROCESS"
        /\ \E d \in s.processes : d.id = f.id /\ f.at >= SubmitTick(d)

ValidScenario(s) ==
  /\ s.scheduler \in Algorithms
  /\ s.maxTicks > 0
  /\ s.nodes # {} /\ UniqueIds(s.nodes)
  /\ \A d \in s.nodes : ValidCapacity(d.capacity)
  /\ UniqueIds(s.processes)
  /\ \A d \in s.processes : ValidDefinition(d.def) /\ d.at <= s.maxTicks
  /\ \A i \in DOMAIN s.failures : ValidFailure(s, s.failures[i])
  /\ \A i, j \in DOMAIN s.failures : s.failures[i] = s.failures[j] => i = j

IdsOf(S) == {d.id : d \in S}

DefinitionOf(S, i) == CHOOSE d \in S : d.id = i

LoadedNodes(s) ==
  [n \in IdsOf(s.nodes) |-> NewNode(DefinitionOf(s.nodes, n).capacity, 0)]

PresentAtStart(s) == {d \in s.processes : d.at <= 0}

LoadedProcesses(s) ==
  [p \in IdsOf(PresentAtStart(s)) |->
     [NewProcess(DefinitionOf(s.processes, p).def, 0) EXCEPT !.state = "READY"]]

LoadedPending(s) == {d \in s.processes : d.at > 0}

LoadedFailures(s) ==
  {[at |-> s.failures[i].at, pos |-> i, type |-> s.failures[i].type,
    id |-> s.failures[i].id] : i \in DOMAIN s.failures}
=============================================================================
