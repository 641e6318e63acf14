---------------------------- MODULE ControllerRefines ----------------------------
(***************************************************************************)
(* The controller implements ClusterPromise, for every configuration: each *)
(* command is one step of the promise, a tick is one step when it ends and *)
(* none when it fails, and what is seen in between does not change.        *)
(*                                                                         *)
(* The last step of a tick has to answer for all of it, so the invariant   *)
(* says of every state inside a tick what became of the state it began in. *)
(***************************************************************************)
EXTENDS ControllerPromise, ControllerSafety

-----------------------------------------------------------------------------
(* The invariant *)

WithinLimitsIn(ns, ps) ==
  Cardinality(DOMAIN ns) <= MaxNodes /\ Cardinality(DOMAIN ps) <= MaxProcesses

\* A tick keeps the nodes there are, and may fail some.
HostsKept ==
  /\ DOMAIN nodes = DOMAIN saved.nodes
  /\ \A n \in DOMAIN nodes :
       \/ HostOf(nodes[n]) = HostOf(saved.nodes[n])
       \/ HostOf(nodes[n]) = [HostOf(saved.nodes[n]) EXCEPT !.status = "FAILED"]

\* What process p was when the tick began, or when the tick submitted it.
Origin(p) ==
  IF p \in DOMAIN saved.procs THEN JobOf(saved.procs[p])
                              ELSE Promise!AsSubmitted(JobOf(procs[p]))

\* The work of this tick is behind process p, or p has none to do.
WorkedNow(p) == phase = "close" \/ (phase = "run" /\ p \notin todo)

\* How far a tick may have taken a job, before and after its work.
Underway(old, new, worked) ==
  LET work == IF new.restarts = old.restarts THEN old.remaining ELSE old.total IN
  /\ new.request = old.request /\ new.total = old.total
  /\ new.policy = old.policy /\ new.maxRestarts = old.maxRestarts
  /\ IF old.state \in Terminal
       THEN new = old
       ELSE /\ new.remaining = IF worked /\ new.state \in {"RUNNING", "TERMINATED"}
                                 THEN work - 1 ELSE work
            /\ new.state \in {"READY", "RUNNING", "FAILED", "PAUSED", "WAITING", "TERMINATED"}
            /\ new.state = "TERMINATED" => worked
            /\ new.state = "FAILED" => ~ CanRestart(new)
            /\ IF new.restarts = old.restarts
                 THEN /\ old.state \in {"PAUSED", "WAITING"} => new.state \in {old.state, "FAILED"}
                      /\ new.state \in {"PAUSED", "WAITING"} => new.state = old.state
                      /\ old.state = "RUNNING" => new.state # "READY"
                      /\ old.state = "RUNNING" /\ new.state = "RUNNING" => new.node = old.node
                 ELSE /\ new.policy = "ON_FAILURE"
                      /\ new.restarts \in old.restarts .. new.maxRestarts
                      /\ new.state \notin {"PAUSED", "WAITING"}

JobsUnderway ==
  /\ DOMAIN saved.procs \subseteq DOMAIN procs
  /\ \A p \in DOMAIN procs : Underway(Origin(p), JobOf(procs[p]), WorkedNow(p))

RInv ==
  /\ PInv
  /\ WithinLimitsIn(nodes, procs) /\ WithinLimitsIn(saved.nodes, saved.procs)
  /\ phase # "idle" => HostsKept /\ JobsUnderway

-----------------------------------------------------------------------------
(* What is seen is feasible *)

Hosts(ns) == [n \in DOMAIN ns |-> HostOf(ns[n])]
Jobs(ps)  == [p \in DOMAIN ps |-> JobOf(ps[p])]

\* The two modules count alike.
LEMMA SameCardinality == \A S : Promise!Cardinality(S) = Cardinality(S)
  BY DEF Promise!Cardinality, Cardinality

\* The lists of the nodes are the guests, and their counters the demand: what the
\* promise derives from the processes is what the controller keeps beside them.
LEMMA GuestsAreListed ==
  ASSUME NEW ns, NEW ps, NodesOK(ns), ProcsOK(ps), Sound(ns, ps), NEW n \in DOMAIN ns
  PROVE  /\ {p \in DOMAIN Jobs(ps) : Jobs(ps)[p].node = n} = ns[n].running
         /\ \A r \in Resources :
              Promise!Demand(Jobs(ps), ns[n].running, r) = ns[n].allocated[r]
<1>1. n # NoNode
  BY IdsAssumption DEF NodesOK, NoNode
<1>2. DOMAIN Jobs(ps) = DOMAIN ps /\ \A p \in DOMAIN ps : Jobs(ps)[p] = JobOf(ps[p])
  BY DEF Jobs
<1>3. \A p \in DOMAIN ps : Jobs(ps)[p].node = ps[p].node /\ Jobs(ps)[p].request = ps[p].request
  BY <1>2 DEF JobOf
<1>4. \A p \in ns[n].running : p \in DOMAIN ps /\ ps[p].node = n
  BY DEF Sound, HostingIn, ListsOnlyItsOwn
<1>5. \A p \in DOMAIN ps : ps[p].node = n => p \in ns[n].running
  BY <1>1 DEF Sound, HostingIn
<1>6. {p \in DOMAIN Jobs(ps) : Jobs(ps)[p].node = n} = ns[n].running
  BY <1>2, <1>3, <1>4, <1>5
<1>7. ASSUME NEW r \in Resources
      PROVE  Promise!Demand(Jobs(ps), ns[n].running, r) = ns[n].allocated[r]
  <2>1. \A p \in ns[n].running : Promise!Units(Jobs(ps), p, r) = Units(ps, p, r)
    BY <1>3, <1>4 DEF Promise!Units, Units
  <2>2. UNION {Promise!Units(Jobs(ps), p, r) : p \in ns[n].running}
          = UNION {Units(ps, p, r) : p \in ns[n].running}
    BY <2>1
  <2>3. Promise!Demand(Jobs(ps), ns[n].running, r) = Demand(ps, ns[n].running, r)
    BY <2>2, SameCardinality DEF Promise!Demand, Demand
  <2>4. QED
    BY <2>3 DEF Sound, LedgerIn, CountersMatch
<1>8. QED
  BY <1>6, <1>7

\* What a caller sees is sound, whether a tick is under way or not.
LEMMA SeenIsSound ==
  ASSUME RInv
  PROVE  /\ NodesOK(Seen.nodes) /\ ProcsOK(Seen.procs)
         /\ Sound(Seen.nodes, Seen.procs) /\ WithinLimitsIn(Seen.nodes, Seen.procs)
         /\ Lived(Seen.procs, Seen.tick)
<1>1. CASE phase = "idle"
  BY <1>1 DEF Seen, Current, RInv, PInv, IInv, TypeOK
<1>2. CASE phase # "idle"
  BY <1>2 DEF Seen, RInv, PInv, IInv, TypeOK
<1>3. QED
  BY <1>1, <1>2

LEMMA SeenIsFeasible ==
  ASSUME RInv
  PROVE  Promise!Feasible
<1> DEFINE ns == Seen.nodes
           ps == Seen.procs
<1>1. /\ NodesOK(ns) /\ ProcsOK(ps) /\ Sound(ns, ps)
      /\ WithinLimitsIn(ns, ps) /\ Lived(ps, Seen.tick)
  BY SeenIsSound
<1>2. [n \in DOMAIN Seen.nodes |-> HostOf(Seen.nodes[n])] = Hosts(ns)
  BY DEF Hosts
<1>3. [p \in DOMAIN Seen.procs |-> JobOf(Seen.procs[p])] = Jobs(ps)
  BY DEF Jobs
<1> HIDE DEF ns, ps
<1>4. DOMAIN Hosts(ns) = DOMAIN ns /\ DOMAIN Jobs(ps) = DOMAIN ps
  BY DEF Hosts, Jobs
<1>5. \A n \in DOMAIN ns : /\ Hosts(ns)[n].status = ns[n].status
                           /\ Hosts(ns)[n].capacity = ns[n].capacity
  BY DEF Hosts, HostOf
<1>6. \A p \in DOMAIN ps :
        /\ Jobs(ps)[p].node = ps[p].node /\ Jobs(ps)[p].state = ps[p].state
        /\ Jobs(ps)[p].restarts = ps[p].restarts /\ Jobs(ps)[p].policy = ps[p].policy
        /\ Jobs(ps)[p].maxRestarts = ps[p].maxRestarts
  BY DEF Jobs, JobOf
<1>7. \A p \in DOMAIN ps :
        ps[p].restarts <= IF ps[p].policy = "NEVER" THEN 0 ELSE ps[p].maxRestarts
  BY <1>1 DEF Lived, RecordRight, WithinBudget
<1>8. \A p \in DOMAIN ps :
        IF ps[p].state = "RUNNING"
          THEN ps[p].node \in DOMAIN ns /\ ns[ps[p].node].status \in {"ONLINE", "DRAINING"}
          ELSE ps[p].node = NoNode
  BY <1>1 DEF Sound, HostingIn, HostsUpIn
<1>9. \A n \in DOMAIN ns, r \in Resources :
        Promise!Demand(Jobs(ps), {p \in DOMAIN Jobs(ps) : Jobs(ps)[p].node = n}, r)
          <= ns[n].capacity[r]
  <2> SUFFICES ASSUME NEW n \in DOMAIN ns, NEW r \in Resources
               PROVE  Promise!Demand(Jobs(ps), {p \in DOMAIN Jobs(ps) : Jobs(ps)[p].node = n}, r)
                        <= ns[n].capacity[r]
    OBVIOUS
  <2>1. Promise!Demand(Jobs(ps), {p \in DOMAIN Jobs(ps) : Jobs(ps)[p].node = n}, r)
          = ns[n].allocated[r]
    <3> DEFINE guests == {p \in DOMAIN Jobs(ps) : Jobs(ps)[p].node = n}
    <3>1. guests = ns[n].running
      BY <1>1, GuestsAreListed
    <3>2. Promise!Demand(Jobs(ps), ns[n].running, r) = ns[n].allocated[r]
      BY <1>1, GuestsAreListed
    <3> HIDE DEF guests
    <3>3. Promise!Demand(Jobs(ps), guests, r) = ns[n].allocated[r]
      BY <3>1, <3>2
    <3>4. QED
      BY <3>3 DEF guests
  <2>2. ns[n].allocated[r] \in 0 .. ns[n].capacity[r] /\ ns[n].capacity[r] \in Nat
    BY <1>1 DEF Sound, LedgerIn, WithinCapacity, NodesOK, Node
  <2>3. ns[n].allocated[r] <= ns[n].capacity[r]
    BY <2>2
  <2>4. QED
    BY <2>1, <2>3
<1>10. Promise!Cardinality(DOMAIN ns) <= MaxNodes /\ Promise!Cardinality(DOMAIN ps) <= MaxProcesses
  BY <1>1, SameCardinality DEF WithinLimitsIn
<1> DEFINE hosts == Hosts(ns)
           jobs == Jobs(ps)
<1>11. /\ Promise!Cardinality(DOMAIN hosts) <= MaxNodes
       /\ Promise!Cardinality(DOMAIN jobs) <= MaxProcesses
  BY <1>4, <1>10
<1>12. \A p \in DOMAIN jobs : jobs[p].restarts <= IF jobs[p].policy = "NEVER" THEN 0
                                                    ELSE jobs[p].maxRestarts
  BY <1>4, <1>6, <1>7
<1>13. \A n \in DOMAIN hosts, r \in Resources :
         Promise!Demand(jobs, {p \in DOMAIN jobs : jobs[p].node = n}, r) <= hosts[n].capacity[r]
  BY <1>4, <1>5, <1>9
<1>14. \A p \in DOMAIN jobs :
         IF jobs[p].state = "RUNNING"
           THEN /\ jobs[p].node \in DOMAIN hosts
                /\ hosts[jobs[p].node].status \in {"ONLINE", "DRAINING"}
           ELSE jobs[p].node = NoNode
  BY <1>4, <1>5, <1>6, <1>8
<1> HIDE DEF hosts, jobs
<1>15. hosts = [n \in DOMAIN Seen.nodes |-> HostOf(Seen.nodes[n])]
  BY <1>2 DEF hosts
<1>16. jobs = [p \in DOMAIN Seen.procs |-> JobOf(Seen.procs[p])]
  BY <1>3 DEF jobs
<1>17. QED
  BY <1>11, <1>12, <1>13, <1>14, <1>15, <1>16
  DEF Promise!Feasible, Promise!Guests, Promise!Resources, Promise!NoNode, NoNode, Resources

-----------------------------------------------------------------------------
(* What a tick makes of one job *)

Job == [state : ProcStates, node : NodeIds \cup {NoNode}, remaining : Int,
        restarts : Nat, request : [Resources -> Nat \ {0}], total : Nat \ {0},
        policy : Policies, maxRestarts : Nat]

LEMMA JobType ==
  ASSUME NEW proc \in Process
  PROVE  JobOf(proc) \in Job
  BY DEF JobOf, Job, Process

\* No step changes what was submitted.
LEMMA EvolvedAsSubmitted ==
  ASSUME NEW proc \in Process, NEW v, Evolves(proc, v)
  PROVE  /\ v.request = proc.request /\ v.total = proc.total
         /\ v.policy = proc.policy /\ v.maxRestarts = proc.maxRestarts
<1> USE DEF Process, Unplaced
<1>1. CASE Vacated(proc, v)
  BY <1>1 DEF Vacated
<1>2. CASE Requeued(proc, v)
  BY <1>2 DEF Requeued
<1>3. CASE Killed(proc, v)
  BY <1>3 DEF Killed
<1>4. CASE Begun(proc, v)
  BY <1>4 DEF Begun, Started
<1>5. CASE Served(proc, v)
  BY <1>5 DEF Served, Worked
<1>6. CASE FailedNow(proc, v)
  BY <1>6 DEF FailedNow, AfterFailure
<1>7. QED
  BY <1>1, <1>2, <1>3, <1>4, <1>5, <1>6 DEF Evolves

LEMMA FailureUnderway ==
  ASSUME NEW old, old.restarts \in Nat, NEW proc \in Process, WithinBudget(proc), NEW v,
         Underway(old, JobOf(proc), FALSE), FailedNow(proc, v)
  PROVE  Underway(old, JobOf(v), FALSE)
<1>1. proc.state \notin Terminal
  BY DEF FailedNow
<1>2. old.state \notin Terminal
  BY <1>1 DEF Underway, JobOf
<1>3. CASE CanRestart(proc)
  <2>1. /\ v.state = "READY" /\ v.restarts = proc.restarts + 1 /\ v.remaining = proc.total
        /\ v.request = proc.request /\ v.total = proc.total
        /\ v.policy = proc.policy /\ v.maxRestarts = proc.maxRestarts
    BY <1>3 DEF FailedNow, AfterFailure, CanRestart, Unplaced, Process
  <2>2. proc.restarts >= old.restarts /\ proc.restarts \in Nat /\ proc.maxRestarts \in Nat
    BY <1>2 DEF Underway, JobOf, Process
  <2>3. /\ proc.policy = "ON_FAILURE" /\ v.restarts # old.restarts
        /\ v.restarts \in old.restarts .. v.maxRestarts
    BY <1>3, <2>1, <2>2 DEF CanRestart
  <2>4. QED
    BY <1>2, <2>1, <2>3 DEF Underway, JobOf
<1>4. CASE ~ CanRestart(proc)
  <2>1. v = [proc EXCEPT !.node = NoNode, !.state = "FAILED", !.finished = tick]
    BY <1>4 DEF FailedNow, AfterFailure, CanRestart, Unplaced, Process
  <2>2. /\ v.state = "FAILED" /\ v.restarts = proc.restarts /\ v.remaining = proc.remaining
        /\ v.request = proc.request /\ v.total = proc.total
        /\ v.policy = proc.policy /\ v.maxRestarts = proc.maxRestarts
    BY <2>1 DEF Process
  <2>3. ~ CanRestart(JobOf(v))
    BY <1>4, <2>2 DEF CanRestart, JobOf
  <2>4. QED
    BY <1>2, <2>2, <2>3 DEF Underway, JobOf
<1>5. QED
  BY <1>3, <1>4

LEMMA PlacementUnderway ==
  ASSUME NEW old, NEW proc \in Process, NEW v,
         Underway(old, JobOf(proc), FALSE), Begun(proc, v)
  PROVE  Underway(old, JobOf(v), FALSE)
<1>1. /\ proc.state = "READY" /\ v.state = "RUNNING"
      /\ v.restarts = proc.restarts /\ v.remaining = proc.remaining
      /\ v.request = proc.request /\ v.total = proc.total
      /\ v.policy = proc.policy /\ v.maxRestarts = proc.maxRestarts
  BY DEF Begun, Started, Process
<1>2. old.state \notin Terminal
  BY <1>1 DEF Underway, JobOf, Terminal
<1>3. QED
  BY <1>1, <1>2 DEF Underway, JobOf

LEMMA ServiceUnderway ==
  ASSUME NEW old, NEW proc \in Process, NEW v, tick \in Nat,
         Underway(old, JobOf(proc), FALSE), Served(proc, v)
  PROVE  Underway(old, JobOf(v), TRUE)
<1>1. /\ proc.state = "RUNNING" /\ v.state \in {"RUNNING", "TERMINATED"}
      /\ v.restarts = proc.restarts /\ v.remaining = proc.remaining - 1
      /\ v.request = proc.request /\ v.total = proc.total
      /\ v.policy = proc.policy /\ v.maxRestarts = proc.maxRestarts
      /\ v.state = "RUNNING" => v.node = proc.node
  BY DEF Served, Worked, Unplaced, Process
<1>2. old.state \notin Terminal
  BY <1>1 DEF Underway, JobOf, Terminal
<1>3. QED
  BY <1>1, <1>2 DEF Underway, JobOf

\* A job has its tick behind it at once when it has none to do.
LEMMA IdleUnderway ==
  ASSUME NEW old, NEW new, new.state # "RUNNING", Underway(old, new, FALSE)
  PROVE  Underway(old, new, TRUE)
  BY DEF Underway

LEMMA FreshIsSubmitted ==
  ASSUME NEW proc \in Process, proc.state = "READY", proc.node = NoNode,
         proc.remaining = proc.total, proc.restarts = 0
  PROVE  Promise!AsSubmitted(JobOf(proc)) = JobOf(proc)
<1>1. JobOf(proc) \in Job
  BY JobType
<1>2. /\ JobOf(proc).state = "READY" /\ JobOf(proc).node = NoNode
      /\ JobOf(proc).remaining = JobOf(proc).total /\ JobOf(proc).restarts = 0
  BY DEF JobOf
<1>3. QED
  BY <1>1, <1>2 DEF Job, Promise!AsSubmitted, Promise!NoNode, NoNode

LEMMA FreshUnderway ==
  ASSUME NEW proc \in Process, JustSubmitted(proc)
  PROVE  Underway(Promise!AsSubmitted(JobOf(proc)), JobOf(proc), FALSE)
<1>1. Promise!AsSubmitted(JobOf(proc)) = JobOf(proc)
  BY FreshIsSubmitted DEF JustSubmitted
<1>2. QED
  BY <1>1 DEF Underway, JobOf, JustSubmitted, Terminal

\* A tick begins with every job as it is.
LEMMA StartUnderway ==
  ASSUME NEW proc \in Process, proc.state # "NEW"
  PROVE  Underway(JobOf(proc), JobOf(proc), FALSE)
<1>1. proc.state \in ProcStates
  BY DEF Process
<1>2. QED
  BY <1>1 DEF Underway, JobOf, Terminal, ProcStates

\* What the whole tick did, read off at its end.
LEMMA UnderwayEnds ==
  ASSUME NEW old, NEW proc \in Process, NEW now, RecordRight(proc, now),
         Underway(old, JobOf(proc), TRUE)
  PROVE  Promise!Ticked(old, JobOf(proc))
<1>1. proc.state = "TERMINATED" <=> proc.remaining = 0
  BY DEF RecordRight, Timed
<1>2. /\ Promise!CanRestart(JobOf(proc)) <=> CanRestart(JobOf(proc))
      /\ Promise!Terminal = Terminal
  BY DEF Promise!CanRestart, CanRestart, Promise!Terminal, Terminal
<1> DEFINE new == JobOf(proc)
           work == IF new.restarts = old.restarts THEN old.remaining ELSE old.total
<1>3. new.state = proc.state /\ new.remaining = proc.remaining
  BY DEF JobOf
<1>4. new.remaining \in Int
  BY <1>3 DEF Process
<1>5. CASE old.state \in Terminal
  BY <1>2, <1>5 DEF Underway, Promise!Ticked
<1>6. CASE old.state \notin Terminal
  <2>1. new.remaining = work - (IF new.state \in {"RUNNING", "TERMINATED"} THEN 1 ELSE 0)
    <3>1. CASE new.state \in {"RUNNING", "TERMINATED"}
      BY <1>6, <3>1 DEF Underway
    <3>2. CASE new.state \notin {"RUNNING", "TERMINATED"}
      <4>1. new.remaining = work
        BY <1>6, <3>2 DEF Underway
      <4>2. QED
        BY <1>4, <3>2, <4>1
    <3>3. QED
      BY <3>1, <3>2
  <2>2. QED
    BY <1>1, <1>2, <1>3, <1>6, <2>1 DEF Underway, Promise!Ticked
<1>7. QED
  BY <1>5, <1>6

-----------------------------------------------------------------------------
(* The limits *)

\* A scenario names every definition once, so its IDs are as many as its records,
\* and finitely many.
LEMMA IdsCounted ==
  ASSUME NEW S, UniqueIds(S), IsFiniteSet(IdsOf(S))
  PROVE  IsFiniteSet(S) /\ Cardinality(IdsOf(S)) = Cardinality(S)
<1> DEFINE f == [d \in S |-> d.id]
<1>1. f \in Injection(S, IdsOf(S))
  BY DEF Injection, IsInjective, UniqueIds, IdsOf
<1>2. f \in Surjection(S, IdsOf(S))
  BY DEF Surjection, IdsOf
<1> HIDE DEF f
<1>3. QED
  BY <1>1, <1>2, FS_Injection

LEMMA MapsAreFinite ==
  ASSUME NEW ns, NEW ps, NodesOK(ns), ProcsOK(ps)
  PROVE  /\ IsFiniteSet(DOMAIN ns) /\ Cardinality(DOMAIN ns) \in Nat
         /\ IsFiniteSet(DOMAIN ps) /\ Cardinality(DOMAIN ps) \in Nat
  BY IdsAssumption, FS_Subset, FS_CardinalityType DEF NodesOK, ProcsOK

LEMMA FewerWithin ==
  ASSUME NEW ns, NEW ps, NodesOK(ns), ProcsOK(ps), WithinLimitsIn(ns, ps),
         NEW ms, NEW qs, DOMAIN ms \subseteq DOMAIN ns, DOMAIN qs \subseteq DOMAIN ps
  PROVE  WithinLimitsIn(ms, qs)
<1>1. /\ IsFiniteSet(DOMAIN ms) /\ Cardinality(DOMAIN ms) <= Cardinality(DOMAIN ns)
      /\ IsFiniteSet(DOMAIN qs) /\ Cardinality(DOMAIN qs) <= Cardinality(DOMAIN ps)
  BY MapsAreFinite, FS_Subset
<1>2. /\ Cardinality(DOMAIN ns) \in Nat /\ Cardinality(DOMAIN ms) \in Nat
      /\ Cardinality(DOMAIN ps) \in Nat /\ Cardinality(DOMAIN qs) \in Nat
  BY <1>1, MapsAreFinite, FS_CardinalityType
<1>3. MaxNodes \in Nat /\ MaxProcesses \in Nat
  BY ConfigAssumption
<1>4. QED
  BY <1>1, <1>2, <1>3 DEF WithinLimitsIn

LEMMA NothingWithin == WithinLimitsIn(NoNodes, NoProcs)
  BY FS_EmptySet, ConfigAssumption, NothingType DEF WithinLimitsIn

LEMMA RegisteredWithin ==
  ASSUME RInv, NEW n, NEW c, RegisterNode(n, c)
  PROVE  WithinLimitsIn(nodes', procs')
<1>1. /\ DOMAIN nodes' = DOMAIN nodes \cup {n} /\ n \notin DOMAIN nodes
      /\ Cardinality(DOMAIN nodes) < MaxNodes /\ procs' = procs
  BY DEF RegisterNode
<1>2. IsFiniteSet(DOMAIN nodes) /\ Cardinality(DOMAIN nodes) \in Nat
  BY MapsAreFinite DEF RInv, PInv, IInv, TypeOK
<1>3. Cardinality(DOMAIN nodes') = Cardinality(DOMAIN nodes) + 1
  BY <1>1, <1>2, FS_AddElement
<1>4. Cardinality(DOMAIN nodes') <= MaxNodes
  BY <1>1, <1>2, <1>3, ConfigAssumption
<1>5. QED
  BY <1>1, <1>4 DEF RInv, WithinLimitsIn

LEMMA SubmittedWithin ==
  ASSUME RInv, NEW p, NEW def, SubmitLocked(p, def), nodes' = nodes
  PROVE  WithinLimitsIn(nodes', procs')
<1>1. /\ DOMAIN procs' = DOMAIN procs \cup {p} /\ p \notin DOMAIN procs
      /\ Cardinality(DOMAIN procs) < MaxProcesses
  BY DEF SubmitLocked, CanSubmit
<1>2. IsFiniteSet(DOMAIN procs) /\ Cardinality(DOMAIN procs) \in Nat
  BY MapsAreFinite DEF RInv, PInv, IInv, TypeOK
<1>3. Cardinality(DOMAIN procs') = Cardinality(DOMAIN procs) + 1
  BY <1>1, <1>2, FS_AddElement
<1>4. Cardinality(DOMAIN procs') <= MaxProcesses
  BY <1>1, <1>2, <1>3, ConfigAssumption
<1>5. QED
  BY <1>4 DEF RInv, WithinLimitsIn

LEMMA LoadedWithin ==
  ASSUME TypeOK', NEW s \in Scenarios, LoadScenario(s)
  PROVE  WithinLimitsIn(nodes', procs')
<1>1. /\ UniqueIds(s.nodes) /\ UniqueIds(s.processes)
      /\ Cardinality(s.nodes) <= MaxNodes /\ Cardinality(s.processes) <= MaxProcesses
      /\ DOMAIN nodes' = IdsOf(s.nodes) /\ DOMAIN procs' = IdsOf(PresentAtStart(s))
  BY DEF LoadScenario, ValidScenario, WithinLimits, LoadedNodes, LoadedProcesses
<1>2. Cardinality(DOMAIN nodes') <= MaxNodes
  <2>1. IsFiniteSet(IdsOf(s.nodes))
    BY <1>1, MapsAreFinite DEF TypeOK
  <2>2. QED
    BY <1>1, <2>1, IdsCounted
<1>3. Cardinality(DOMAIN procs') <= MaxProcesses
  <2>1. IdsOf(s.processes) \subseteq ProcIds
    BY InputAssumption DEF IdsOf, Submission
  <2>2. IsFiniteSet(IdsOf(s.processes))
    BY <2>1, IdsAssumption, FS_Subset
  <2>3. Cardinality(IdsOf(s.processes)) <= MaxProcesses
    BY <1>1, <2>2, IdsCounted
  <2>4. IdsOf(PresentAtStart(s)) \subseteq IdsOf(s.processes)
    BY DEF IdsOf, PresentAtStart
  <2>5. /\ IsFiniteSet(IdsOf(PresentAtStart(s)))
        /\ Cardinality(IdsOf(PresentAtStart(s))) <= Cardinality(IdsOf(s.processes))
    BY <2>2, <2>4, FS_Subset
  <2>6. /\ Cardinality(IdsOf(PresentAtStart(s))) \in Nat
        /\ Cardinality(IdsOf(s.processes)) \in Nat
    BY <2>2, <2>5, FS_CardinalityType
  <2>7. MaxProcesses \in Nat
    BY ConfigAssumption
  <2>8. QED
    BY <1>1, <2>3, <2>5, <2>6, <2>7
<1>4. QED
  BY <1>2, <1>3 DEF WithinLimitsIn

-----------------------------------------------------------------------------
(* What a step inside a tick makes of the nodes *)

Downed(host) == [host EXCEPT !.status = "FAILED"]

\* The same nodes, as they were or FAILED.
HostsStep(ns, ms) ==
  /\ DOMAIN ms = DOMAIN ns
  /\ \A n \in DOMAIN ns : HostOf(ms[n]) = HostOf(ns[n]) \/ HostOf(ms[n]) = Downed(HostOf(ns[n]))

LEMMA HostUpdates ==
  ASSUME NEW node \in Node, NEW p, NEW proc
  PROVE  /\ HostOf(Released(node, p, proc)) = HostOf(node)
         /\ HostOf(Allocated(node, p, proc)) = HostOf(node)
         /\ HostOf(Emptied(node)) = Downed(HostOf(node))
         /\ Downed(Downed(HostOf(node))) = Downed(HostOf(node))
<1>1. /\ Released(node, p, proc).status = node.status
      /\ Released(node, p, proc).capacity = node.capacity
  BY DEF Released, Node
<1>2. /\ Allocated(node, p, proc).status = node.status
      /\ Allocated(node, p, proc).capacity = node.capacity
  BY DEF Allocated, Node
<1>3. Emptied(node).status = "FAILED" /\ Emptied(node).capacity = node.capacity
  BY DEF Emptied, Node
<1>4. Downed(HostOf(node)) = [status |-> "FAILED", capacity |-> node.capacity]
  BY DEF HostOf, Downed
<1>5. Downed(Downed(HostOf(node))) = Downed(HostOf(node))
  BY <1>4 DEF Downed
<1>6. QED
  BY <1>1, <1>2, <1>3, <1>4, <1>5 DEF HostOf

\* One node changes.
LEMMA OneHostSteps ==
  ASSUME NEW ns, NEW n \in DOMAIN ns, NEW v,
         HostOf(v) = HostOf(ns[n]) \/ HostOf(v) = Downed(HostOf(ns[n]))
  PROVE  HostsStep(ns, [ns EXCEPT ![n] = v])
<1> DEFINE ms == [ns EXCEPT ![n] = v]
<1>1. DOMAIN ms = DOMAIN ns /\ \A m \in DOMAIN ns : ms[m] = IF m = n THEN v ELSE ns[m]
  OBVIOUS
<1> HIDE DEF ms
<1>2. HostsStep(ns, ms)
  BY <1>1 DEF HostsStep
<1>3. QED
  BY <1>2 DEF ms

LEMMA NoHostSteps ==
  ASSUME NEW ns
  PROVE  HostsStep(ns, ns)
  BY DEF HostsStep

LEMMA ReleaseHosts ==
  ASSUME TypeOK, NEW p, CanRelease(p)
  PROVE  HostsStep(nodes, AfterRelease(p))
<1>1. procs[p].node \in DOMAIN nodes /\ nodes[procs[p].node] \in Node
  BY DEF CanRelease, TypeOK, NodesOK
<1>2. QED
  BY <1>1, HostUpdates, OneHostSteps DEF AfterRelease

LEMMA FailProcessHosts ==
  ASSUME TypeOK, NEW p, FailProcessLocked(p)
  PROVE  HostsStep(nodes, nodes')
  BY ReleaseHosts, NoHostSteps DEF FailProcessLocked, CanFailProcess

LEMMA FailNodeHosts ==
  ASSUME TypeOK, NEW n, FailNodeLocked(n)
  PROVE  HostsStep(nodes, nodes')
<1>1. n \in DOMAIN nodes /\ nodes[n] \in Node /\ nodes' = [nodes EXCEPT ![n] = Emptied(nodes[n])]
  BY DEF FailNodeLocked, CanFailNode, TypeOK, NodesOK
<1>2. QED
  BY <1>1, HostUpdates, OneHostSteps

LEMMA InsideStepHosts ==
  ASSUME PInv, InsideStep
  PROVE  HostsStep(nodes, nodes') \/ Rollback
<1> USE DEF PInv, IInv
<1>1. ASSUME NEW d \in pending, ApplySubmission(d)
      PROVE  HostsStep(nodes, nodes') \/ Rollback
  BY <1>1, NoHostSteps DEF ApplySubmission
<1>2. ASSUME NEW f \in failures, ApplyFailure(f)
      PROVE  HostsStep(nodes, nodes')
  BY <1>2, FailNodeHosts, FailProcessHosts DEF ApplyFailure
<1>3. ASSUME NEW f \in failures, RejectFailure(f)
      PROVE  Rollback
  BY <1>3 DEF RejectFailure
<1>4. ASSUME NEW n \in NodeIds, DetectMissedHeartbeat(n)
      PROVE  HostsStep(nodes, nodes')
  BY <1>4, FailNodeHosts DEF DetectMissedHeartbeat
<1>5. ASSUME NEW p \in ProcIds, Place(p)
      PROVE  HostsStep(nodes, nodes')
  <2>1. PICK n \in DOMAIN nodes : nodes' = [nodes EXCEPT ![n] = Allocated(nodes[n], p, procs[p])]
    BY <1>5, PlaceOnSucceeds
  <2>2. nodes[n] \in Node
    BY DEF TypeOK, NodesOK
  <2>3. HostOf(Allocated(nodes[n], p, procs[p])) = HostOf(nodes[n])
    BY <2>2, HostUpdates
  <2>4. HostsStep(nodes, [nodes EXCEPT ![n] = Allocated(nodes[n], p, procs[p])])
    BY <2>3, OneHostSteps
  <2>5. QED
    BY <2>1, <2>4
<1>6. ASSUME NEW p \in ProcIds, Execute(p)
      PROVE  HostsStep(nodes, nodes')
  BY <1>6, ReleaseHosts, NoHostSteps DEF Execute
<1>7. ASSUME NEW p \in ProcIds, Defer(p)
      PROVE  HostsStep(nodes, nodes')
  BY <1>7, NoHostSteps DEF Defer, clusterVars
<1>8. CASE EndApply \/ EndBeat \/ EndPlace \/ EndRun
  BY <1>8, NoHostSteps DEF EndApply, EndBeat, EndPlace, EndRun, clusterVars
<1>9. CASE EndStep
  BY <1>9, NoHostSteps DEF EndStep
<1>10. QED
  BY <1>1, <1>2, <1>3, <1>4, <1>5, <1>6, <1>7, <1>8, <1>9 DEF InsideStep

\* The phases of a tick in their order, and the copy that outlives them all.
LEMMA PhaseStep ==
  ASSUME InsideStep, phase' # "idle"
  PROVE  /\ saved' = saved /\ phase # "idle"
         /\ \/ phase \in {"apply", "beat", "place"} /\ phase' \in {"apply", "beat", "place"}
            \/ EndPlace
            \/ \E p \in ProcIds : Execute(p)
            \/ EndRun
<1> USE DEF stepVars, Rollback
<1>1. ASSUME NEW d \in pending, ApplySubmission(d)
      PROVE  saved' = saved /\ phase = "apply" /\ phase' = "apply"
  BY <1>1 DEF ApplySubmission
<1>2. ASSUME NEW f \in failures, ApplyFailure(f) \/ RejectFailure(f)
      PROVE  saved' = saved /\ phase = "apply" /\ phase' = "apply"
  BY <1>2 DEF ApplyFailure, RejectFailure
<1>3. ASSUME NEW n \in NodeIds, DetectMissedHeartbeat(n)
      PROVE  saved' = saved /\ phase = "beat" /\ phase' = "beat"
  BY <1>3 DEF DetectMissedHeartbeat
<1>4. ASSUME NEW p \in ProcIds, Place(p) \/ Defer(p)
      PROVE  saved' = saved /\ phase = "place" /\ phase' = "place"
  BY <1>4 DEF Place, Defer
<1>5. ASSUME NEW p \in ProcIds, Execute(p)
      PROVE  saved' = saved /\ phase = "run"
  BY <1>5 DEF Execute
<1>6. CASE EndApply \/ EndBeat
  BY <1>6 DEF EndApply, EndBeat
<1>7. CASE EndPlace \/ EndRun
  BY <1>7 DEF EndPlace, EndRun
<1>8. ~ EndStep
  BY DEF EndStep
<1>9. QED
  BY <1>1, <1>2, <1>3, <1>4, <1>5, <1>6, <1>7, <1>8 DEF InsideStep

-----------------------------------------------------------------------------
(* The invariant is kept *)

LEMMA CommandWithin ==
  ASSUME RInv, TypeOK', Command
  PROVE  WithinLimitsIn(nodes', procs')
<1>1. NodesOK(nodes) /\ ProcsOK(procs) /\ WithinLimitsIn(nodes, procs)
  BY DEF RInv, PInv, IInv, TypeOK
<1>2. (DOMAIN nodes' \subseteq DOMAIN nodes /\ DOMAIN procs' \subseteq DOMAIN procs)
        => WithinLimitsIn(nodes', procs')
  BY <1>1, FewerWithin
<1>3. ASSUME NEW n \in NodeIds, NodeCommand(n)
      PROVE  DOMAIN nodes' \subseteq DOMAIN nodes /\ DOMAIN procs' \subseteq DOMAIN procs
  BY <1>3 DEF NodeCommand, RemoveNode, FailNode, FailNodeLocked, RecoverNode, Heartbeat,
              ChangeNodeStatus
<1>4. ASSUME NEW p \in ProcIds, ProcessCommand(p)
      PROVE  DOMAIN nodes' \subseteq DOMAIN nodes /\ DOMAIN procs' \subseteq DOMAIN procs
  BY <1>4 DEF ProcessCommand, PauseProcess, ResumeProcess, WaitProcess, WakeProcess,
              KillProcess, FailProcess, FailProcessLocked, Vacate, Requeue, AfterRelease
<1>5. CASE Reset
  BY <1>5, NothingWithin DEF Reset
<1>6. CASE Start \/ PauseSimulation \/ Finish
  BY <1>1, <1>6 DEF Start, PauseSimulation, Finish
<1>7. ASSUME NEW a \in Algorithms, SetScheduler(a)
      PROVE  WithinLimitsIn(nodes', procs')
  BY <1>1, <1>7 DEF SetScheduler, clusterVars
<1>8. ASSUME NEW p \in ProcIds, NEW def \in Definitions, SubmitProcess(p, def)
      PROVE  WithinLimitsIn(nodes', procs')
  BY <1>8, SubmittedWithin DEF SubmitProcess
<1>9. QED
  BY <1>2, <1>3, <1>4, <1>5, <1>6, <1>7, <1>8, RegisteredWithin, LoadedWithin DEF Command

LEMMA InsideStepWithin ==
  ASSUME RInv, InsideStep
  PROVE  WithinLimitsIn(nodes', procs')
<1>1. NodesOK(nodes) /\ ProcsOK(procs) /\ WithinLimitsIn(nodes, procs) /\ PInv
  BY DEF RInv, PInv, IInv, TypeOK
<1>2. CASE Rollback
  BY <1>2 DEF Rollback, RInv
<1>3. CASE ~ Rollback
  <2>1. DOMAIN nodes' = DOMAIN nodes
    BY <1>1, <1>3, InsideStepHosts DEF HostsStep
  <2>2. ASSUME NEW d \in pending, ApplySubmission(d)
        PROVE  WithinLimitsIn(nodes', procs')
    BY <1>3, <2>2, SubmittedWithin DEF ApplySubmission
  <2>3. CASE DOMAIN procs' = DOMAIN procs
    BY <1>1, <2>1, <2>3, FewerWithin
  <2>4. ASSUME NEW f \in failures, ApplyFailure(f)
        PROVE  DOMAIN procs' = DOMAIN procs
    BY <2>4 DEF ApplyFailure, FailNodeLocked, FailProcessLocked
  <2>5. ASSUME NEW n \in NodeIds, DetectMissedHeartbeat(n)
        PROVE  DOMAIN procs' = DOMAIN procs
    BY <2>5 DEF DetectMissedHeartbeat, FailNodeLocked
  <2>6. ASSUME NEW p \in ProcIds, Place(p) \/ Defer(p) \/ Execute(p)
        PROVE  DOMAIN procs' = DOMAIN procs
    BY <2>6 DEF Place, PlaceOn, Defer, Execute, clusterVars
  <2>7. CASE EndApply \/ EndBeat \/ EndPlace \/ EndRun \/ EndStep
    BY <1>3, <2>3, <2>7 DEF EndApply, EndBeat, EndPlace, EndRun, EndStep, clusterVars
  <2>8. QED
    BY <1>3, <2>2, <2>3, <2>4, <2>5, <2>6, <2>7 DEF InsideStep, RejectFailure
<1>4. QED
  BY <1>2, <1>3

LEMMA NextWithin ==
  ASSUME RInv, TypeOK', [Next]_vars
  PROVE  WithinLimitsIn(nodes', procs') /\ WithinLimitsIn(saved.nodes, saved.procs)'
<1>1. WithinLimitsIn(nodes', procs')
  <2>1. CASE BeginStep
    BY <2>1 DEF BeginStep, RInv
  <2>2. CASE UNCHANGED vars
    BY <2>2 DEF vars, clusterVars, RInv
  <2>3. QED
    BY <2>1, <2>2, CommandWithin, InsideStepWithin DEF Next
<1>2. WithinLimitsIn(saved.nodes, saved.procs)'
  <2>1. CASE BeginStep
    BY <2>1 DEF BeginStep, Current, RInv
  <2>2. CASE saved' = NothingSaved
    <3>1. NothingSaved.nodes = NoNodes /\ NothingSaved.procs = NoProcs
      BY DEF NothingSaved
    <3>2. QED
      BY <2>2, <3>1, NothingWithin
  <2>3. CASE saved' = saved
    BY <2>3 DEF RInv
  <2>4. QED
    BY <2>1, <2>2, <2>3, CopyStands DEF vars, stepVars
<1>3. QED
  BY <1>1, <1>2

LEMMA HostsStayKept ==
  ASSUME RInv, InsideStep, phase' # "idle"
  PROVE  HostsKept'
<1>1. saved' = saved /\ HostsKept
  BY PhaseStep DEF RInv
<1>2. HostsStep(nodes, nodes')
  BY InsideStepHosts DEF RInv, Rollback
<1>3. DOMAIN nodes' = DOMAIN saved.nodes
  BY <1>1, <1>2 DEF HostsStep, HostsKept
<1>4. ASSUME NEW n \in DOMAIN nodes'
      PROVE  \/ HostOf(nodes'[n]) = HostOf(saved.nodes[n])
             \/ HostOf(nodes'[n]) = Downed(HostOf(saved.nodes[n]))
  <2>1. n \in DOMAIN nodes /\ n \in DOMAIN saved.nodes
    BY <1>2, <1>3 DEF HostsStep
  <2>2. saved.nodes[n] \in Node
    BY <2>1 DEF RInv, PInv, IInv, TypeOK, NodesOK
  <2>3. Downed(Downed(HostOf(saved.nodes[n]))) = Downed(HostOf(saved.nodes[n]))
    BY <2>2, HostUpdates
  <2>4. \/ HostOf(nodes[n]) = HostOf(saved.nodes[n])
        \/ HostOf(nodes[n]) = Downed(HostOf(saved.nodes[n]))
    BY <1>1, <2>1 DEF HostsKept, Downed
  <2>5. HostOf(nodes'[n]) = HostOf(nodes[n]) \/ HostOf(nodes'[n]) = Downed(HostOf(nodes[n]))
    BY <1>2, <2>1 DEF HostsStep
  <2>6. QED
    BY <2>3, <2>4, <2>5
<1>5. QED
  BY <1>1, <1>3, <1>4 DEF HostsKept, Downed

LEMMA OriginType ==
  ASSUME RInv, NEW p \in DOMAIN procs
  PROVE  Origin(p) \in Job
<1>1. CASE p \in DOMAIN saved.procs
  BY <1>1, JobType DEF Origin, RInv, PInv, IInv, TypeOK, ProcsOK
<1>2. CASE p \notin DOMAIN saved.procs
  <2>1. JobOf(procs[p]) \in Job
    BY JobType DEF RInv, PInv, IInv, TypeOK, ProcsOK
  <2>2. Promise!AsSubmitted(JobOf(procs[p])) \in Job
    <3>1. ASSUME NEW job \in Job
          PROVE  Promise!AsSubmitted(job) \in Job
      <4>1. job.total \in Int
        BY DEF Job
      <4>2. QED
        BY <4>1 DEF Promise!AsSubmitted, Promise!NoNode, NoNode, Job, ProcStates
    <3>2. QED
      BY <2>1, <3>1
  <2>3. QED
    BY <1>2, <2>2 DEF Origin
<1>3. QED
  BY <1>1, <1>2

\* What a process was at the beginning of the tick does not change during it.
LEMMA OriginStays ==
  ASSUME NEW new \in Process, NEW old \in Process,
         new.request = old.request, new.total = old.total,
         new.policy = old.policy, new.maxRestarts = old.maxRestarts
  PROVE  Promise!AsSubmitted(JobOf(new)) = Promise!AsSubmitted(JobOf(old))
<1>1. JobOf(new) \in Job /\ JobOf(old) \in Job
  BY JobType
<1>2. /\ JobOf(new).request = JobOf(old).request /\ JobOf(new).total = JobOf(old).total
      /\ JobOf(new).policy = JobOf(old).policy
      /\ JobOf(new).maxRestarts = JobOf(old).maxRestarts
  BY DEF JobOf
<1>3. QED
  BY <1>1, <1>2 DEF Job, Promise!AsSubmitted, Promise!NoNode, NoNode

\* Processes change as the phase allows, and those a tick submits are new.
LEMMA JobsStayUnderway ==
  ASSUME RInv, TypeOK', InsideStep, phase' # "idle"
  PROVE  JobsUnderway'
<1> DEFINE early == {"apply", "beat", "place"}
<1>1. saved' = saved /\ phase # "idle" /\ JobsUnderway
  BY PhaseStep DEF RInv
<1>2. ProcsEvolve
  BY InsideStepEvolves DEF RInv, Rollback
<1>3. DOMAIN saved'.procs \subseteq DOMAIN procs'
  BY <1>1, <1>2 DEF ProcsEvolve, JobsUnderway
<1>4. tick \in Nat /\ \A p \in DOMAIN procs : procs[p] \in Process
  BY DEF RInv, PInv, IInv, TypeOK, ProcsOK
<1>5. \A p \in DOMAIN procs' : procs'[p] \in Process
  BY DEF TypeOK, ProcsOK
<1>6. ASSUME NEW p \in DOMAIN procs
      PROVE  Origin(p)' = Origin(p)
  <2>1. CASE p \in DOMAIN saved.procs
    BY <1>1, <2>1 DEF Origin
  <2>2. CASE p \notin DOMAIN saved.procs
    <3>1. Evolves(procs[p], procs'[p]) /\ procs'[p] \in Process
      BY <1>2, <1>5 DEF ProcsEvolve
    <3>2. Promise!AsSubmitted(JobOf(procs'[p])) = Promise!AsSubmitted(JobOf(procs[p]))
      BY <1>4, <3>1, EvolvedAsSubmitted, OriginStays
    <3>3. QED
      BY <1>1, <2>2, <3>2 DEF Origin
  <2>3. QED
    BY <2>1, <2>2
<1>7. ASSUME NEW p \in DOMAIN procs
      PROVE  Underway(Origin(p), JobOf(procs[p]), WorkedNow(p))
  BY <1>1 DEF JobsUnderway
<1>8. ASSUME NEW p \in DOMAIN procs'
      PROVE  Underway(Origin(p)', JobOf(procs'[p]), WorkedNow(p)')
  <2>1. CASE phase \in early /\ phase' \in early
    <3>1. WorkedNow(p) = FALSE /\ WorkedNow(p)' = FALSE
      BY <2>1 DEF WorkedNow
    <3>2. CASE p \in DOMAIN procs
      <4>1. Evolves(procs[p], procs'[p])
        BY <1>2, <3>2 DEF ProcsEvolve
      <4>2. \/ procs'[p] = procs[p] \/ FailedNow(procs[p], procs'[p])
            \/ Begun(procs[p], procs'[p])
        BY <1>1, <2>1, <4>1 DEF Evolves
      <4>3. Underway(Origin(p), JobOf(procs[p]), FALSE)
        BY <1>7, <3>1, <3>2
      <4>4. Origin(p).restarts \in Nat /\ WithinBudget(procs[p])
        BY <3>2, OriginType DEF Job, RInv, PInv, Lived, RecordRight
      <4>5. Underway(Origin(p), JobOf(procs'[p]), FALSE)
        BY <1>4, <3>2, <4>2, <4>3, <4>4, FailureUnderway, PlacementUnderway
      <4>6. QED
        BY <1>6, <3>1, <3>2, <4>5
    <3>3. CASE p \notin DOMAIN procs
      <4>1. JustSubmitted(procs'[p]) /\ p \notin DOMAIN saved.procs
        BY <1>1, <1>2, <3>3 DEF ProcsEvolve, JobsUnderway
      <4>2. Origin(p)' = Promise!AsSubmitted(JobOf(procs'[p]))
        BY <1>1, <4>1 DEF Origin
      <4>3. QED
        BY <1>5, <3>1, <4>1, <4>2, FreshUnderway
    <3>4. QED
      BY <3>2, <3>3
  <2>2. CASE EndPlace
    <3>1. /\ phase = "place" /\ phase' = "run" /\ todo' = InState("RUNNING") /\ procs' = procs
      BY <2>2 DEF EndPlace, clusterVars
    <3>2. WorkedNow(p) = FALSE /\ (WorkedNow(p)' = (procs[p].state # "RUNNING"))
      BY <3>1 DEF WorkedNow, InState
    <3>3. Underway(Origin(p), JobOf(procs[p]), FALSE)
      BY <1>7, <3>1, <3>2
    <3>4. CASE procs[p].state = "RUNNING"
      BY <1>6, <3>1, <3>2, <3>3, <3>4
    <3>5. CASE procs[p].state # "RUNNING"
      <4>1. JobOf(procs[p]).state # "RUNNING"
        BY <3>5 DEF JobOf
      <4>2. Underway(Origin(p), JobOf(procs[p]), TRUE)
        BY <3>3, <4>1, IdleUnderway
      <4>3. QED
        BY <1>6, <3>1, <3>2, <3>5, <4>2
    <3>6. QED
      BY <3>4, <3>5
  <2>3. ASSUME NEW e \in ProcIds, Execute(e)
        PROVE  Underway(Origin(p)', JobOf(procs'[p]), WorkedNow(p)')
    <3>1. /\ phase = "run" /\ phase' = "run" /\ todo' = todo \ {e} /\ e \in todo
      BY <2>3 DEF Execute
    <3>2. PICK v : Served(procs[e], v) /\ procs' = [procs EXCEPT ![e] = v]
      BY <2>3, ExecuteServes DEF RInv, PInv
    <3>3. e \in DOMAIN procs
      BY <2>3, ExecuteServes DEF RInv, PInv
    <3>4. CASE p = e
      <4>1. WorkedNow(p) = FALSE /\ WorkedNow(p)' = TRUE
        BY <3>1, <3>4 DEF WorkedNow
      <4>2. Underway(Origin(p), JobOf(procs[p]), FALSE)
        BY <1>7, <3>3, <3>4, <4>1
      <4>3. procs'[p] = v
        BY <3>2, <3>3, <3>4
      <4>4. Underway(Origin(p), JobOf(v), TRUE)
        BY <1>4, <3>2, <3>3, <3>4, <4>2, ServiceUnderway
      <4>5. QED
        BY <1>6, <3>3, <3>4, <4>1, <4>3, <4>4
    <3>5. CASE p # e
      <4>1. WorkedNow(p)' = WorkedNow(p) /\ procs'[p] = procs[p] /\ p \in DOMAIN procs
        BY <3>1, <3>2, <3>3, <3>5 DEF WorkedNow
      <4>2. QED
        BY <1>6, <1>7, <4>1
    <3>6. QED
      BY <3>4, <3>5
  <2>4. CASE EndRun
    <3>1. phase = "run" /\ phase' = "close" /\ todo = {} /\ procs' = procs
      BY <2>4 DEF EndRun, clusterVars
    <3>2. WorkedNow(p) = TRUE /\ WorkedNow(p)' = TRUE
      BY <3>1 DEF WorkedNow
    <3>3. QED
      BY <1>6, <1>7, <3>1, <3>2
  <2>5. QED
    BY <2>1, <2>2, <2>3, <2>4, PhaseStep
<1>9. QED
  BY <1>3, <1>8 DEF JobsUnderway

LEMMA TickStarts ==
  ASSUME RInv, BeginStep
  PROVE  HostsKept' /\ JobsUnderway'
<1>1. /\ saved' = Current /\ nodes' = nodes /\ procs' = procs /\ phase' = "apply"
  BY DEF BeginStep
<1>2. saved'.nodes = nodes /\ saved'.procs = procs
  BY <1>1 DEF Current
<1>3. HostsKept'
  BY <1>1, <1>2 DEF HostsKept
<1>4. ASSUME NEW p \in DOMAIN procs
      PROVE  Underway(JobOf(procs[p]), JobOf(procs[p]), FALSE)
  BY StartUnderway DEF RInv, PInv, IInv, TypeOK, ProcsOK, Lived, RecordRight
<1>5. \A p \in DOMAIN procs : Origin(p)' = JobOf(procs[p]) /\ WorkedNow(p)' = FALSE
  BY <1>1, <1>2 DEF Origin, WorkedNow
<1>6. QED
  BY <1>1, <1>2, <1>3, <1>4, <1>5 DEF JobsUnderway

LEMMA CommandKeepsPhase == Command => phase' = phase
<1>1. \A n \in NodeIds : NodeCommand(n) => phase' = phase
  BY DEF NodeCommand, RemoveNode, FailNode, RecoverNode, Heartbeat, ChangeNodeStatus, Free,
         stepVars
<1>2. \A p \in ProcIds : ProcessCommand(p) => phase' = phase
  BY DEF ProcessCommand, PauseProcess, ResumeProcess, WaitProcess, WakeProcess,
         KillProcess, FailProcess, Free, stepVars
<1>3. QED
  BY <1>1, <1>2
  DEF Command, RegisterNode, SubmitProcess, SetScheduler, LoadScenario, Start,
      PauseSimulation, Reset, Finish, Free, stepVars

LEMMA NextRInv ==
  ASSUME RInv, [Next]_vars
  PROVE  RInv'
<1>1. PInv' /\ TypeOK'
  BY NextPInv DEF RInv, PInv, IInv
<1>2. WithinLimitsIn(nodes', procs') /\ WithinLimitsIn(saved.nodes, saved.procs)'
  BY <1>1, NextWithin
<1>3. ASSUME phase' # "idle"
      PROVE  HostsKept' /\ JobsUnderway'
  <2>1. ~ Command
    BY <1>3, CommandNeedsMutex, CommandKeepsPhase
  <2>2. CASE BeginStep
    BY <2>2, TickStarts
  <2>3. CASE InsideStep
    BY <1>1, <1>3, <2>3, HostsStayKept, JobsStayUnderway
  <2>4. CASE UNCHANGED vars
    BY <1>3, <2>4 DEF RInv, HostsKept, JobsUnderway, Origin, WorkedNow, vars, clusterVars,
                      stepVars
  <2>5. QED
    BY <2>1, <2>2, <2>3, <2>4 DEF Next
<1>4. QED
  BY <1>1, <1>2, <1>3 DEF RInv

LEMMA RefinementInvariant == Spec => []RInv
<1>1. Init => WithinLimitsIn(nodes, procs)
  BY NothingWithin DEF Init
<1>2. Init => WithinLimitsIn(saved.nodes, saved.procs)
  <2>1. NothingSaved.nodes = NoNodes /\ NothingSaved.procs = NoProcs
    BY DEF NothingSaved
  <2>2. QED
    BY <2>1, NothingWithin DEF Init
<1>3. Init => phase = "idle"
  BY DEF Init
<1>4. Init /\ PInv => RInv
  BY <1>1, <1>2, <1>3 DEF RInv
<1>5. RInv /\ [Next]_vars => RInv'
  BY NextRInv
<1>6. QED
  BY <1>4, <1>5, ProgressInvariant, PTL DEF Spec

-----------------------------------------------------------------------------
(* Commands *)

SeenHosts == [n \in DOMAIN Seen.nodes |-> HostOf(Seen.nodes[n])]
SeenJobs  == [p \in DOMAIN Seen.procs |-> JobOf(Seen.procs[p])]

\* A step of the promise, without what Feasible says of the state it leads to.
Promised ==
  \/ Promise!SimCommand \/ Promise!Tick \/ Promise!Replacement
  \/ \E n \in NodeIds : Promise!Join(n) \/ Promise!Leave(n) \/ Promise!Turn(n)
  \/ \E p \in ProcIds : Promise!Submitted(p) \/ Promise!JobCommand(p)
  \/ UNCHANGED <<Seen.status, SeenHosts, SeenJobs, Seen.tick>>

\* Between ticks everything is seen.
LEMMA SeenIdle ==
  ASSUME phase = "idle", phase' = "idle"
  PROVE  /\ Seen.status = status /\ Seen'.status = status'
         /\ Seen.tick = tick /\ Seen'.tick = tick'
         /\ SeenHosts = Hosts(nodes) /\ SeenHosts' = Hosts(nodes')
         /\ SeenJobs = Jobs(procs) /\ SeenJobs' = Jobs(procs')
  BY DEF Seen, Current, SeenHosts, SeenJobs, Hosts, Jobs

LEMMA MapFacts ==
  /\ \A ns : DOMAIN Hosts(ns) = DOMAIN ns /\ \A n \in DOMAIN ns : Hosts(ns)[n] = HostOf(ns[n])
  /\ \A ps : DOMAIN Jobs(ps) = DOMAIN ps /\ \A p \in DOMAIN ps : Jobs(ps)[p] = JobOf(ps[p])
  BY DEF Hosts, Jobs

LEMMA RegisterJoins ==
  ASSUME NEW n \in NodeIds, NEW c, RegisterNode(n, c)
  PROVE  Promised
<1>1. /\ DOMAIN nodes' = DOMAIN nodes \cup {n} /\ n \notin DOMAIN nodes
      /\ \A m \in DOMAIN nodes : nodes'[m] = nodes[m]
      /\ nodes'[n] = NewNode(c, tick) /\ UNCHANGED <<procs, tick, status>>
      /\ phase = "idle" /\ phase' = "idle"
  BY DEF RegisterNode, Free, stepVars
<1>2. HostOf(nodes'[n]).status = "ONLINE"
  BY <1>1 DEF HostOf, NewNode
<1>3. /\ n \notin DOMAIN SeenHosts
      /\ DOMAIN SeenHosts' = DOMAIN SeenHosts \cup {n}
      /\ SeenHosts'[n].status = "ONLINE"
      /\ \A m \in DOMAIN SeenHosts : SeenHosts'[m] = SeenHosts[m]
      /\ UNCHANGED <<Seen.status, SeenJobs, Seen.tick>>
  <2>1. /\ DOMAIN Hosts(nodes) = DOMAIN nodes /\ DOMAIN Hosts(nodes') = DOMAIN nodes'
        /\ Hosts(nodes')[n] = HostOf(nodes'[n])
        /\ \A m \in DOMAIN nodes : Hosts(nodes')[m] = Hosts(nodes)[m]
    BY <1>1, MapFacts
  <2>2. QED
    BY <1>1, <1>2, <2>1, SeenIdle
<1>4. Promise!Join(n)
  BY <1>3 DEF Promise!Join, SeenHosts, SeenJobs
<1>5. QED
  BY <1>4 DEF Promised

LEMMA RemoveLeaves ==
  ASSUME RInv, NEW n \in NodeIds, RemoveNode(n)
  PROVE  Promised
<1>1. /\ n \in DOMAIN nodes /\ nodes[n].running = {}
      /\ nodes' = [m \in DOMAIN nodes \ {n} |-> nodes[m]] /\ UNCHANGED <<procs, tick, status>>
      /\ phase = "idle" /\ phase' = "idle"
  BY DEF RemoveNode, Free, stepVars
<1>2. {p \in DOMAIN Jobs(procs) : Jobs(procs)[p].node = n} = {}
  BY <1>1, GuestsAreListed DEF RInv, PInv, IInv, TypeOK
<1>3. Hosts(nodes') = [m \in DOMAIN Hosts(nodes) \ {n} |-> Hosts(nodes)[m]]
  BY <1>1 DEF Hosts
<1>4. /\ n \in DOMAIN SeenHosts /\ {p \in DOMAIN SeenJobs : SeenJobs[p].node = n} = {}
      /\ SeenHosts' = [m \in DOMAIN SeenHosts \ {n} |-> SeenHosts[m]]
      /\ UNCHANGED <<Seen.status, SeenJobs, Seen.tick>>
  BY <1>1, <1>2, <1>3, SeenIdle, MapFacts
<1>5. Promise!Leave(n)
  BY <1>4 DEF Promise!Leave, Promise!Guests, SeenHosts, SeenJobs
<1>6. QED
  BY <1>5 DEF Promised

LEMMA SubmitSubmits ==
  ASSUME TypeOK', NEW p \in ProcIds, NEW def, SubmitProcess(p, def)
  PROVE  Promised
<1>1. /\ DOMAIN procs' = DOMAIN procs \cup {p} /\ p \notin DOMAIN procs
      /\ \A q \in DOMAIN procs : procs'[q] = procs[q]
      /\ procs'[p] = [NewProcess(def, tick) EXCEPT !.state = "READY"]
      /\ status' = IF status = "COMPLETED" THEN "IDLE" ELSE status
      /\ UNCHANGED <<nodes, tick>> /\ phase = "idle" /\ phase' = "idle"
  BY DEF SubmitProcess, SubmitLocked, CanSubmit, Free, stepVars
<1>2. procs'[p] \in Process
  BY <1>1 DEF TypeOK, ProcsOK
<1>3. /\ procs'[p].state = "READY" /\ procs'[p].node = NoNode
      /\ procs'[p].remaining = procs'[p].total /\ procs'[p].restarts = 0
  BY <1>1 DEF NewProcess
<1>4. JobOf(procs'[p]) = Promise!AsSubmitted(JobOf(procs'[p]))
  BY <1>2, <1>3, FreshIsSubmitted
<1>5. /\ p \notin DOMAIN SeenJobs /\ DOMAIN SeenJobs' = DOMAIN SeenJobs \cup {p}
      /\ SeenJobs'[p] = Promise!AsSubmitted(SeenJobs'[p])
      /\ \A q \in DOMAIN SeenJobs : SeenJobs'[q] = SeenJobs[q]
      /\ Seen'.status = IF Seen.status = "COMPLETED" THEN "IDLE" ELSE Seen.status
      /\ UNCHANGED <<SeenHosts, Seen.tick>>
  <2>1. /\ DOMAIN Jobs(procs) = DOMAIN procs /\ DOMAIN Jobs(procs') = DOMAIN procs'
        /\ Jobs(procs')[p] = JobOf(procs'[p])
        /\ \A q \in DOMAIN procs : Jobs(procs')[q] = Jobs(procs)[q]
    <3>1. DOMAIN Jobs(procs) = DOMAIN procs /\ DOMAIN Jobs(procs') = DOMAIN procs'
      BY MapFacts
    <3>2. p \in DOMAIN procs' /\ DOMAIN procs \subseteq DOMAIN procs'
      BY <1>1
    <3>3. Jobs(procs')[p] = JobOf(procs'[p])
      BY <3>2, MapFacts
    <3>4. \A q \in DOMAIN procs :
            Jobs(procs')[q] = JobOf(procs'[q]) /\ Jobs(procs)[q] = JobOf(procs[q])
      BY <3>2, MapFacts
    <3>5. \A q \in DOMAIN procs : JobOf(procs'[q]) = JobOf(procs[q])
      BY <1>1
    <3>6. QED
      BY <3>1, <3>3, <3>4, <3>5
  <2>2. QED
    BY <1>1, <1>4, <2>1, SeenIdle
<1>6. Promise!Submitted(p)
  BY <1>5 DEF Promise!Submitted, Promise!MarkSubmitted, SeenHosts, SeenJobs
<1>7. QED
  BY <1>6 DEF Promised

\* The nodes of the promise after one node changed its status.
LEMMA TurnedHosts ==
  ASSUME NEW ns, NEW n \in DOMAIN ns, NEW v, NEW s,
         HostOf(v) = [HostOf(ns[n]) EXCEPT !.status = s]
  PROVE  Hosts([ns EXCEPT ![n] = v]) = [Hosts(ns) EXCEPT ![n].status = s]
<1> DEFINE ms == [ns EXCEPT ![n] = v]
           hs == [Hosts(ns) EXCEPT ![n].status = s]
<1>1. DOMAIN ms = DOMAIN ns /\ \A m \in DOMAIN ns : ms[m] = IF m = n THEN v ELSE ns[m]
  OBVIOUS
<1>2. Hosts(ms) = [m \in DOMAIN ns |-> HostOf(ms[m])]
  BY <1>1 DEF Hosts
<1>3. Hosts(ns) = [m \in DOMAIN ns |-> HostOf(ns[m])]
  BY DEF Hosts
<1> HIDE DEF ms
<1>4. hs = [m \in DOMAIN ns |-> IF m = n THEN [HostOf(ns[m]) EXCEPT !.status = s]
                                        ELSE HostOf(ns[m])]
  BY <1>3
<1>5. \A m \in DOMAIN ns :
        HostOf(ms[m]) = IF m = n THEN [HostOf(ns[m]) EXCEPT !.status = s] ELSE HostOf(ns[m])
  BY <1>1
<1> HIDE DEF hs
<1>6. Hosts(ms) = hs
  BY <1>2, <1>4, <1>5
<1>7. QED
  BY <1>6 DEF ms, hs

\* A node changes its status between ticks and nobody else notices.
LEMMA StatusTurns ==
  ASSUME RInv, NEW n \in NodeIds, n \in DOMAIN nodes, NEW s \in NodeStatuses \ {"FAILED"},
         s \in {"OFFLINE", "RECOVERING"} => nodes[n].running = {},
         NEW v, nodes' = [nodes EXCEPT ![n] = v],
         v.status = s, v.capacity = nodes[n].capacity,
         UNCHANGED <<procs, tick, status>>, phase = "idle", phase' = "idle"
  PROVE  Promised
<1>1. HostOf(v) = [HostOf(nodes[n]) EXCEPT !.status = s]
  BY DEF HostOf
<1>2. Hosts(nodes') = [Hosts(nodes) EXCEPT ![n].status = s]
  <2>1. Hosts([nodes EXCEPT ![n] = v]) = [Hosts(nodes) EXCEPT ![n].status = s]
    BY ONLY <1>1, TurnedHosts, n \in DOMAIN nodes
  <2>2. QED
    BY <2>1
<1>3. {p \in DOMAIN Jobs(procs) : Jobs(procs)[p].node = n} = nodes[n].running
  BY GuestsAreListed DEF RInv, PInv, IInv, TypeOK
<1>4. Jobs(procs) = [p \in DOMAIN Jobs(procs) |-> Jobs(procs)[p]]
  BY DEF Jobs
<1> DEFINE guests == {p \in DOMAIN SeenJobs : SeenJobs[p].node = n}
<1>5. guests = nodes[n].running
  BY <1>3, SeenIdle
<1>6. /\ n \in DOMAIN SeenHosts
      /\ SeenHosts' = [SeenHosts EXCEPT ![n].status = s]
      /\ SeenJobs' = SeenJobs /\ SeenJobs = [p \in DOMAIN SeenJobs |-> SeenJobs[p]]
      /\ UNCHANGED <<Seen.status, Seen.tick>>
  BY <1>2, <1>4, SeenIdle, MapFacts
<1>7. s \in {"OFFLINE", "RECOVERING"} => guests = {}
  BY <1>5
<1> HIDE DEF guests
<1>8. SeenJobs' = [p \in DOMAIN SeenJobs |->
                     IF s = "FAILED" /\ p \in guests THEN Promise!Failed(SeenJobs[p])
                                                     ELSE SeenJobs[p]]
  BY <1>6
<1>9. Promise!Turn(n)
  BY <1>6, <1>7, <1>8
  DEF Promise!Turn, Promise!Guests, Promise!NodeStatuses, NodeStatuses, SeenHosts, SeenJobs, guests
<1>10. QED
  BY <1>9 DEF Promised

\* A failure, as the promise sees it.
LEMMA FailedJob ==
  ASSUME NEW proc \in Process, NEW now
  PROVE  JobOf(AfterFailure(Unplaced(proc), now)) = Promise!Failed(JobOf(proc))
<1>1. /\ CanRestart(Unplaced(proc)) <=> CanRestart(proc)
      /\ Promise!CanRestart(JobOf(proc)) <=> CanRestart(proc)
  BY DEF Promise!CanRestart, CanRestart, Unplaced, JobOf, Process
<1> DEFINE job == JobOf(proc)
<1>2. job \in Job
  BY JobType
<1>3. CASE CanRestart(proc)
  <2>1. AfterFailure(Unplaced(proc), now)
          = [proc EXCEPT !.node = NoNode, !.state = "READY", !.restarts = @ + 1,
                         !.remaining = proc.total, !.finished = NoTick, !.lastReady = now]
    BY <1>1, <1>3 DEF AfterFailure, Unplaced, Process
  <2>2. JobOf(AfterFailure(Unplaced(proc), now))
          = [state |-> "READY", node |-> NoNode, remaining |-> proc.total,
             restarts |-> proc.restarts + 1, request |-> proc.request,
             total |-> proc.total, policy |-> proc.policy,
             maxRestarts |-> proc.maxRestarts]
    BY <2>1 DEF JobOf, Process
  <2>3. Promise!Failed(job) = [job EXCEPT !.state = "READY", !.node = NoNode,
                                          !.remaining = job.total, !.restarts = @ + 1]
    BY <1>1, <1>3 DEF Promise!Failed, Promise!NoNode, NoNode
  <2>4. /\ job.restarts = proc.restarts /\ job.total = proc.total
        /\ job.request = proc.request /\ job.policy = proc.policy
        /\ job.maxRestarts = proc.maxRestarts
    BY DEF JobOf
  <2> HIDE DEF job
  <2>5. Promise!Failed(job)
          = [state |-> "READY", node |-> NoNode, remaining |-> proc.total,
             restarts |-> proc.restarts + 1, request |-> proc.request,
             total |-> proc.total, policy |-> proc.policy,
             maxRestarts |-> proc.maxRestarts]
    BY <1>2, <2>3, <2>4 DEF Job
  <2>6. QED
    BY <2>2, <2>5 DEF job
<1>4. CASE ~ CanRestart(proc)
  <2>1. AfterFailure(Unplaced(proc), now)
          = [proc EXCEPT !.node = NoNode, !.state = "FAILED", !.finished = now]
    BY <1>1, <1>4 DEF AfterFailure, Unplaced, Process
  <2>2. JobOf(AfterFailure(Unplaced(proc), now))
          = [state |-> "FAILED", node |-> NoNode, remaining |-> proc.remaining,
             restarts |-> proc.restarts, request |-> proc.request,
             total |-> proc.total, policy |-> proc.policy,
             maxRestarts |-> proc.maxRestarts]
    BY <2>1 DEF JobOf, Process
  <2>3. Promise!Failed(job) = [job EXCEPT !.state = "FAILED", !.node = NoNode]
    BY <1>1, <1>4 DEF Promise!Failed, Promise!NoNode, NoNode
  <2>4. /\ job.restarts = proc.restarts /\ job.total = proc.total
        /\ job.request = proc.request /\ job.policy = proc.policy
        /\ job.maxRestarts = proc.maxRestarts /\ job.remaining = proc.remaining
    BY DEF JobOf
  <2> HIDE DEF job
  <2>5. Promise!Failed(job)
          = [state |-> "FAILED", node |-> NoNode, remaining |-> proc.remaining,
             restarts |-> proc.restarts, request |-> proc.request,
             total |-> proc.total, policy |-> proc.policy,
             maxRestarts |-> proc.maxRestarts]
    BY <1>2, <2>3, <2>4 DEF Job
  <2>6. QED
    BY <2>2, <2>5 DEF job
<1>5. QED
  BY <1>3, <1>4

LEMMA FailureTurns ==
  ASSUME RInv, NEW n \in NodeIds, FailNode(n)
  PROVE  Promised
<1>1. /\ n \in DOMAIN nodes /\ nodes' = [nodes EXCEPT ![n] = Emptied(nodes[n])]
      /\ procs' = [p \in DOMAIN procs |-> IF p \in nodes[n].running
                                            THEN AfterFailure(Unplaced(procs[p]), tick)
                                            ELSE procs[p]]
      /\ UNCHANGED <<tick, status>> /\ phase = "idle" /\ phase' = "idle"
  BY DEF FailNode, FailNodeLocked, CanFailNode, Free, stepVars
<1>2. nodes[n] \in Node /\ \A p \in DOMAIN procs : procs[p] \in Process
  BY <1>1 DEF RInv, PInv, IInv, TypeOK, NodesOK, ProcsOK
<1> DEFINE v == Emptied(nodes[n])
           s == "FAILED"
<1>3. HostOf(v) = [HostOf(nodes[n]) EXCEPT !.status = s]
  BY <1>2, HostUpdates DEF Downed
<1> HIDE DEF v
<1>4. n \in DOMAIN nodes
  BY <1>1
<1>5. Hosts([nodes EXCEPT ![n] = v]) = [Hosts(nodes) EXCEPT ![n].status = s]
  BY ONLY <1>3, <1>4, TurnedHosts
<1>6. Hosts(nodes') = [Hosts(nodes) EXCEPT ![n].status = s]
  BY <1>1, <1>5 DEF v
<1> DEFINE guests == {p \in DOMAIN SeenJobs : SeenJobs[p].node = n}
<1>7. guests = nodes[n].running
  BY <1>1, SeenIdle, GuestsAreListed DEF RInv, PInv, IInv, TypeOK
<1> HIDE DEF guests
<1>8. ASSUME NEW p \in DOMAIN procs
      PROVE  JobOf(procs'[p]) = IF p \in guests THEN Promise!Failed(Jobs(procs)[p])
                                                ELSE Jobs(procs)[p]
  <2>1. procs[p] \in Process /\ Jobs(procs)[p] = JobOf(procs[p])
    BY <1>2, MapFacts
  <2>2. CASE p \in guests
    BY <1>1, <1>7, <2>1, <2>2, FailedJob
  <2>3. CASE p \notin guests
    BY <1>1, <1>7, <2>1, <2>3
  <2>4. QED
    BY <2>2, <2>3
<1>9. DOMAIN procs' = DOMAIN procs
  BY <1>1
<1>10. Jobs(procs') = [p \in DOMAIN procs |-> IF p \in guests THEN Promise!Failed(Jobs(procs)[p])
                                                              ELSE Jobs(procs)[p]]
  BY <1>8, <1>9 DEF Jobs
<1>11. /\ n \in DOMAIN SeenHosts
       /\ SeenHosts' = [SeenHosts EXCEPT ![n].status = s]
       /\ UNCHANGED <<Seen.status, Seen.tick>>
  BY <1>1, <1>6, SeenIdle, MapFacts
<1>12. SeenJobs = Jobs(procs) /\ SeenJobs' = Jobs(procs') /\ DOMAIN Jobs(procs) = DOMAIN procs
  BY <1>1, SeenIdle, MapFacts
<1>13. SeenJobs' = [p \in DOMAIN SeenJobs |-> IF p \in guests THEN Promise!Failed(SeenJobs[p])
                                                              ELSE SeenJobs[p]]
  BY <1>10, <1>12
<1>14. SeenJobs' = [p \in DOMAIN SeenJobs |->
                      IF s = "FAILED" /\ p \in guests THEN Promise!Failed(SeenJobs[p])
                                                      ELSE SeenJobs[p]]
  BY <1>13
<1>15. s \in Promise!NodeStatuses /\ s \notin {"OFFLINE", "RECOVERING"}
  BY DEF Promise!NodeStatuses
<1> HIDE DEF s
<1>16. s \in {"OFFLINE", "RECOVERING"} => guests = {}
  BY <1>15
<1>17. Promise!Turn(n)
  BY <1>11, <1>14, <1>15, <1>16 DEF Promise!Turn, Promise!Guests, SeenHosts, SeenJobs, guests
<1>18. QED
  BY <1>17 DEF Promised

\* Commands on a node that the promise sees as a change of its status or not at all.
LEMMA NodeCommandPromised ==
  ASSUME RInv, NEW n \in NodeIds, NodeCommand(n)
  PROVE  Promised
<1> USE DEF Free, stepVars
<1>1. ASSUME n \in DOMAIN nodes
      PROVE  nodes[n] \in Node /\ (nodes[n].status \notin {"ONLINE", "DRAINING"}
                                     => nodes[n].running = {})
  BY <1>1 DEF RInv, PInv, IInv, TypeOK, NodesOK, Sound, HostsUpIn
<1>2. CASE RecoverNode(n)
  <2> DEFINE v == [nodes[n] EXCEPT !.status = "ONLINE", !.heartbeat = tick]
  <2>1. /\ n \in DOMAIN nodes /\ nodes' = [nodes EXCEPT ![n] = v]
        /\ UNCHANGED <<procs, tick, status>> /\ phase = "idle" /\ phase' = "idle"
    BY <1>2 DEF RecoverNode
  <2>2. v.status = "ONLINE" /\ v.capacity = nodes[n].capacity
    BY <1>1, <2>1 DEF Node
  <2> HIDE DEF v
  <2>3. QED
    BY <2>1, <2>2, StatusTurns DEF NodeStatuses
<1>3. ASSUME NEW s \in NodeStatuses, ChangeNodeStatus(n, s)
      PROVE  Promised
  <2> DEFINE v == [nodes[n] EXCEPT !.status = s,
                                   !.heartbeat = IF s = "ONLINE" THEN tick ELSE @]
  <2>1. /\ n \in DOMAIN nodes /\ nodes' = [nodes EXCEPT ![n] = v]
        /\ UNCHANGED <<procs, tick, status>> /\ phase = "idle" /\ phase' = "idle"
        /\ s # "FAILED"
    BY <1>3 DEF ChangeNodeStatus
  <2>2. v.status = s /\ v.capacity = nodes[n].capacity
    BY <1>1, <2>1 DEF Node
  <2>3. s \in {"OFFLINE", "RECOVERING"} => nodes[n].running = {}
    <3>1. s = "OFFLINE" => nodes[n].running = {}
      BY <1>3 DEF ChangeNodeStatus
    <3>2. s = "RECOVERING" => nodes[n].status \in {"RECOVERING", "OFFLINE"}
      BY <1>3 DEF ChangeNodeStatus, NodeTransitions
    <3>3. QED
      BY <1>1, <2>1, <3>1, <3>2
  <2> HIDE DEF v
  <2>4. QED
    BY <2>1, <2>2, <2>3, StatusTurns
<1>4. CASE Heartbeat(n)
  <2> DEFINE v == [nodes[n] EXCEPT !.heartbeat = tick]
  <2>1. /\ n \in DOMAIN nodes /\ nodes' = [nodes EXCEPT ![n] = v]
        /\ UNCHANGED <<procs, tick, status>> /\ phase = "idle" /\ phase' = "idle"
    BY <1>4 DEF Heartbeat
  <2>2. HostOf(v) = HostOf(nodes[n])
    BY <1>1, <2>1 DEF Node, HostOf
  <2> HIDE DEF v
  <2>3. DOMAIN nodes' = DOMAIN nodes /\ \A m \in DOMAIN nodes : HostOf(nodes'[m]) = HostOf(nodes[m])
    BY <2>1, <2>2
  <2>4. Hosts(nodes') = Hosts(nodes)
    BY <2>3 DEF Hosts
  <2>5. QED
    BY <2>1, <2>4, SeenIdle DEF Promised
<1>5. QED
  BY <1>2, <1>3, <1>4, RemoveLeaves, FailureTurns DEF NodeCommand

\* A process that leaves its node, as the promise sees it.
LEMMA LeftJob ==
  ASSUME NEW job \in Job, NEW s, NEW left,
         left = [job EXCEPT !.state = s, !.node = NoNode]
  PROVE  left = [state |-> s, node |-> NoNode, remaining |-> job.remaining,
                 restarts |-> job.restarts, request |-> job.request, total |-> job.total,
                 policy |-> job.policy, maxRestarts |-> job.maxRestarts]
  BY DEF Job

LEMMA LeavingJob ==
  ASSUME NEW proc \in Process, NEW v,
         v.node = NoNode, v.remaining = proc.remaining, v.restarts = proc.restarts,
         v.request = proc.request, v.total = proc.total,
         v.policy = proc.policy, v.maxRestarts = proc.maxRestarts
  PROVE  JobOf(v) = [JobOf(proc) EXCEPT !.state = v.state, !.node = NoNode]
<1> DEFINE old == JobOf(proc)
<1>1. old \in Job
  BY JobType
<1>2. /\ old.remaining = proc.remaining /\ old.restarts = proc.restarts
      /\ old.request = proc.request /\ old.total = proc.total
      /\ old.policy = proc.policy /\ old.maxRestarts = proc.maxRestarts
  BY DEF JobOf
<1>3. JobOf(v) = [state |-> v.state, node |-> NoNode, remaining |-> proc.remaining,
                  restarts |-> proc.restarts, request |-> proc.request,
                  total |-> proc.total, policy |-> proc.policy,
                  maxRestarts |-> proc.maxRestarts]
  BY DEF JobOf
<1> HIDE DEF old
<1>4. [old EXCEPT !.state = v.state, !.node = NoNode]
        = [state |-> v.state, node |-> NoNode, remaining |-> old.remaining,
           restarts |-> old.restarts, request |-> old.request, total |-> old.total,
           policy |-> old.policy, maxRestarts |-> old.maxRestarts]
  BY ONLY <1>1, LeftJob
<1>5. QED
  BY <1>2, <1>3, <1>4 DEF old

\* What a client may make of one process between ticks.
LEMMA EvolutionIsCommanded ==
  ASSUME NEW proc \in Process, NEW v, Evolves(proc, v), phase = "idle"
  PROVE  JobOf(v) = JobOf(proc) \/ Promise!Commanded(JobOf(proc), JobOf(v))
<1> DEFINE old == JobOf(proc)
           new == JobOf(v)
<1>1. old \in Job /\ old.state = proc.state
  BY JobType DEF JobOf
<1>2. Promise!Terminal = Terminal /\ Promise!NoNode = NoNode
  BY DEF Promise!Terminal, Terminal, Promise!NoNode, NoNode
<1>3. CASE Vacated(proc, v)
  <2>1. PICK s \in {"PAUSED", "WAITING"} : v = [Unplaced(proc) EXCEPT !.state = s]
    BY <1>3 DEF Vacated
  <2>2. new = [old EXCEPT !.state = s, !.node = NoNode]
    <3>1. /\ v.state = s /\ v.node = NoNode
          /\ v.remaining = proc.remaining /\ v.restarts = proc.restarts
          /\ v.request = proc.request /\ v.total = proc.total
          /\ v.policy = proc.policy /\ v.maxRestarts = proc.maxRestarts
      BY <2>1 DEF Unplaced, Process
    <3>2. JobOf(v) = [JobOf(proc) EXCEPT !.state = v.state, !.node = NoNode]
      BY ONLY <3>1, LeavingJob, proc \in Process
    <3>3. QED
      BY <3>1, <3>2
  <2>3. old.state = "RUNNING"
    BY <1>1, <1>3 DEF Vacated
  <2> HIDE DEF old, new
  <2>4. Promise!Commanded(old, new)
    BY <1>2, <2>2, <2>3 DEF Promise!Commanded
  <2>5. QED
    BY <2>4 DEF old, new
<1>4. CASE Requeued(proc, v)
  <2>1. new = [old EXCEPT !.state = "READY"]
    BY <1>4 DEF Requeued, JobOf, Process
  <2>2. old.state \in {"PAUSED", "WAITING"}
    BY <1>1, <1>4 DEF Requeued
  <2> HIDE DEF old, new
  <2>3. Promise!Commanded(old, new)
    BY <2>1, <2>2 DEF Promise!Commanded
  <2>4. QED
    BY <2>3 DEF old, new
<1>5. CASE Killed(proc, v)
  <2>1. new = [old EXCEPT !.state = "KILLED", !.node = NoNode]
    <3>1. /\ v.state = "KILLED" /\ v.node = NoNode
          /\ v.remaining = proc.remaining /\ v.restarts = proc.restarts
          /\ v.request = proc.request /\ v.total = proc.total
          /\ v.policy = proc.policy /\ v.maxRestarts = proc.maxRestarts
      BY <1>5 DEF Killed, Unplaced, Process
    <3>2. JobOf(v) = [JobOf(proc) EXCEPT !.state = v.state, !.node = NoNode]
      BY ONLY <3>1, LeavingJob, proc \in Process
    <3>3. QED
      BY <3>1, <3>2
  <2>2. old.state \notin Terminal
    BY <1>1, <1>5 DEF Killed
  <2> HIDE DEF old, new
  <2>3. Promise!Commanded(old, new)
    BY <1>2, <2>1, <2>2 DEF Promise!Commanded
  <2>4. QED
    BY <2>3 DEF old, new
<1>6. CASE FailedNow(proc, v)
  <2>1. new = Promise!Failed(old)
    BY <1>6, FailedJob DEF FailedNow
  <2>2. old.state \notin Terminal
    BY <1>1, <1>6 DEF FailedNow
  <2> HIDE DEF old, new
  <2>3. Promise!Commanded(old, new)
    BY <1>2, <2>1, <2>2 DEF Promise!Commanded
  <2>4. QED
    BY <2>3 DEF old, new
<1>7. QED
  BY <1>3, <1>4, <1>5, <1>6 DEF Evolves

LEMMA ReleaseShowsNothing ==
  ASSUME TypeOK, NEW p, CanRelease(p)
  PROVE  Hosts(AfterRelease(p)) = Hosts(nodes)
<1> DEFINE n == procs[p].node
           v == Released(nodes[n], p, procs[p])
<1>1. n \in DOMAIN nodes /\ nodes[n] \in Node
  BY DEF CanRelease, TypeOK, NodesOK
<1>2. HostOf(v) = HostOf(nodes[n])
  BY <1>1, HostUpdates
<1>3. AfterRelease(p) = [nodes EXCEPT ![n] = v]
  BY DEF AfterRelease
<1> HIDE DEF v, n
<1>4. /\ DOMAIN AfterRelease(p) = DOMAIN nodes
      /\ \A m \in DOMAIN nodes : HostOf(AfterRelease(p)[m]) = HostOf(nodes[m])
  BY <1>1, <1>2, <1>3
<1>5. QED
  BY <1>4 DEF Hosts

LEMMA ProcessCommandPromised ==
  ASSUME RInv, NEW p \in ProcIds, ProcessCommand(p)
  PROVE  Promised
<1>1. /\ p \in DOMAIN procs /\ UNCHANGED <<tick, status>> /\ phase = "idle" /\ phase' = "idle"
  BY DEF ProcessCommand, PauseProcess, ResumeProcess, WaitProcess, WakeProcess,
         KillProcess, FailProcess, FailProcessLocked, CanFailProcess, Free, stepVars
<1>2. /\ DOMAIN procs' = DOMAIN procs
      /\ \A q \in DOMAIN procs \ {p} : procs'[q] = procs[q]
  BY DEF ProcessCommand, PauseProcess, ResumeProcess, WaitProcess, WakeProcess,
         KillProcess, FailProcess, FailProcessLocked, Vacate, Requeue
<1>3. nodes' = nodes \/ (CanRelease(p) /\ nodes' = AfterRelease(p))
  BY DEF ProcessCommand, PauseProcess, ResumeProcess, WaitProcess, WakeProcess,
         KillProcess, FailProcess, FailProcessLocked, CanFailProcess, Vacate, Requeue
<1>4. Hosts(nodes') = Hosts(nodes)
  BY <1>3, ReleaseShowsNothing DEF RInv, PInv, IInv
<1>5. Evolves(procs[p], procs'[p]) /\ procs[p] \in Process
  BY <1>1, ProcessCommandEvolves DEF ProcsEvolve, RInv, PInv, IInv, TypeOK, ProcsOK
<1>6. \A q \in DOMAIN procs : /\ Jobs(procs)[q] = JobOf(procs[q])
                              /\ Jobs(procs')[q] = JobOf(procs'[q])
  BY <1>2, MapFacts
<1>7. /\ DOMAIN Jobs(procs) = DOMAIN procs /\ DOMAIN Jobs(procs') = DOMAIN procs
      /\ \A q \in DOMAIN procs \ {p} : Jobs(procs')[q] = Jobs(procs)[q]
  BY <1>2, <1>6, MapFacts
<1>8. CASE JobOf(procs'[p]) = JobOf(procs[p])
  <2>1. \A q \in DOMAIN procs : JobOf(procs'[q]) = JobOf(procs[q])
    BY <1>2, <1>8
  <2>2. Jobs(procs') = Jobs(procs)
    BY <1>2, <2>1 DEF Jobs
  <2>3. QED
    BY <1>1, <1>4, <2>2, SeenIdle DEF Promised
<1>9. CASE Promise!Commanded(JobOf(procs[p]), JobOf(procs'[p]))
  <2>1. /\ p \in DOMAIN SeenJobs /\ DOMAIN SeenJobs' = DOMAIN SeenJobs
        /\ Promise!Commanded(SeenJobs[p], SeenJobs'[p])
        /\ \A q \in DOMAIN SeenJobs \ {p} : SeenJobs'[q] = SeenJobs[q]
        /\ UNCHANGED <<Seen.status, SeenHosts, Seen.tick>>
    BY <1>1, <1>4, <1>6, <1>7, <1>9, SeenIdle
  <2>2. Promise!JobCommand(p)
    BY <2>1 DEF Promise!JobCommand, SeenHosts, SeenJobs
  <2>3. QED
    BY <2>2 DEF Promised
<1>10. QED
  BY <1>1, <1>5, <1>8, <1>9, EvolutionIsCommanded

LEMMA SimulationPromised ==
  ASSUME Start \/ PauseSimulation \/ Finish \/ \E a \in Algorithms : SetScheduler(a)
  PROVE  Promised
<1>1. UNCHANGED <<nodes, procs, tick>> /\ phase = "idle" /\ phase' = "idle"
  BY DEF Start, PauseSimulation, Finish, SetScheduler, clusterVars, Free, stepVars
<1>2. UNCHANGED <<SeenHosts, SeenJobs, Seen.tick>>
  BY <1>1, SeenIdle
<1>3. \/ Seen'.status = "RUNNING"
      \/ Seen'.status = IF Seen.status = "RUNNING" THEN "PAUSED" ELSE Seen.status
      \/ Seen'.status = "COMPLETED"
      \/ Seen'.status = Seen.status
  BY <1>1, SeenIdle DEF Start, PauseSimulation, Finish, SetScheduler, clusterVars
<1>4. CASE Seen'.status = Seen.status
  BY <1>2, <1>4 DEF Promised
<1>5. CASE \/ Seen'.status = "RUNNING"
           \/ Seen'.status = IF Seen.status = "RUNNING" THEN "PAUSED" ELSE Seen.status
           \/ Seen'.status = "COMPLETED"
  <2>1. Promise!SimCommand
    BY <1>2, <1>5
    DEF Promise!SimCommand, Promise!MarkStarted, Promise!MarkPaused, Promise!MarkFinished,
        SeenHosts, SeenJobs
  <2>2. QED
    BY <2>1 DEF Promised
<1>6. QED
  BY <1>3, <1>4, <1>5

LEMMA ReplacementPromised ==
  ASSUME TypeOK', Replace
  PROVE  Promised
<1>1. tick' = 0 /\ status' = "IDLE" /\ phase = "idle" /\ phase' = "idle"
  BY DEF Replace, Reset, LoadScenario, Free, stepVars
<1>2. \A n \in DOMAIN nodes' : HostOf(nodes'[n]).status = "ONLINE"
  <2>1. CASE Reset
    BY <2>1, NothingType DEF Reset
  <2>2. ASSUME NEW s \in Scenarios, LoadScenario(s)
        PROVE  \A n \in DOMAIN nodes' : HostOf(nodes'[n]).status = "ONLINE"
    BY <2>2 DEF LoadScenario, LoadedNodes, NewNode, HostOf
  <2>3. QED
    BY <2>1, <2>2 DEF Replace
<1>3. \A p \in DOMAIN procs' : JobOf(procs'[p]) = Promise!AsSubmitted(JobOf(procs'[p]))
  <2>1. CASE Reset
    BY <2>1, NothingType DEF Reset
  <2>2. ASSUME NEW s \in Scenarios, LoadScenario(s), NEW p \in DOMAIN procs'
        PROVE  JobOf(procs'[p]) = Promise!AsSubmitted(JobOf(procs'[p]))
    <3>1. procs'[p] = [NewProcess(DefinitionOf(s.processes, p).def, 0)
                         EXCEPT !.state = "READY"]
      BY <2>2 DEF LoadScenario, LoadedProcesses
    <3>2. procs'[p] \in Process
      BY <2>2 DEF TypeOK, ProcsOK
    <3>3. /\ procs'[p].state = "READY" /\ procs'[p].node = NoNode
          /\ procs'[p].remaining = procs'[p].total /\ procs'[p].restarts = 0
      BY <3>1 DEF NewProcess
    <3>4. QED
      BY <3>2, <3>3, FreshIsSubmitted
  <2>3. QED
    BY <2>1, <2>2 DEF Replace
<1>4. /\ DOMAIN SeenHosts' = DOMAIN nodes' /\ DOMAIN SeenJobs' = DOMAIN procs'
      /\ \A n \in DOMAIN nodes' : SeenHosts'[n] = HostOf(nodes'[n])
      /\ \A p \in DOMAIN procs' : SeenJobs'[p] = JobOf(procs'[p])
  BY <1>1, SeenIdle, MapFacts
<1>5. /\ \A n \in DOMAIN SeenHosts' : SeenHosts'[n].status = "ONLINE"
      /\ \A p \in DOMAIN SeenJobs' : SeenJobs'[p] = Promise!AsSubmitted(SeenJobs'[p])
      /\ Seen'.tick = 0 /\ Seen'.status = "IDLE"
  BY <1>1, <1>2, <1>3, <1>4, SeenIdle
<1>6. Promise!Replacement
  BY <1>5 DEF Promise!Replacement, Promise!MarkReplaced, SeenHosts, SeenJobs
<1>7. QED
  BY <1>6 DEF Promised

-----------------------------------------------------------------------------
(* Ticks *)

\* The step that ends a tick makes everything the tick did visible at once.
LEMMA TickPromised ==
  ASSUME RInv, EndStep
  PROVE  Promised
<1>1. Consistent(nodes, procs)
  BY SoundIsConsistent DEF RInv, PInv, IInv, TypeOK
<1>2. /\ phase = "close" /\ phase' = "idle" /\ UNCHANGED <<nodes, procs, tick>>
      /\ status' = IF FinishReason = "" THEN status ELSE "COMPLETED"
  BY <1>1 DEF EndStep
<1>3. /\ status = "RUNNING" /\ saved.status # "COMPLETED" /\ tick = saved.tick + 1
      /\ HostsKept /\ JobsUnderway
  BY <1>2 DEF RInv, PInv, StatusRight
<1>4. /\ Seen.status = saved.status /\ Seen'.status = status'
      /\ Seen.tick = saved.tick /\ Seen'.tick = tick
      /\ SeenHosts = Hosts(saved.nodes) /\ SeenHosts' = Hosts(nodes)
      /\ SeenJobs = Jobs(saved.procs) /\ SeenJobs' = Jobs(procs)
  BY <1>2 DEF Seen, Current, SeenHosts, SeenJobs, Hosts, Jobs
<1>5. /\ DOMAIN SeenHosts' = DOMAIN SeenHosts
      /\ \A n \in DOMAIN SeenHosts :
           \/ SeenHosts'[n] = SeenHosts[n]
           \/ SeenHosts'[n] = [SeenHosts[n] EXCEPT !.status = "FAILED"]
  <2>1. /\ DOMAIN Hosts(nodes) = DOMAIN nodes
        /\ DOMAIN Hosts(saved.nodes) = DOMAIN nodes
    BY <1>3, MapFacts DEF HostsKept
  <2>2. \A n \in DOMAIN nodes : /\ Hosts(nodes)[n] = HostOf(nodes[n])
                                /\ Hosts(saved.nodes)[n] = HostOf(saved.nodes[n])
    BY <1>3, MapFacts DEF HostsKept
  <2>3. \A n \in DOMAIN nodes :
          \/ Hosts(nodes)[n] = Hosts(saved.nodes)[n]
          \/ Hosts(nodes)[n] = [Hosts(saved.nodes)[n] EXCEPT !.status = "FAILED"]
    BY <1>3, <2>2 DEF HostsKept
  <2>4. QED
    BY <1>4, <2>1, <2>3
<1>6. DOMAIN SeenJobs \subseteq DOMAIN SeenJobs'
  BY <1>3, <1>4, MapFacts DEF JobsUnderway
<1>7. ASSUME NEW p \in DOMAIN SeenJobs'
      PROVE  Promise!Ticked(IF p \in DOMAIN SeenJobs THEN SeenJobs[p]
                            ELSE Promise!AsSubmitted(SeenJobs'[p]), SeenJobs'[p])
  <2>1. p \in DOMAIN procs /\ SeenJobs'[p] = JobOf(procs[p])
    BY <1>4, MapFacts
  <2>2. Origin(p) = IF p \in DOMAIN SeenJobs THEN SeenJobs[p]
                    ELSE Promise!AsSubmitted(SeenJobs'[p])
    BY <1>4, <2>1, MapFacts DEF Origin
  <2>3. WorkedNow(p) = TRUE
    BY <1>2 DEF WorkedNow
  <2>4. Underway(Origin(p), JobOf(procs[p]), TRUE)
    BY <1>3, <2>1, <2>3 DEF JobsUnderway
  <2>5. procs[p] \in Process /\ RecordRight(procs[p], tick)
    BY <2>1 DEF RInv, PInv, IInv, TypeOK, ProcsOK, Lived
  <2>6. Promise!Ticked(Origin(p), JobOf(procs[p]))
    BY <2>4, <2>5, UnderwayEnds
  <2>7. QED
    BY <2>1, <2>2, <2>6
<1>8. /\ Seen.status # "COMPLETED" /\ Seen'.status \in {"RUNNING", "COMPLETED"}
      /\ Seen'.tick = Seen.tick + 1
  BY <1>2, <1>3, <1>4
<1>9. Promise!Tick
  BY <1>5, <1>6, <1>7, <1>8 DEF Promise!Tick, Promise!MarkTicked, SeenHosts, SeenJobs
<1>10. QED
  BY <1>9 DEF Promised

\* What begins, continues or undoes a tick is not seen.
LEMMA HiddenStep ==
  ASSUME Seen' = Seen
  PROVE  Promised
  BY DEF Promised, SeenHosts, SeenJobs

LEMMA CommandPromised ==
  ASSUME RInv, TypeOK', Command
  PROVE  Promised
  BY RegisterJoins, NodeCommandPromised, SubmitSubmits, ProcessCommandPromised,
     SimulationPromised, ReplacementPromised
  DEF Command, Replace

LEMMA NextPromised ==
  ASSUME RInv, TypeOK', [Next]_vars
  PROVE  Promised
<1>1. CASE Command
  BY <1>1, CommandPromised
<1>2. CASE BeginStep
  <2>1. phase = "idle" /\ phase' = "apply" /\ saved' = Current
    BY <1>2 DEF BeginStep
  <2>2. Seen' = Seen
    BY <2>1 DEF Seen
  <2>3. QED
    BY <2>2, HiddenStep
<1>3. CASE InsideStep /\ phase' # "idle"
  <2>1. Seen' = Seen
    BY <1>3, PhaseStep DEF Seen
  <2>2. QED
    BY <2>1, HiddenStep
<1>4. CASE InsideStep /\ phase' = "idle"
  <2>1. CASE Rollback
    <3>1. phase # "idle"
      BY <1>4 DEF InsideStep, ApplySubmission, ApplyFailure, RejectFailure,
         DetectMissedHeartbeat, Place, Defer, Execute, EndApply, EndBeat, EndPlace,
         EndRun, EndStep
    <3>2. Seen' = Seen
      BY <2>1, <3>1 DEF Rollback, Seen, Current, RInv, PInv, IInv, SavedIsWhole
    <3>3. QED
      BY <3>2, HiddenStep
  <2>2. CASE EndStep
    BY <2>2, TickPromised
  <2>3. ASSUME NEW d \in pending, ApplySubmission(d)
        PROVE  Rollback
    BY <1>4, <2>3 DEF ApplySubmission, stepVars
  <2>4. \A f \in failures : ApplyFailure(f) => FALSE
    BY <1>4 DEF ApplyFailure, stepVars
  <2>5. \A n \in NodeIds : ~ DetectMissedHeartbeat(n)
    BY <1>4 DEF DetectMissedHeartbeat, stepVars
  <2>6. \A p \in ProcIds : ~ (Place(p) \/ Defer(p) \/ Execute(p))
    BY <1>4 DEF Place, Defer, Execute
  <2>7. ~ (EndApply \/ EndBeat \/ EndPlace \/ EndRun)
    BY <1>4 DEF EndApply, EndBeat, EndPlace, EndRun
  <2>8. QED
    BY <1>4, <2>1, <2>2, <2>3, <2>4, <2>5, <2>6, <2>7 DEF InsideStep, RejectFailure
<1>5. CASE UNCHANGED vars
  <2>1. Seen' = Seen
    BY <1>5 DEF vars, clusterVars, scheduleVars, stepVars, Seen, Current
  <2>2. QED
    BY <2>1, HiddenStep
<1>6. QED
  BY <1>1, <1>2, <1>3, <1>4, <1>5 DEF Next

\* For every configuration and all inputs, the controller implements the promise:
\* an observer never sees a tick half done, a counter out of step or a limit
\* broken, whatever the order of the commands, and even when ticks fail.
THEOREM PromiseKept == Spec => KeepsPromise
<1>1. Init => Promise!PromiseInit
  <2> SUFFICES ASSUME Init
               PROVE  Promise!PromiseInit
    OBVIOUS
  <2>1. Seen = Current /\ status = "IDLE" /\ tick = 0 /\ nodes = NoNodes /\ procs = NoProcs
    BY DEF Init, Seen
  <2>2. Seen.status = "IDLE" /\ Seen.tick = 0 /\ Seen.nodes = NoNodes /\ Seen.procs = NoProcs
    BY <2>1 DEF Current
  <2>3. /\ [n \in DOMAIN Seen.nodes |-> HostOf(Seen.nodes[n])] = [n \in {} |-> 0]
        /\ [p \in DOMAIN Seen.procs |-> JobOf(Seen.procs[p])] = [p \in {} |-> 0]
    BY <2>2, NothingType
  <2>4. QED
    BY <2>2, <2>3 DEF Promise!PromiseInit, Promise!SimInit
<1>2. RInv => Promise!Feasible
  BY SeenIsFeasible
<1>3. RInv /\ RInv' /\ Promise!Feasible' /\ [Next]_vars
        => [Promise!PromiseNext]_(Promise!promiseVars)
  <2> SUFFICES ASSUME RInv, RInv', Promise!Feasible', [Next]_vars
               PROVE  Promise!PromiseNext \/ UNCHANGED Promise!promiseVars
    OBVIOUS
  <2>1. Promised
    BY NextPromised DEF RInv, PInv, IInv
  <2>2. QED
    BY <2>1 DEF Promised, Promise!PromiseNext, Promise!promiseVars, SeenHosts, SeenJobs
<1>4. QED
  BY <1>1, <1>2, <1>3, RefinementInvariant, PTL DEF Spec, KeepsPromise, Promise!PromiseSpec
=============================================================================
