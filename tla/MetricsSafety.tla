------------------------------ MODULE MetricsSafety ------------------------------
(***************************************************************************)
(* The report of metrics.Build: the waiting times that the controller adds *)
(* up at each placement are the ticks that a process spent in the queue.   *)
(*                                                                         *)
(* The history variables of Metrics count ticks one by one; the invariant  *)
(* says of every process what its record makes of them, also half way      *)
(* through a tick and in the copy that a failed tick returns to.           *)
(***************************************************************************)
EXTENDS Metrics, ControllerSafety

-----------------------------------------------------------------------------
(* The invariant *)

\* What a record says of the ticks that its process waited until tick now.
Recorded(proc, now) ==
  proc.waiting + (IF proc.state = "READY" THEN now - proc.lastReady ELSE 0)

\* The processes of ps waited as h counts, and only the queue is left unplaced.
WaitKept(h, ps, now) ==
  /\ \A p \in ProcIds \ DOMAIN ps : h.waited[p] = 0
  /\ \A p \in DOMAIN ps \ h.cutShort :
       /\ h.waited[p] = Recorded(ps[p], now)
       /\ ps[p].started = NoTick => ps[p].state = "READY"

\* No process that is over waited for longer than it took.
InTime(proc) == proc.state \in Terminal => proc.waiting <= proc.finished - proc.submitted

AllInTime(ps) == \A p \in DOMAIN ps : InTime(ps[p])

MInv ==
  /\ PInv
  /\ WaitKept(History, procs, tick) /\ AllInTime(procs)
  /\ phase # "idle" => WaitKept(restore, saved.procs, saved.tick) /\ AllInTime(saved.procs)

-----------------------------------------------------------------------------
(* One process *)

\* It left the queue, but not for a node.
Left(old, new) ==
  old.state = "READY" /\ (new.state \in Terminal \/ new.restarts > old.restarts)

LEMMA FailureKeepsWait ==
  ASSUME NEW old \in Process, tick \in Nat, RecordRight(old, tick), NEW new,
         FailedNow(old, new)
  PROVE  /\ new.waiting = old.waiting /\ new.submitted = old.submitted
         /\ new.started = old.started
         /\ new.state = "READY" => new.lastReady = tick /\ new.restarts > old.restarts
         /\ new.state # "READY" => new.state = "FAILED" /\ new.finished = tick
<1>1. CASE CanRestart(old)
  <2>1. new = [old EXCEPT !.node = NoNode, !.state = "READY", !.restarts = @ + 1,
                          !.remaining = old.total, !.finished = NoTick,
                          !.lastReady = tick]
    BY <1>1 DEF FailedNow, AfterFailure, CanRestart, Unplaced, Process
  <2>2. QED
    BY <2>1 DEF Process
<1>2. CASE ~ CanRestart(old)
  <2>1. new = [old EXCEPT !.node = NoNode, !.state = "FAILED", !.finished = tick]
    BY <1>2 DEF FailedNow, AfterFailure, CanRestart, Unplaced, Process
  <2>2. QED
    BY <2>1 DEF Process
<1>3. QED
  BY <1>1, <1>2

\* A step records neither more nor less than it is given to wait.
LEMMA EvolvedWait ==
  ASSUME NEW old \in Process, tick \in Nat, RecordRight(old, tick), NEW new,
         Evolves(old, new), ~ Left(old, new),
         old.started = NoTick => old.state = "READY"
  PROVE  /\ Recorded(new, tick) = Recorded(old, tick)
         /\ new.started = NoTick => new.state = "READY"
<1> USE DEF Recorded, RecordRight, Timed, Process, Ticks, NoTick, Terminal
<1>1. CASE Vacated(old, new)
  BY <1>1 DEF Vacated, Unplaced
<1>2. CASE Requeued(old, new)
  BY <1>2 DEF Requeued
<1>3. CASE Killed(old, new)
  BY <1>3 DEF Killed, Unplaced, Left
<1>4. CASE Begun(old, new)
  BY <1>4 DEF Begun, Started
<1>5. CASE Served(old, new)
  BY <1>5 DEF Served, Worked, Unplaced
<1>6. CASE FailedNow(old, new)
  <2>1. old.state # "READY"
    BY <1>6, FailureKeepsWait DEF Left
  <2>2. QED
    BY <1>6, <2>1, FailureKeepsWait
<1>7. QED
  BY <1>1, <1>2, <1>3, <1>4, <1>5, <1>6 DEF Evolves

LEMMA EvolvedInTime ==
  ASSUME NEW old \in Process, tick \in Nat, RecordRight(old, tick), InTime(old), NEW new,
         Evolves(old, new)
  PROVE  InTime(new)
<1> USE DEF InTime, RecordRight, Timed, Process, Ticks, NoTick, Terminal
<1>1. CASE Vacated(old, new)
  BY <1>1 DEF Vacated, Unplaced
<1>2. CASE Requeued(old, new)
  BY <1>2 DEF Requeued
<1>3. CASE Killed(old, new)
  BY <1>3 DEF Killed, Unplaced
<1>4. CASE Begun(old, new)
  BY <1>4 DEF Begun, Started
<1>5. CASE Served(old, new)
  BY <1>5 DEF Served, Worked, Unplaced
<1>6. CASE FailedNow(old, new)
  <2>1. old.state \notin Terminal
    BY <1>6 DEF FailedNow
  <2>2. QED
    BY <1>6, <2>1, FailureKeepsWait
<1>7. QED
  BY <1>1, <1>2, <1>3, <1>4, <1>5, <1>6 DEF Evolves

-----------------------------------------------------------------------------
(* All processes *)

\* Time passes for those in the queue.
LEMMA WaitBegins ==
  ASSUME MInv, ObserveBegin
  PROVE  /\ WaitKept(History', procs', tick') /\ AllInTime(procs')
         /\ WaitKept(restore', saved'.procs, saved'.tick) /\ AllInTime(saved'.procs)
<1>1. /\ procs' = procs /\ tick' = tick + 1 /\ tick \in Nat
      /\ saved'.procs = procs /\ saved'.tick = tick
      /\ restore' = History /\ cutShort' = cutShort
      /\ waited' = [p \in ProcIds |-> IF p \in InState("READY") THEN waited[p] + 1
                                                               ELSE waited[p]]
  BY DEF ObserveBegin, BeginStep, Current, MInv, PInv, IInv, TypeOK
<1>2. ProcsOK(procs) /\ WaitKept(History, procs, tick) /\ AllInTime(procs)
  BY DEF MInv, PInv, IInv, TypeOK
<1>3. ASSUME NEW p \in ProcIds \ DOMAIN procs
      PROVE  waited'[p] = 0
  BY <1>1, <1>2, <1>3 DEF WaitKept, History, InState
<1>4. ASSUME NEW p \in DOMAIN procs \ cutShort
      PROVE  /\ waited'[p] = Recorded(procs[p], tick + 1)
             /\ procs[p].started = NoTick => procs[p].state = "READY"
  <2>1. p \in ProcIds /\ procs[p] \in Process
    BY <1>2 DEF ProcsOK
  <2>2. /\ waited[p] = Recorded(procs[p], tick)
        /\ procs[p].started = NoTick => procs[p].state = "READY"
    BY <1>2 DEF WaitKept, History
  <2>3. waited'[p] = IF procs[p].state = "READY" THEN waited[p] + 1 ELSE waited[p]
    BY <1>1, <2>1 DEF InState
  <2>4. QED
    BY <1>1, <2>1, <2>2, <2>3 DEF Recorded, Process
<1>5. WaitKept(History', procs', tick')
  BY <1>1, <1>3, <1>4 DEF WaitKept, History
<1>6. QED
  BY <1>1, <1>2, <1>5

\* A step that keeps the clock and is watched.
LEMMA WatchedStep ==
  ASSUME PInv, ProcsOK(procs'), ProcsEvolve, tick' = tick,
         WaitKept(History, procs, tick), AllInTime(procs),
         waited' = waited, {p \in ProcIds : Torn(p)} \subseteq cutShort',
         cutShort \subseteq cutShort'
  PROVE  WaitKept(History', procs', tick') /\ AllInTime(procs')
<1>1. ProcsOK(procs) /\ tick \in Nat /\ Lived(procs, tick)
  BY DEF PInv, IInv, TypeOK
<1>2. ASSUME NEW p \in DOMAIN procs, p \notin cutShort'
      PROVE  /\ waited[p] = Recorded(procs'[p], tick)
             /\ procs'[p].started = NoTick => procs'[p].state = "READY"
  <2>1. procs[p] \in Process /\ RecordRight(procs[p], tick) /\ Evolves(procs[p], procs'[p])
    BY <1>1, <1>2 DEF ProcsOK, Lived, ProcsEvolve
  <2>2. p \in ProcIds /\ p \notin cutShort /\ ~ Torn(p)
    BY <1>1, <1>2 DEF ProcsOK
  <2>3. ~ Left(procs[p], procs'[p])
    BY <1>2, <2>2 DEF Torn, Left
  <2>4. /\ waited[p] = Recorded(procs[p], tick)
        /\ procs[p].started = NoTick => procs[p].state = "READY"
    BY <1>2, <2>2 DEF WaitKept, History
  <2>5. QED
    BY <1>1, <2>1, <2>3, <2>4, EvolvedWait
<1>3. ASSUME NEW p \in DOMAIN procs
      PROVE  InTime(procs'[p])
  <2>1. procs[p] \in Process /\ RecordRight(procs[p], tick) /\ Evolves(procs[p], procs'[p])
        /\ InTime(procs[p])
    BY <1>1, <1>3 DEF ProcsOK, Lived, ProcsEvolve, AllInTime
  <2>2. QED
    BY <1>1, <2>1, EvolvedInTime
<1>4. ASSUME NEW p \in DOMAIN procs' \ DOMAIN procs
      PROVE  waited[p] = Recorded(procs'[p], tick) /\ procs'[p].state = "READY"
             /\ InTime(procs'[p])
  <2>1. JustSubmitted(procs'[p]) /\ p \in ProcIds
    BY <1>4 DEF ProcsEvolve, ProcsOK
  <2>2. waited[p] = 0
    BY <1>4, <2>1 DEF WaitKept, History
  <2>3. QED
    BY <1>1, <2>1, <2>2 DEF JustSubmitted, Recorded, InTime, Terminal
<1>5. \A p \in ProcIds \ DOMAIN procs' : waited[p] = 0
  BY DEF ProcsEvolve, WaitKept, History
<1>6. WaitKept(History', procs', tick')
  <2>1. \A p \in DOMAIN procs' \ cutShort' :
          /\ waited[p] = Recorded(procs'[p], tick)
          /\ procs'[p].started = NoTick => procs'[p].state = "READY"
    BY <1>2, <1>4
  <2>2. QED
    BY <1>5, <2>1 DEF WaitKept, History
<1>7. QED
  BY <1>3, <1>4, <1>6 DEF AllInTime

LEMMA ReplacedWait ==
  ASSUME ProcsOK(procs'), Replace, BeginsAnew(Fresh)
  PROVE  WaitKept(History', procs', tick') /\ AllInTime(procs')
<1>1. waited' = [p \in ProcIds |-> 0] /\ cutShort' = {}
  BY DEF BeginsAnew, Fresh
<1>2. CASE Reset
  <2>1. DOMAIN procs' = {}
    BY <1>2 DEF Reset, NoProcs
  <2>2. QED
    BY <1>1, <2>1 DEF WaitKept, AllInTime, History
<1>3. ASSUME NEW s \in Scenarios, LoadScenario(s)
      PROVE  WaitKept(History', procs', tick') /\ AllInTime(procs')
  <2>1. tick' = 0
    BY <1>3 DEF LoadScenario
  <2>2. ASSUME NEW p \in DOMAIN procs'
        PROVE  Recorded(procs'[p], 0) = 0 /\ procs'[p].state = "READY" /\ InTime(procs'[p])
    <3>1. procs'[p] = [NewProcess(DefinitionOf(s.processes, p).def, 0)
                         EXCEPT !.state = "READY"]
      BY <1>3 DEF LoadScenario, LoadedProcesses
    <3>2. procs'[p].waiting = 0 /\ procs'[p].lastReady = 0 /\ procs'[p].state = "READY"
      BY <3>1 DEF NewProcess
    <3>3. QED
      BY <3>2 DEF Recorded, InTime, Terminal
  <2>3. DOMAIN procs' \subseteq ProcIds
    BY DEF ProcsOK
  <2>4. QED
    BY <1>1, <2>1, <2>2, <2>3 DEF WaitKept, AllInTime, History
<1>4. QED
  BY <1>2, <1>3 DEF Replace

LEMMA CommandWait ==
  ASSUME MInv, PInv', ObserveCommand(Command)
  PROVE  MInv'
<1>1. Command /\ phase = "idle" /\ phase' = "idle"
  <2>1. Command
    BY DEF ObserveCommand
  <2>2. QED
    BY <2>1, CommandIsFree
<1>2. ProcsOK(procs')
  BY DEF PInv, IInv, TypeOK
<1>3. CASE Replace
  <2>1. BeginsAnew(Fresh)
    BY <1>3 DEF ObserveCommand
  <2>2. WaitKept(History', procs', tick') /\ AllInTime(procs')
    BY <1>2, <1>3, <2>1, ReplacedWait
  <2>3. QED
    BY <1>1, <2>2 DEF MInv
<1>4. CASE ~ Replace
  <2>1. waited' = waited /\ cutShort' = cutShort \cup {p \in ProcIds : Torn(p)}
    BY <1>4 DEF ObserveCommand, Watches
  <2>2. ProcsEvolve /\ tick' = tick
    BY <1>1, <1>4, NextEvolves, ClockStands DEF MInv, Next, BeginStep
  <2>3. WaitKept(History', procs', tick') /\ AllInTime(procs')
    BY <1>2, <2>1, <2>2, WatchedStep DEF MInv
  <2>4. QED
    BY <1>1, <2>3 DEF MInv
<1>5. QED
  BY <1>3, <1>4

LEMMA StepWait ==
  ASSUME MInv, PInv', ObserveStep
  PROVE  MInv'
<1>1. InsideStep /\ phase # "idle" /\ PInv /\ tick \in Nat
  BY TickGoesOn DEF ObserveStep, MInv, PInv, IInv, TypeOK
<1>2. ProcsOK(procs')
  BY DEF PInv, IInv, TypeOK
<1>3. CASE Rollback /\ tick' < tick /\ phase' = "idle"
  <2>1. procs' = saved.procs /\ tick' = saved.tick
    BY <1>3 DEF Rollback
  <2>2. waited' = restore.waited /\ cutShort' = restore.cutShort
    BY <1>3 DEF ObserveStep, BeginsAnew
  <2>3. WaitKept(restore, saved.procs, saved.tick) /\ AllInTime(saved.procs)
    BY <1>1 DEF MInv
  <2>4. QED
    BY <1>3, <2>1, <2>2, <2>3 DEF MInv, WaitKept, History
<1>4. CASE tick' = tick /\ ProcsEvolve /\ phase' = "idle" /\ procs' = procs
  <2>1. waited' = waited /\ cutShort' = cutShort
    BY <1>1, <1>4 DEF ObserveStep, BeginsAnew, History
  <2>2. QED
    BY <1>4, <2>1 DEF MInv, WaitKept, History
<1>5. CASE tick' = tick /\ ProcsEvolve /\ phase' # "idle" /\ saved' = saved
  <2>1. /\ waited' = waited /\ cutShort' = cutShort \cup {p \in ProcIds : Torn(p)}
        /\ restore' = restore
    BY <1>1, <1>5 DEF ObserveStep, Watches
  <2>2. WaitKept(History', procs', tick') /\ AllInTime(procs')
    BY <1>1, <1>2, <1>5, <2>1, WatchedStep DEF MInv
  <2>3. QED
    BY <1>1, <1>5, <2>1, <2>2 DEF MInv
<1>6. QED
  BY <1>1, <1>3, <1>4, <1>5, TickGoesOn

-----------------------------------------------------------------------------
(* The invariant is kept *)

LEMMA InitMInv ==
  ASSUME MetricsInit
  PROVE  MInv
<1>1. PInv
  BY InitPInv DEF MetricsInit
<1>2. /\ DOMAIN procs = {} /\ phase = "idle"
      /\ waited = [p \in ProcIds |-> 0]
  BY DEF MetricsInit, Init, NoProcs, Fresh
<1>3. QED
  BY <1>1, <1>2 DEF MInv, WaitKept, AllInTime, History

LEMMA NextMInv ==
  ASSUME MInv, [MetricsNext]_<<vars, historyVars>>
  PROVE  MInv'
<1>1. [Next]_vars
  BY DEF MetricsNext, ObserveCommand, ObserveBegin, ObserveStep, Next
<1>2. PInv'
  BY <1>1, NextPInv DEF MInv
<1>3. CASE ObserveBegin
  BY <1>2, <1>3, WaitBegins DEF MInv
<1>4. CASE UNCHANGED <<vars, historyVars>>
  BY <1>2, <1>4 DEF MInv, WaitKept, History, vars, clusterVars, stepVars, historyVars
<1>5. QED
  BY <1>2, <1>3, <1>4, CommandWait, StepWait DEF MetricsNext

LEMMA MetricsInvariant == MetricsSpec => []MInv
<1>1. MetricsInit => MInv
  BY InitMInv
<1>2. MInv /\ [MetricsNext]_<<vars, historyVars>> => MInv'
  BY NextMInv
<1>3. QED
  BY <1>1, <1>2, PTL DEF MetricsSpec

-----------------------------------------------------------------------------
(* What follows *)

\* The waiting time in a report is the number of ticks the process was in the queue
\* for, whatever was done to it, unless it was killed or failed in the queue.
THEOREM WaitIsRight == MetricsSpec => []WaitIsReported
<1>1. MInv => WaitIsReported
  <2> SUFFICES ASSUME MInv, NEW p \in DOMAIN procs \ cutShort
               PROVE  ObservedWait(procs[p], tick) = waited[p]
    BY DEF WaitIsReported
  <2>1. procs[p] \in Process /\ RecordRight(procs[p], tick) /\ tick \in Nat
    BY DEF MInv, PInv, IInv, TypeOK, ProcsOK, Lived
  <2>2. /\ waited[p] = Recorded(procs[p], tick)
        /\ procs[p].started = NoTick => procs[p].state = "READY"
    BY DEF MInv, WaitKept, History
  <2>3. ObservedWait(procs[p], tick) = Recorded(procs[p], tick)
    BY <2>1, <2>2
    DEF ObservedWait, Recorded, Larger, RecordRight, Timed, Process
  <2>4. QED
    BY <2>2, <2>3
<1>2. QED
  BY <1>1, MetricsInvariant, PTL

\* What is shown of one process.
LEMMA WaitInTime ==
  ASSUME NEW proc \in Process, NEW now \in Nat, RecordRight(proc, now), InTime(proc)
  PROVE  LET end  == IF proc.finished # NoTick THEN proc.finished ELSE now
             wait == ObservedWait(proc, now) IN
           /\ wait \in 0 .. end - proc.submitted /\ wait \in 0 .. now
           /\ proc.started = NoTick /\ proc.state \in Terminal => wait = end - proc.submitted
BY DEF ObservedWait, Larger, RecordRight, Timed, Process, InTime, Terminal, NoTick, Ticks

\* The times of a report fit together, whether the process is over or not.
THEOREM TimesFit == MetricsSpec => []TimesAgree
<1>1. MInv => TimesAgree
  <2> SUFFICES ASSUME MInv, NEW p \in DOMAIN procs
               PROVE  LET proc == procs[p]
                          end  == IF proc.finished # NoTick THEN proc.finished ELSE tick
                          wait == ObservedWait(proc, tick) IN
                        /\ wait \in 0 .. end - proc.submitted
                        /\ proc.started = NoTick /\ proc.state \in Terminal
                             => wait = end - proc.submitted
    BY DEF TimesAgree
  <2>1. procs[p] \in Process /\ RecordRight(procs[p], tick) /\ tick \in Nat
        /\ InTime(procs[p])
    BY DEF MInv, PInv, IInv, TypeOK, ProcsOK, Lived, AllInTime
  <2>2. QED
    BY <2>1, WaitInTime
<1>2. QED
  BY <1>1, MetricsInvariant, PTL

-----------------------------------------------------------------------------
(* The report agrees with itself *)

\* What the nodes have allocated together is what the running processes ask for.
LEMMA AllocatedIsAsked ==
  ASSUME NEW ns, NEW ps, NodesOK(ns), ProcsOK(ps), Sound(ns, ps), NEW r \in Resources
  PROVE  Total(DOMAIN ns, LAMBDA n : ns[n].allocated[r])
           = Demand(ps, {p \in DOMAIN ps : ps[p].state = "RUNNING"}, r)
<1> DEFINE I == DOMAIN ns
           k == [n \in I |-> ns[n].allocated[r]]
           U == [n \in I |-> UNION {Units(ps, p, r) : p \in ns[n].running}]
           running == {p \in DOMAIN ps : ps[p].state = "RUNNING"}
<1>1. IsFiniteSet(I)
  BY IdsAssumption, FS_Subset DEF NodesOK
<1>2. ASSUME NEW n \in I
      PROVE  /\ IsFiniteSet(U[n]) /\ Cardinality(U[n]) = k[n] /\ k[n] \in Nat
             /\ \A p \in ns[n].running : p \in running /\ ps[p].node = n
  <2>1. /\ IsFiniteSet(ns[n].running)
        /\ \A p \in ns[n].running : ps[p].request[r] \in Nat
    BY <1>2, ListedType DEF Sound
  <2>2. IsFiniteSet(U[n])
    BY <1>2, <2>1, UnitsFinite
  <2>3. k[n] = Demand(ps, ns[n].running, r)
    BY <1>2 DEF Sound, LedgerIn, CountersMatch
  <2>4. Cardinality(U[n]) = k[n]
    BY <1>2, <2>3 DEF Demand
  <2>5. \A p \in ns[n].running : p \in running /\ ps[p].node = n
    BY <1>2 DEF Sound, HostingIn, ListsOnlyItsOwn
  <2>6. QED
    BY <2>2, <2>4, <2>5, FS_CardinalityType
<1>3. ASSUME NEW n \in I, NEW x
      PROVE  x \in U[n] <=> \E p \in ns[n].running : x \in Units(ps, p, r)
  BY <1>3
<1>4. \A p, q, x : x \in Units(ps, p, r) /\ x \in Units(ps, q, r) => p = q
  BY DEF Units
<1>5. {{n} \X (1 .. k[n]) : n \in I} = {{n} \X (1 .. ns[n].allocated[r]) : n \in I}
  OBVIOUS
<1> HIDE DEF k, U
<1>6. ASSUME NEW n \in I, NEW m \in I, n # m
      PROVE  U[n] \cap U[m] = {}
  <2> SUFFICES ASSUME NEW x, x \in U[n], x \in U[m]
               PROVE  FALSE
    OBVIOUS
  <2>1. PICK p \in ns[n].running : x \in Units(ps, p, r)
    BY <1>3
  <2>2. PICK q \in ns[m].running : x \in Units(ps, q, r)
    BY <1>3
  <2>3. p = q
    BY <1>4, <2>1, <2>2
  <2>4. QED
    BY <1>2, <1>6, <2>3
<1>7. Cardinality(Pieces(k, I)) = Cardinality(Together(U, I))
  <2> HIDE DEF I
  <2>1. \A i \in I : k[i] \in Nat
    BY <1>2
  <2>2. \A i \in I : IsFiniteSet(U[i]) /\ Cardinality(U[i]) = k[i]
    BY <1>2
  <2>3. \A i, j \in I : i # j => U[i] \cap U[j] = {}
    BY <1>6
  <2>4. QED
    BY ONLY <1>1, <2>1, <2>2, <2>3, SumOfPieces
<1>8. Together(U, I) = UNION {Units(ps, p, r) : p \in running}
  <2>1. ASSUME NEW x, x \in Together(U, I)
        PROVE  x \in UNION {Units(ps, p, r) : p \in running}
    <3>1. PICK n \in I : x \in U[n]
      BY <2>1 DEF Together
    <3>2. PICK p \in ns[n].running : x \in Units(ps, p, r)
      BY <1>3, <3>1
    <3>3. p \in running
      BY <1>2
    <3>4. QED
      BY <3>2, <3>3
  <2>2. ASSUME NEW x, x \in UNION {Units(ps, p, r) : p \in running}
        PROVE  x \in Together(U, I)
    <3>1. PICK p \in running : x \in Units(ps, p, r)
      BY <2>2
    <3>2. ps[p].node \in I /\ p \in ns[ps[p].node].running
      BY DEF Sound, HostingIn
    <3>3. x \in U[ps[p].node]
      BY <1>3, <3>1, <3>2
    <3>4. QED
      BY <3>2, <3>3 DEF Together
  <2>3. QED
    BY <2>1, <2>2
<1>9. QED
  BY <1>5, <1>7, <1>8 DEF Total, Demand, Pieces

\* A sum of summands that are no larger, over no more of them, is no larger.
LEMMA TotalGrows ==
  ASSUME NEW S, IsFiniteSet(S), NEW T, T \subseteq S, NEW f, NEW g,
         \A x \in S : g[x] \in Int,
         \A x \in T : f[x] \in Int /\ f[x] <= g[x]
  PROVE  Cardinality(Pieces(f, T)) <= Cardinality(Pieces(g, S))
<1> DEFINE i == [x \in S |-> x]
           A == Pieces(f, T)
           B == Pieces(g, S)
<1>1. {{i[x]} \X (1 .. g[x]) : x \in S} = {{x} \X (1 .. g[x]) : x \in S}
  OBVIOUS
<1>2. IsFiniteSet(B)
  <2> HIDE DEF i
  <2>1. IsFiniteSet(UNION {{i[x]} \X (1 .. g[x]) : x \in S})
    BY BlocksFinite
  <2>2. QED
    BY <1>1, <2>1 DEF Pieces
<1>3. ASSUME NEW y \in A
      PROVE  y \in B
  <2>1. PICK x \in T : y \in {x} \X (1 .. f[x])
    BY <1>3 DEF Pieces
  <2>2. 1 .. f[x] \subseteq 1 .. g[x] /\ x \in S
    <3>1. f[x] \in Int /\ g[x] \in Int /\ f[x] <= g[x] /\ x \in S
      BY <2>1
    <3>2. QED
      BY <3>1
  <2>3. y \in {x} \X (1 .. g[x])
    BY <2>1, <2>2
  <2>4. QED
    BY <2>2, <2>3 DEF Pieces
<1>4. QED
  <2> HIDE DEF A, B
  <2>1. Cardinality(A) <= Cardinality(B)
    BY <1>2, <1>3, FS_Subset
  <2>2. QED
    BY <2>1 DEF A, B

LEMMA MaxIsLargest ==
  ASSUME NEW T, T \subseteq Nat, T # {}, NEW bound \in Nat, \A x \in T : x <= bound
  PROVE  Max(T) \in T /\ \A x \in T : Max(T) >= x
<1> DEFINE R == {xy \in T \X T : xy[1] > xy[2]}
<1>1. IsFiniteSet(T)
  BY FS_BoundedSetOfNaturals
<1>2. \A x, y \in T : <<x, y>> \in R <=> x > y
  OBVIOUS
<1> HIDE DEF R
<1>3. /\ \A x \in T : <<x, x>> \notin R
      /\ \A x, y, z \in T : <<x, y>> \in R /\ <<y, z>> \in R => <<x, z>> \in R
  BY <1>2
<1>4. PICK x \in T : \A y \in T : <<y, x>> \notin R
  BY <1>1, <1>3, LeastExists
<1>5. ASSUME NEW y \in T
      PROVE  x >= y
  <2>1. x \in Nat /\ y \in Nat /\ ~ (y > x)
    BY <1>2, <1>4
  <2>2. QED
    BY <2>1
<1>6. QED
  BY <1>5 DEF Max

Largest(f, S) == IF S = {} THEN 0 ELSE Larger(0, Max({f[x] : x \in S}))

\* The largest of fewer numbers is no larger.
LEMMA HighestGrows ==
  ASSUME NEW S, NEW T, T \subseteq S, NEW f, NEW bound \in Nat,
         \A x \in S : f[x] \in 0 .. bound
  PROVE  Largest(f, T) <= Largest(f, S)
<1> DEFINE A == {f[x] : x \in S}
           B == {f[x] : x \in T}
<1>1. /\ B \subseteq A /\ A \subseteq Nat /\ \A v \in A : v <= bound
      /\ A = {} <=> S = {}
      /\ B = {} <=> T = {}
  <2>1. \A x \in S : f[x] \in Nat /\ f[x] <= bound
    OBVIOUS
  <2>2. B \subseteq A
    OBVIOUS
  <2>3. A \subseteq Nat /\ \A v \in A : v <= bound
    BY <2>1
  <2>4. A = {} <=> S = {}
    OBVIOUS
  <2>5. B = {} <=> T = {}
    OBVIOUS
  <2>6. QED
    BY <2>2, <2>3, <2>4, <2>5
<1> HIDE DEF A, B
<1>2. A # {} => Max(A) \in A /\ \A v \in A : Max(A) >= v
  BY <1>1, MaxIsLargest
<1>3. B # {} => Max(B) \in B
  <2>1. B \subseteq Nat /\ \A v \in B : v <= bound
    BY <1>1
  <2>2. QED
    BY <2>1, MaxIsLargest
<1>4. (IF T = {} THEN 0 ELSE Larger(0, Max(B))) <= (IF S = {} THEN 0 ELSE Larger(0, Max(A)))
  <2>1. CASE T = {}
    <3>1. S # {} => Max(A) \in Nat
      BY <1>1, <1>2
    <3>2. QED
      BY <2>1, <3>1 DEF Larger
  <2>2. CASE T # {}
    <3>1. /\ S # {} /\ Max(A) \in Nat /\ Max(B) \in Nat
          /\ Max(A) >= Max(B)
      BY <1>1, <1>2, <1>3, <2>2
    <3>2. QED
      BY <2>2, <3>1 DEF Larger
  <2>3. QED
    BY <2>1, <2>2
<1>5. QED
  BY <1>4 DEF Largest, A, B

\* A report is made of a sound state, also while a tick is under way.
LEMMA SeenIsSound ==
  ASSUME MInv
  PROVE  /\ NodesOK(Seen.nodes) /\ ProcsOK(Seen.procs) /\ Seen.tick \in Nat
         /\ Sound(Seen.nodes, Seen.procs)
         /\ Lived(Seen.procs, Seen.tick) /\ AllInTime(Seen.procs)
<1>1. CASE phase = "idle"
  <2>1. Seen.nodes = nodes /\ Seen.procs = procs /\ Seen.tick = tick
    BY <1>1 DEF Seen, Current
  <2>2. QED
    BY <2>1 DEF MInv, PInv, IInv, TypeOK
<1>2. CASE phase # "idle"
  <2>1. Seen = saved
    BY <1>2 DEF Seen
  <2>2. QED
    BY <1>2, <2>1 DEF MInv, PInv, IInv, TypeOK
<1>3. QED
  BY <1>1, <1>2

\* Four states are states of a process that was placed.
LEMMA StatesCounted ==
  ASSUME NEW ps, ProcsOK(ps), NEW now, Lived(ps, now)
  PROVE  LET In(s) == {p \in DOMAIN ps : ps[p].state = s}
             Count(s) == Cardinality(In(s)) IN
         /\ Count("RUNNING") + Count("PAUSED") + Count("WAITING") + Count("TERMINATED")
              <= Cardinality({p \in DOMAIN ps : ps[p].started # NoTick})
         /\ Cardinality({p \in DOMAIN ps : ps[p].finished # NoTick})
              = Count("TERMINATED") + Count("FAILED") + Count("KILLED")
<1> DEFINE In(s) == {p \in DOMAIN ps : ps[p].state = s}
           started == {p \in DOMAIN ps : ps[p].started # NoTick}
           finished == {p \in DOMAIN ps : ps[p].finished # NoTick}
           A == In("RUNNING") B == In("PAUSED") C == In("WAITING") D == In("TERMINATED")
           E == In("FAILED") F == In("KILLED")
<1>1. IsFiniteSet(DOMAIN ps)
  BY IdsAssumption, FS_Subset DEF ProcsOK
<1>2. /\ IsFiniteSet(A) /\ IsFiniteSet(B) /\ IsFiniteSet(C) /\ IsFiniteSet(D)
      /\ IsFiniteSet(E) /\ IsFiniteSet(F) /\ IsFiniteSet(started)
  BY <1>1, FS_Subset
<1>3. ASSUME NEW p \in DOMAIN ps
      PROVE  ps[p] \in Process /\ Timed(ps[p], now)
  BY DEF ProcsOK, Lived, RecordRight
<1>4. (A \cup B) \cup (C \cup D) \subseteq started
  BY <1>3 DEF Timed
<1>5. finished = D \cup (E \cup F)
  <2>1. ASSUME NEW p \in DOMAIN ps
        PROVE  ps[p].finished # NoTick <=> ps[p].state \in Terminal
    BY <1>3 DEF Timed, Process, NoTick, Ticks
  <2>2. QED
    BY <2>1 DEF Terminal
<1>6. /\ A \cap B = {} /\ C \cap D = {} /\ (A \cup B) \cap (C \cup D) = {}
      /\ E \cap F = {} /\ D \cap (E \cup F) = {}
  OBVIOUS
<1> HIDE DEF A, B, C, D, E, F, started, finished
<1>7. ASSUME NEW S, NEW T, IsFiniteSet(S), IsFiniteSet(T), S \cap T = {}
      PROVE  /\ IsFiniteSet(S \cup T)
             /\ Cardinality(S \cup T) = Cardinality(S) + Cardinality(T)
             /\ Cardinality(S) \in Nat /\ Cardinality(T) \in Nat
  <2>1. Cardinality(S \cap T) = 0
    BY <1>7, FS_EmptySet
  <2>2. Cardinality(S) \in Nat /\ Cardinality(T) \in Nat
    BY <1>7, FS_CardinalityType
  <2>3. /\ IsFiniteSet(S \cup T)
        /\ Cardinality(S \cup T) = Cardinality(S) + Cardinality(T) - Cardinality(S \cap T)
    BY <1>7, FS_Union
  <2>4. QED
    BY <2>1, <2>2, <2>3
<1>8. /\ IsFiniteSet(A \cup B) /\ Cardinality(A \cup B) = Cardinality(A) + Cardinality(B)
      /\ Cardinality(A) \in Nat /\ Cardinality(B) \in Nat
  BY <1>2, <1>6, <1>7
<1>9. /\ IsFiniteSet(C \cup D) /\ Cardinality(C \cup D) = Cardinality(C) + Cardinality(D)
      /\ Cardinality(C) \in Nat /\ Cardinality(D) \in Nat
  BY <1>2, <1>6, <1>7
<1>10. /\ IsFiniteSet(E \cup F) /\ Cardinality(E \cup F) = Cardinality(E) + Cardinality(F)
       /\ Cardinality(E) \in Nat /\ Cardinality(F) \in Nat
  BY <1>2, <1>6, <1>7
<1>11. Cardinality((A \cup B) \cup (C \cup D)) = Cardinality(A \cup B) + Cardinality(C \cup D)
  BY <1>6, <1>7, <1>8, <1>9
<1>12. Cardinality(D \cup (E \cup F)) = Cardinality(D) + Cardinality(E \cup F)
  BY <1>2, <1>6, <1>7, <1>10
<1>13. Cardinality((A \cup B) \cup (C \cup D)) <= Cardinality(started)
  BY <1>2, <1>4, FS_Subset
<1>14. Cardinality(started) \in Nat
  BY <1>2, FS_CardinalityType
<1>15. Cardinality(A) + Cardinality(B) + Cardinality(C) + Cardinality(D)
         <= Cardinality(started)
  BY <1>8, <1>9, <1>11, <1>13, <1>14
<1>16. Cardinality(finished) = Cardinality(D) + Cardinality(E) + Cardinality(F)
  BY <1>5, <1>9, <1>10, <1>12
<1>17. QED
  BY <1>15, <1>16 DEF A, B, C, D, E, F, started, finished

\* A report agrees with itself, whenever it is made: what is in use is what the
\* running processes ask for and there is, and the counts and the sums over those
\* that started are part of those over all.
THEOREM ReportCoheres == MetricsSpec => []ReportIsCoherent
<1>1. MInv => ReportIsCoherent
  <2> SUFFICES ASSUME MInv
               PROVE  ReportIsCoherent
    OBVIOUS
  <2> DEFINE ps == Seen.procs
             ns == Seen.nodes
             now == Seen.tick
             all == DOMAIN ps
             started == {p \in all : ps[p].started # NoTick}
             finished == {p \in all : ps[p].finished # NoTick}
             running == {p \in all : ps[p].state = "RUNNING"}
             In(s) == {p \in all : ps[p].state = s}
             wait == [p \in all |-> ObservedWait(ps[p], now)]
  <2>1. /\ NodesOK(ns) /\ ProcsOK(ps) /\ now \in Nat /\ Sound(ns, ps)
        /\ Lived(ps, now) /\ AllInTime(ps)
    BY SeenIsSound
  <2>2. IsFiniteSet(all) /\ IsFiniteSet(DOMAIN ns) /\ started \subseteq all
    BY <2>1, IdsAssumption, FS_Subset DEF ProcsOK, NodesOK
  <2>3. ASSUME NEW p \in all
        PROVE  wait[p] \in 0 .. now
    BY <2>1, WaitInTime DEF ProcsOK, Lived, AllInTime
  <2>4. /\ Report.started = Cardinality(started) /\ Report.samples = Cardinality(finished)
        /\ \A s \in ProcStates \ {"NEW"} : Report.inState[s] = Cardinality(In(s))
    BY DEF Report
  <2>5. /\ Report.waitStarted = Cardinality(Pieces(wait, started))
        /\ Report.waitAll = Cardinality(Pieces(wait, all))
    <3>1. {{p} \X (1 .. wait[p]) : p \in started}
            = {{p} \X (1 .. ObservedWait(ps[p], now)) : p \in started}
      OBVIOUS
    <3>2. {{p} \X (1 .. wait[p]) : p \in all}
            = {{p} \X (1 .. ObservedWait(ps[p], now)) : p \in all}
      OBVIOUS
    <3>3. QED
      BY <3>1, <3>2 DEF Report, Total, Pieces
  <2>6. Report.maxStarted = Largest(wait, started) /\ Report.maxAll = Largest(wait, all)
    <3>1. {wait[p] : p \in started} = {ObservedWait(ps[p], now) : p \in started}
      OBVIOUS
    <3>2. {wait[p] : p \in all} = {ObservedWait(ps[p], now) : p \in all}
      OBVIOUS
    <3>3. QED
      BY <3>1, <3>2 DEF Report, Highest, Largest
  <2>7. ASSUME NEW r \in Resources
        PROVE  /\ Utilization[r].allocated = Demand(ps, running, r)
               /\ Utilization[r].allocated <= Utilization[r].total
    <3> DEFINE held == [n \in DOMAIN ns |-> ns[n].allocated[r]]
               there == [n \in DOMAIN ns |-> ns[n].capacity[r]]
    <3>1. /\ Utilization[r].allocated = Total(DOMAIN ns, LAMBDA n : ns[n].allocated[r])
          /\ Utilization[r].total = Total(DOMAIN ns, LAMBDA n : ns[n].capacity[r])
      BY DEF Utilization
    <3>2. /\ {{n} \X (1 .. held[n]) : n \in DOMAIN ns}
               = {{n} \X (1 .. ns[n].allocated[r]) : n \in DOMAIN ns}
          /\ {{n} \X (1 .. there[n]) : n \in DOMAIN ns}
               = {{n} \X (1 .. ns[n].capacity[r]) : n \in DOMAIN ns}
      OBVIOUS
    <3>3. \A n \in DOMAIN ns : there[n] \in Int /\ held[n] \in Int /\ held[n] <= there[n]
      <4>1. ASSUME NEW n \in DOMAIN ns
            PROVE  /\ ns[n].allocated[r] \in 0 .. ns[n].capacity[r]
                   /\ ns[n].capacity[r] \in Nat
        BY <2>1 DEF Sound, LedgerIn, WithinCapacity, NodesOK, Node
      <4>2. QED
        BY <4>1
    <3> HIDE DEF held, there
    <3>4. Cardinality(Pieces(held, DOMAIN ns)) <= Cardinality(Pieces(there, DOMAIN ns))
      BY <2>2, <3>3, TotalGrows
    <3>5. Total(DOMAIN ns, LAMBDA n : ns[n].allocated[r]) = Demand(ps, running, r)
      BY <2>1, AllocatedIsAsked
    <3>6. QED
      BY <3>1, <3>2, <3>4, <3>5 DEF Total, Pieces
  <2> HIDE DEF wait
  <2>8. Report.waitStarted <= Report.waitAll
    BY <2>2, <2>3, <2>5, TotalGrows
  <2>9. Report.maxStarted <= Report.maxAll
    BY <2>1, <2>2, <2>3, <2>6, HighestGrows
  <2>10. /\ Cardinality(In("RUNNING")) + Cardinality(In("PAUSED")) + Cardinality(In("WAITING"))
              + Cardinality(In("TERMINATED")) <= Cardinality(started)
         /\ Cardinality(finished) = Cardinality(In("TERMINATED")) + Cardinality(In("FAILED"))
                                      + Cardinality(In("KILLED"))
    BY <2>1, StatesCounted
  <2>11. /\ Report.inState["RUNNING"] + Report.inState["PAUSED"] + Report.inState["WAITING"]
              + Report.inState["TERMINATED"] <= Report.started
         /\ Report.samples = Report.inState["TERMINATED"] + Report.inState["FAILED"]
                               + Report.inState["KILLED"]
    <3>1. {"RUNNING", "PAUSED", "WAITING", "TERMINATED", "FAILED", "KILLED"}
            \subseteq ProcStates \ {"NEW"}
      BY DEF ProcStates
    <3> HIDE DEF In, started, finished
    <3>2. QED
      BY <2>4, <2>10, <3>1
  <2>12. QED
    BY <2>7, <2>8, <2>9, <2>11 DEF ReportIsCoherent
<1>2. QED
  BY <1>1, MetricsInvariant, PTL
=============================================================================
