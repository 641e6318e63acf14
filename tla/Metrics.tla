--------------------------------- MODULE Metrics ---------------------------------
(***************************************************************************)
(* metrics.Build: the report made of a snapshot of the cluster, and what   *)
(* the waiting times in it are worth.  The controller keeps no record of   *)
(* the ticks a process has waited; it adds them up when it places the      *)
(* process, from the tick at which it last entered the ready queue.  Two   *)
(* history variables beside the controller keep the record.                *)
(*                                                                         *)
(* Averages and rates are quotients of the sums and counts below.          *)
(***************************************************************************)
EXTENDS ControllerProperties, FiniteSetsExt

VARIABLES
  waited,     \* the ticks that began while a process was READY
  cutShort,   \* the processes that left the queue without being placed
  restore     \* both of these as they were before the tick under way

historyVars == <<waited, cutShort, restore>>

Fresh == [waited |-> [p \in ProcIds |-> 0], cutShort |-> {}]

History == [waited |-> waited, cutShort |-> cutShort]

MetricsInit ==
  /\ Init
  /\ waited = Fresh.waited /\ cutShort = {} /\ restore = Fresh

BeginsAnew(h) == waited' = h.waited /\ cutShort' = h.cutShort /\ restore' = Fresh

\* A process in the queue fails or is killed.
Torn(p) ==
  /\ p \in DOMAIN procs /\ procs[p].state = "READY"
  /\ \/ procs'[p].state \in Terminal
     \/ procs'[p].restarts > procs[p].restarts

Watches ==
  /\ cutShort' = cutShort \cup {p \in ProcIds : Torn(p)}
  /\ UNCHANGED <<waited, restore>>

ObserveCommand(A) == A /\ IF Replace THEN BeginsAnew(Fresh) ELSE Watches

ObserveBegin ==
  /\ BeginStep
  /\ waited' = [p \in ProcIds |-> IF p \in InState("READY") THEN waited[p] + 1 ELSE waited[p]]
  /\ restore' = History /\ UNCHANGED cutShort

ObserveStep ==
  /\ InsideStep
  /\ IF tick' < tick THEN BeginsAnew(restore)
     ELSE IF phase' = "idle" THEN BeginsAnew(History)
     ELSE Watches

MetricsNext == ObserveCommand(Command) \/ ObserveBegin \/ ObserveStep

MetricsSpec == MetricsInit /\ [][MetricsNext]_<<vars, historyVars>>

-----------------------------------------------------------------------------
(* The report *)

Larger(a, b) == IF a > b THEN a ELSE b

\* Fault: the wait of a process that is in the queue is left out.
PlacedWaitOnly(proc, now) == proc.waiting

\* Fault: the time since its submission counts for every process in the queue.
WaitSinceSubmission(proc, now) ==
  IF proc.state = "READY" THEN proc.waiting + (now - proc.submitted) ELSE proc.waiting

\* observedWaitingTicks
ObservedWait(proc, now) ==
  LET queued == IF proc.state = "READY" /\ now > proc.lastReady THEN now - proc.lastReady ELSE 0
      end    == IF proc.finished # NoTick THEN proc.finished ELSE now
      shown  == IF proc.started = NoTick /\ proc.state # "READY"
                  THEN Larger(proc.waiting + queued, end - proc.submitted)
                  ELSE proc.waiting + queued
  IN Larger(shown, 0)

\* A sum, written like Demand as the number of units: no summand is negative, which
\* for the waiting times is part of TimesAgree.
Total(S, f(_)) == Cardinality(UNION {{x} \X (1 .. f(x)) : x \in S})

Highest(S, f(_)) == IF S = {} THEN 0 ELSE Larger(0, Max({f(x) : x \in S}))

\* Build, for what Snapshot returns.
Report ==
  LET ps       == Seen.procs
      all      == DOMAIN ps
      started  == {p \in all : ps[p].started # NoTick}
      finished == {p \in all : ps[p].finished # NoTick}
      wait(p)  == ObservedWait(ps[p], Seen.tick)
  IN [submitted    |-> Cardinality(all),
      started      |-> Cardinality(started),
      neverStarted |-> Cardinality(all \ started),
      inState      |-> [s \in ProcStates \ {"NEW"} |->
                          Cardinality({p \in all : ps[p].state = s})],
      restarts     |-> Total(all, LAMBDA p : ps[p].restarts),
      waitStarted  |-> Total(started, wait),  waitAll |-> Total(all, wait),
      maxStarted   |-> Highest(started, wait), maxAll |-> Highest(all, wait),
      turnaround   |-> Total(finished, LAMBDA p : ps[p].finished - ps[p].submitted),
      samples      |-> Cardinality(finished)]

\* currentUtilization: what is allocated of what there is.
Utilization ==
  LET ns == Seen.nodes IN
  [r \in Resources |->
     [allocated |-> Total(DOMAIN ns, LAMBDA n : ns[n].allocated[r]),
      total     |-> Total(DOMAIN ns, LAMBDA n : ns[n].capacity[r])]]

-----------------------------------------------------------------------------

Idle == phase = "idle"

\* The waiting time shown of a process is the number of ticks it was in the ready
\* queue for, however often it left it for a node and came back by a pause, a wait
\* or a failure: unless it failed or was killed while it was in the queue
\* (lifecycle.go:262, 87, 124, recovery.go:143, report.go:122-128).
WaitIsReported ==
  Idle => \A p \in DOMAIN procs \ cutShort : ObservedWait(procs[p], tick) = waited[p]

\* The times shown fit together: no process that is over waited for longer than it
\* took, one that is not has not waited for longer than it is there, and one that
\* was never placed and is over waited all its life (report.go:127-135, 79-82).
TimesAgree ==
  Idle => \A p \in DOMAIN procs : LET proc == procs[p]
                                      end  == IF proc.finished # NoTick THEN proc.finished ELSE tick
                                      wait == ObservedWait(proc, tick) IN
    /\ wait \in 0 .. end - proc.submitted
    /\ proc.started = NoTick /\ proc.state \in Terminal => wait = end - proc.submitted

\* The report agrees with itself: what it says is in use is what the processes it counts
\* as running ask for, and every process that it counts as started, and no other, can
\* have done anything but wait for its node (report.go:84-99, 142-159).
ReportIsCoherent ==
  LET ps == Seen.procs
      running == {p \in DOMAIN ps : ps[p].state = "RUNNING"} IN
  /\ \A r \in Resources :
       /\ Utilization[r].allocated = Demand(ps, running, r)
       /\ Utilization[r].allocated <= Utilization[r].total
  /\ Report.inState["RUNNING"] + Report.inState["PAUSED"] + Report.inState["WAITING"]
       + Report.inState["TERMINATED"] <= Report.started
  /\ Report.maxStarted <= Report.maxAll /\ Report.waitStarted <= Report.waitAll
  /\ Report.samples = Report.inState["TERMINATED"] + Report.inState["FAILED"]
                        + Report.inState["KILLED"]

\* For the processes that a run without capacity never started, the waiting metric
\* includes the ready time that was observed (docs/experiments.md:41).
WaitIncludesReadyTime ==
  (Idle /\ reason = "NO_ONLINE_CAPACITY") =>
    \A p \in DOMAIN procs :
      procs[p].started = NoTick => ObservedWait(procs[p], tick) >= waited[p]
=============================================================================
