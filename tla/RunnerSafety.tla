------------------------------ MODULE RunnerSafety ------------------------------
(***************************************************************************)
(* RunScenario: the loop neither ends early nor late, it fails only over a *)
(* failure of the document, and with enough ticks it starves no process.   *)
(*                                                                         *)
(* Nobody else commands the controller that the goroutine steps, so what   *)
(* it loaded is still there: each process of the document is either in the *)
(* cluster or pending.  Part one states this, part two keeps it, part      *)
(* three counts the work that is left against the ticks that are left.     *)
(***************************************************************************)
EXTENDS Runner, ControllerRefines

-----------------------------------------------------------------------------
(* The invariant *)

\* Every process of the document has been submitted or is pending, and no failure
\* is scheduled that the document does not name.
Accounted(ps, pend, fails) ==
  /\ pend \subseteq scenario.processes
  /\ DOMAIN ps = IdsOf(scenario.processes \ pend)
  /\ fails \subseteq LoadedFailures(scenario)

\* All that is scheduled is to happen later.
StillToCome(pend, fails, now) ==
  (\A d \in pend : d.at > now) /\ (\A f \in fails : f.at > now)

\* The tick before which everything that was due has been applied.
Settled == IF phase = "apply" THEN tick - 1 ELSE tick

Loaded ==
  /\ ValidScenario(scenario) /\ WithinLimits(scenario)
  /\ maxTicks = scenario.maxTicks
  /\ Accounted(procs, pending, failures)
  /\ StillToCome(pending, failures, Settled)
  /\ phase # "idle" => /\ Accounted(saved.procs, saved.pending, saved.failures)
                       /\ StillToCome(saved.pending, saved.failures, saved.tick)
                       /\ failures \subseteq saved.failures

HasRun == pc = "loop" \/ Returned("ok") \/ (Returned("error") /\ DOMAIN nodes # {})

RunnerInv ==
  /\ PInv
  /\ pc \in {"start", "loop", "done"} /\ scenario \in Scenarios
  /\ pc = "done" => outcome \in {"ok", "error"}
  /\ pc = "start" => nodes = NoNodes
  /\ pc # "loop" => phase = "idle"
  /\ HasRun => Loaded
  /\ pc = "loop" => left \in Nat /\ left + tick = maxTicks
  /\ BudgetEndsTheRun
  /\ Returned("ok") => status = "COMPLETED"
  /\ reason = "ALL_TERMINAL" => AllTerminal
  /\ Returned("error") => \/ ~ (ValidScenario(scenario) /\ WithinLimits(scenario))
                            /\ DOMAIN nodes = {}
                          \/ \E f \in failures : f.at = tick + 1

-----------------------------------------------------------------------------
(* The work that is left *)

DocumentWork == UNION {{d.id} \X (1 .. d.def.total) : d \in scenario.processes}

WorkBegun(ps) == UNION {{p} \X (1 .. ps[p].remaining) : p \in DOMAIN ps}
WorkToCome(pend) == UNION {{d.id} \X (1 .. d.def.total) : d \in pend}

Work(ps, pend) == WorkBegun(ps) \cup WorkToCome(pend)

WorkLeft == Work(procs, pending)

\* Since the submission of some process, each tick up to t has done a unit of work.
OnSchedule(t) ==
  \E d \in scenario.processes :
    Cardinality(WorkLeft) + t <= SubmitTick(d) + TotalWork(scenario)

\* The records are those of the document, and nothing but placement and work has
\* happened to them.
AsDefined ==
  /\ DOMAIN nodes = IdsOf(scenario.nodes)
  /\ \A n \in DOMAIN nodes :
       /\ nodes[n].status = "ONLINE"
       /\ nodes[n].capacity = DefinitionOf(scenario.nodes, n).capacity
  /\ \A p \in DOMAIN procs : LET def == DefinitionOf(scenario.processes, p).def IN
       /\ procs[p].request = def.request /\ procs[p].total = def.total
       /\ procs[p].state \in {"READY", "RUNNING", "TERMINATED"}

Steady ==
  \/ WorkLeft = {}
  \/ phase \in {"idle", "run", "close"} /\ OnSchedule(tick)
  \/ phase \in {"apply", "beat", "place"} /\ OnSchedule(tick - 1)
  \/ phase = "run" /\ todo # {} /\ OnSchedule(tick - 1)

AmpleInv ==
  (Ample(scenario) /\ pc # "start") =>
    /\ AsDefined /\ Steady /\ failures = {}
    /\ status = "COMPLETED" => reason = "ALL_TERMINAL"

-----------------------------------------------------------------------------
(* The goroutine moves the controller by steps of its own *)

LEMMA RunnerMoves ==
  ASSUME scenario \in Scenarios, RunnerNext
  PROVE  [Next]_vars
<1>1. CASE Load
  BY <1>1 DEF Load, Next, Command
<1>2. CASE Refuse
  BY <1>2 DEF Refuse
<1>3. CASE CallStep
  BY <1>3 DEF CallStep, Next
<1>4. CASE StepRuns
  BY <1>4 DEF StepRuns, Next
<1>5. CASE LeaveLoop
  BY <1>5 DEF LeaveLoop, Next, Command
<1>6. QED
  BY <1>1, <1>2, <1>3, <1>4, <1>5 DEF RunnerNext

-----------------------------------------------------------------------------
(* What the document says of what is scheduled *)

LEMMA DocumentType ==
  ASSUME scenario \in Scenarios
  PROVE  /\ scenario.processes \subseteq Submission /\ scenario.maxTicks \in Int
         /\ IdsOf(scenario.processes) \subseteq ProcIds
         /\ IsFiniteSet(IdsOf(scenario.processes))
<1>1. scenario.processes \subseteq Submission /\ scenario.maxTicks \in Int
  BY InputAssumption
<1>2. IdsOf(scenario.processes) \subseteq ProcIds
  BY <1>1 DEF IdsOf, Submission
<1>3. QED
  BY <1>1, <1>2, IdsAssumption, FS_Subset

\* What is pending can be submitted when it is due: its ID is its own, and with it
\* there are no more processes than the document has.
LEMMA PendingIsWelcome ==
  ASSUME TypeOK, scenario \in Scenarios, Loaded, NEW d \in pending
  PROVE  CanSubmit(d.id, d.def)
<1>1. /\ UniqueIds(scenario.processes) /\ Cardinality(scenario.processes) <= MaxProcesses
      /\ d \in scenario.processes /\ ValidDefinition(d.def)
      /\ DOMAIN procs = IdsOf(scenario.processes \ pending)
  BY DEF Loaded, ValidScenario, WithinLimits, Accounted
<1>2. d.id \in IdsOf(scenario.processes) /\ d.id \notin DOMAIN procs
  BY <1>1 DEF UniqueIds, IdsOf
<1>3. DOMAIN procs \subseteq IdsOf(scenario.processes)
  BY <1>1 DEF IdsOf
<1> DEFINE all == IdsOf(scenario.processes)
           now == DOMAIN procs
<1>4. IsFiniteSet(all) /\ Cardinality(all) <= MaxProcesses
  BY <1>1, DocumentType, IdsCounted
<1> HIDE DEF all, now
<1>5. now \subseteq all /\ now # all
  BY <1>2, <1>3 DEF all, now
<1>6. /\ Cardinality(now) <= Cardinality(all) /\ Cardinality(now) # Cardinality(all)
      /\ IsFiniteSet(now)
  BY <1>4, <1>5, FS_Subset
<1>7. Cardinality(now) \in Nat /\ Cardinality(all) \in Nat /\ MaxProcesses \in Nat
  BY <1>4, <1>6, FS_CardinalityType, ConfigAssumption
<1>8. Cardinality(now) < MaxProcesses
  BY <1>4, <1>6, <1>7
<1>9. QED
  BY <1>1, <1>2, <1>8 DEF CanSubmit, now

LEMMA ScheduleLoaded ==
  ASSUME scenario \in Scenarios, LoadScenario(scenario)
  PROVE  /\ Accounted(procs', pending', failures')
         /\ StillToCome(pending', failures', 0)
         /\ scenario.maxTicks > 0
<1>1. /\ procs' = LoadedProcesses(scenario) /\ pending' = LoadedPending(scenario)
      /\ failures' = LoadedFailures(scenario) /\ ValidScenario(scenario)
  BY DEF LoadScenario
<1>2. \A d \in scenario.processes : d.at \in Int
  BY DocumentType DEF Submission
<1>3. scenario.processes \ pending' = PresentAtStart(scenario)
  BY <1>1, <1>2 DEF LoadedPending, PresentAtStart
<1>4. DOMAIN procs' = IdsOf(PresentAtStart(scenario))
  BY <1>1 DEF LoadedProcesses
<1>5. Accounted(procs', pending', failures')
  BY <1>1, <1>3, <1>4 DEF Accounted, LoadedPending
<1>6. \A d \in pending' : d.at > 0
  BY <1>1 DEF LoadedPending
<1>7. \A f \in failures' : f.at > 0
  <2>1. ASSUME NEW i \in DOMAIN scenario.failures
        PROVE  scenario.failures[i].at > 0
    BY <1>1 DEF ValidScenario, ValidFailure
  <2>2. QED
    BY <1>1, <2>1 DEF LoadedFailures
<1>8. QED
  BY <1>1, <1>5, <1>6, <1>7 DEF StillToCome, ValidScenario

-----------------------------------------------------------------------------
(* A tick *)

\* What a step inside a tick does to what is scheduled, if it does not go back.
LEMMA ScheduleStep ==
  ASSUME PInv, InsideStep, tick' = tick
  PROVE  \/ \E d \in pending :
              /\ phase = "apply" /\ phase' = "apply" /\ d.at = tick
              /\ CanSubmit(d.id, d.def) /\ SubmitLocked(d.id, d.def)
              /\ pending' = pending \ {d} /\ failures' = failures
              /\ nodes' = nodes /\ maxTicks' = maxTicks
         \/ \E f \in failures :
              /\ ApplyFailure(f)
              /\ phase = "apply" /\ phase' = "apply"
              /\ pending' = pending /\ failures' = failures \ {f}
              /\ DOMAIN procs' = DOMAIN procs /\ maxTicks' = maxTicks
         \/ /\ phase = "apply" => EndApply
            /\ phase # "idle" /\ phase' # "apply"
            /\ phase' = "idle" => EndStep
            /\ pending' = pending /\ failures' = failures
            /\ DOMAIN procs' = DOMAIN procs /\ maxTicks' = maxTicks
<1>1. phase # "idle" => tick = saved.tick + 1 /\ saved.tick \in Nat
  BY DEF PInv, StatusRight, IInv, TypeOK
<1>2. phase # "idle" => ~ Rollback
  BY <1>1 DEF Rollback
<1> USE DEF scheduleVars, clusterVars, stepVars
<1>3. ASSUME NEW d \in pending, ApplySubmission(d)
      PROVE  /\ phase = "apply" /\ phase' = "apply" /\ d.at = tick
             /\ CanSubmit(d.id, d.def) /\ SubmitLocked(d.id, d.def)
             /\ pending' = pending \ {d} /\ failures' = failures
             /\ nodes' = nodes /\ maxTicks' = maxTicks
  BY <1>2, <1>3 DEF ApplySubmission, NextSubmission, Due
<1>4. ASSUME NEW f \in failures, ApplyFailure(f) \/ RejectFailure(f)
      PROVE  /\ ApplyFailure(f)
             /\ phase = "apply" /\ phase' = "apply"
             /\ pending' = pending /\ failures' = failures \ {f}
             /\ DOMAIN procs' = DOMAIN procs /\ maxTicks' = maxTicks
  BY <1>2, <1>4 DEF ApplyFailure, RejectFailure, FailNodeLocked, FailProcessLocked
<1>5. ASSUME NEW n \in NodeIds, DetectMissedHeartbeat(n)
      PROVE  /\ phase = "beat" /\ phase' = "beat"
             /\ pending' = pending /\ failures' = failures
             /\ DOMAIN procs' = DOMAIN procs /\ maxTicks' = maxTicks
  BY <1>5 DEF DetectMissedHeartbeat, FailNodeLocked
<1>6. ASSUME NEW p \in ProcIds, Place(p)
      PROVE  /\ phase = "place" /\ phase' = "place"
             /\ pending' = pending /\ failures' = failures
             /\ DOMAIN procs' = DOMAIN procs /\ maxTicks' = maxTicks
  BY <1>6, PlaceOnSucceeds DEF Place, PInv
<1>7. ASSUME NEW p \in ProcIds, Defer(p)
      PROVE  /\ phase = "place" /\ phase' = "place"
             /\ pending' = pending /\ failures' = failures
             /\ DOMAIN procs' = DOMAIN procs /\ maxTicks' = maxTicks
  BY <1>7 DEF Defer
<1>8. ASSUME NEW p \in ProcIds, Execute(p)
      PROVE  /\ phase = "run" /\ phase' = "run"
             /\ pending' = pending /\ failures' = failures
             /\ DOMAIN procs' = DOMAIN procs /\ maxTicks' = maxTicks
  BY <1>8 DEF Execute
<1>9. CASE EndApply
  BY <1>9 DEF EndApply
<1>10. CASE EndBeat \/ EndPlace \/ EndRun
  BY <1>10 DEF EndBeat, EndPlace, EndRun
<1>11. CASE EndStep
  BY <1>2, <1>11 DEF EndStep
<1>12. QED
  BY <1>3, <1>4, <1>5, <1>6, <1>7, <1>8, <1>9, <1>10, <1>11 DEF InsideStep

\* A step of a tick that the runner makes goes on, or back over a failure that
\* could not be applied.
LEMMA OnlyRejectionsFail ==
  ASSUME RunnerInv, pc = "loop", InsideStep
  PROVE  \/ tick' = tick /\ saved' \in {saved, NothingSaved}
         \/ tick' = tick - 1 /\ \E f \in failures : RejectFailure(f)
<1>1. TypeOK /\ Loaded /\ scenario \in Scenarios
  BY DEF RunnerInv, HasRun, PInv, IInv
<1>2. phase # "idle"
  BY DEF InsideStep, ApplySubmission, ApplyFailure, RejectFailure,
       DetectMissedHeartbeat, Place, Defer, Execute, EndApply, EndBeat, EndPlace,
       EndRun, EndStep
<1>3. tick = saved.tick + 1 /\ saved.tick \in Nat
  BY <1>1, <1>2 DEF RunnerInv, PInv, StatusRight, TypeOK
<1> USE DEF stepVars, clusterVars
<1>4. ASSUME NEW d \in pending, ApplySubmission(d)
      PROVE  tick' = tick /\ saved' = saved
  BY <1>1, <1>4, PendingIsWelcome DEF ApplySubmission
<1>5. ASSUME NEW f \in failures, RejectFailure(f)
      PROVE  tick' = tick - 1
  BY <1>3, <1>5 DEF RejectFailure, Rollback
<1>6. CASE EndStep
  <2>1. Consistent(nodes, procs)
    BY <1>1, SoundIsConsistent DEF RunnerInv, PInv, IInv, TypeOK
  <2>2. QED
    BY <1>6, <2>1 DEF EndStep
<1>7. CASE \E f \in failures : ApplyFailure(f)
  BY <1>7 DEF ApplyFailure
<1>8. CASE \E n \in NodeIds : DetectMissedHeartbeat(n)
  BY <1>8 DEF DetectMissedHeartbeat
<1>9. CASE \E p \in ProcIds : Place(p) \/ Defer(p) \/ Execute(p)
  BY <1>9 DEF Place, Defer, Execute
<1>10. CASE EndApply \/ EndBeat \/ EndPlace \/ EndRun
  BY <1>10 DEF EndApply, EndBeat, EndPlace, EndRun
<1>11. QED
  BY <1>4, <1>5, <1>6, <1>7, <1>8, <1>9, <1>10 DEF InsideStep

-----------------------------------------------------------------------------
(* The invariant is kept *)

LEMMA InitRunnerInv ==
  ASSUME RunnerInit
  PROVE  RunnerInv
<1>1. PInv
  BY InitPInv DEF RunnerInit
<1>2. /\ pc = "start" /\ scenario \in Scenarios /\ nodes = NoNodes /\ phase = "idle"
      /\ reason = ""
  BY DEF RunnerInit, Init
<1>3. QED
  BY <1>1, <1>2 DEF RunnerInv, HasRun, Returned, BudgetEndsTheRun

LEMMA LoadKeeps ==
  ASSUME RunnerInv, PInv', Load
  PROVE  RunnerInv'
<1>1. /\ pc' = "loop" /\ left' = scenario.maxTicks /\ scenario' = scenario
      /\ LoadScenario(scenario) /\ scenario \in Scenarios
  BY DEF Load, RunnerInv
<1>2. /\ phase' = "idle" /\ tick' = 0 /\ reason' = "" /\ maxTicks' = scenario.maxTicks
      /\ ValidScenario(scenario) /\ WithinLimits(scenario)
  BY <1>1 DEF LoadScenario, Free, stepVars
<1>3. /\ Accounted(procs', pending', failures')
      /\ StillToCome(pending', failures', 0) /\ scenario.maxTicks > 0
  BY <1>1, ScheduleLoaded
<1>4. Loaded'
  BY <1>1, <1>2, <1>3 DEF Loaded, Accounted, Settled
<1>5. scenario.maxTicks \in Nat \ {0}
  BY <1>1, <1>3, DocumentType
<1>6. left' \in Nat /\ left' + tick' = maxTicks' /\ left' # 0
  <2> PICK k \in Nat \ {0} : k = scenario.maxTicks
    BY <1>5
  <2>1. left' = k /\ maxTicks' = k /\ tick' = 0
    BY <1>1, <1>2
  <2>2. k + 0 = k /\ k \in Nat /\ k # 0
    OBVIOUS
  <2>3. QED
    BY <2>1, <2>2, Zenon
<1>7. QED
  BY <1>1, <1>2, <1>4, <1>6 DEF RunnerInv, HasRun, Returned, BudgetEndsTheRun

LEMMA RefuseKeeps ==
  ASSUME RunnerInv, PInv', Refuse
  PROVE  RunnerInv'
<1>1. DOMAIN nodes = {} /\ phase = "idle"
  BY NothingType DEF Refuse, RunnerInv
<1>2. /\ pc' = "done" /\ outcome' = "error" /\ scenario' = scenario
      /\ nodes' = nodes /\ phase' = phase /\ reason' = reason
      /\ AllTerminal' = AllTerminal
  BY DEF Refuse, Return, vars, clusterVars, stepVars, scheduleVars, AllTerminal
<1>3. ~ (ValidScenario(scenario) /\ WithinLimits(scenario))
  BY DEF Refuse
<1>4. QED
  BY <1>1, <1>2, <1>3 DEF RunnerInv, HasRun, Returned, BudgetEndsTheRun

LEMMA CallKeeps ==
  ASSUME RunnerInv, PInv', CallStep
  PROVE  RunnerInv'
<1>1. /\ pc = "loop" /\ pc' = "loop" /\ left' = left - 1 /\ left > 0
      /\ scenario' = scenario /\ phase = "idle" /\ status # "COMPLETED"
  BY DEF CallStep
<1>2. /\ phase' = "apply" /\ saved' = Current /\ tick' = tick + 1 /\ tick \in Nat
      /\ procs' = procs /\ pending' = pending /\ failures' = failures
      /\ maxTicks' = maxTicks /\ reason' = reason
  BY DEF CallStep, BeginStep, scheduleVars, RunnerInv, PInv, IInv, TypeOK
<1>3. reason = ""
  BY <1>1 DEF RunnerInv, PInv, StatusRight, ReasonIffCompleted
<1>4. Loaded /\ left \in Nat /\ left + tick = maxTicks
  BY <1>1 DEF RunnerInv, HasRun
<1>5. Settled = tick /\ Settled' = tick
  BY <1>1, <1>2 DEF Settled
<1>6. Loaded'
  BY <1>1, <1>2, <1>4, <1>5 DEF Loaded, Accounted, StillToCome, Current
<1>7. left' \in Nat /\ left' + tick' = maxTicks'
  BY <1>1, <1>2, <1>4
<1>8. QED
  BY <1>1, <1>2, <1>3, <1>6, <1>7 DEF RunnerInv, HasRun, Returned, BudgetEndsTheRun

LEMMA LeaveKeeps ==
  ASSUME RunnerInv, PInv', LeaveLoop
  PROVE  RunnerInv'
<1>1. status = "COMPLETED" /\ phase = "idle" /\ UNCHANGED vars
  BY DEF LeaveLoop, RunnerInv, BudgetEndsTheRun
<1>2. /\ pc = "loop" /\ pc' = "done" /\ outcome' = "ok" /\ scenario' = scenario
  BY DEF LeaveLoop, Return
<1>3. /\ phase' = phase /\ status' = status /\ reason' = reason
      /\ AllTerminal' = AllTerminal
  BY <1>1 DEF vars, clusterVars, stepVars, scheduleVars, AllTerminal
<1>4. Loaded
  BY <1>2 DEF RunnerInv, HasRun
<1>5. Loaded'
  BY <1>1, <1>2, <1>4
  DEF Loaded, Accounted, Settled, vars, clusterVars, stepVars, scheduleVars
<1>6. QED
  BY <1>1, <1>2, <1>3, <1>5 DEF RunnerInv, HasRun, Returned, BudgetEndsTheRun

\* A failed tick is the end of the run.
LEMMA RejectionKeeps ==
  ASSUME RunnerInv, PInv', StepRuns, tick' = tick - 1,
         NEW f \in failures, RejectFailure(f)
  PROVE  RunnerInv'
<1>1. /\ pc = "loop" /\ tick \in Nat /\ scenario' = scenario
      /\ phase = "apply" /\ f.at = tick /\ Rollback
  BY DEF StepRuns, RejectFailure, NextFailure, Due, RunnerInv, PInv, IInv, TypeOK
<1>2. pc' = "done" /\ outcome' = "error"
  BY <1>1 DEF StepRuns, Return
<1>3. /\ Accounted(saved.procs, saved.pending, saved.failures)
      /\ StillToCome(saved.pending, saved.failures, saved.tick)
      /\ f \in saved.failures
      /\ ValidScenario(scenario) /\ WithinLimits(scenario) /\ maxTicks = scenario.maxTicks
  BY <1>1 DEF RunnerInv, HasRun, Loaded
<1>4. /\ phase' = "idle" /\ procs' = saved.procs /\ pending' = saved.pending
      /\ failures' = saved.failures /\ tick' = saved.tick /\ reason' = saved.reason
      /\ maxTicks' = maxTicks
  BY <1>1 DEF Rollback
<1>5. Settled' = saved.tick
  BY <1>4 DEF Settled
<1>6. Loaded'
  BY <1>1, <1>3, <1>4, <1>5 DEF Loaded, Accounted
<1>7. f \in failures' /\ f.at = tick' + 1
  BY <1>1, <1>3, <1>4
<1>8. reason' = ""
  BY <1>1, <1>4 DEF RunnerInv, PInv, StatusRight
<1>9. QED
  BY <1>1, <1>2, <1>4, <1>6, <1>7, <1>8 DEF RunnerInv, HasRun, Returned, BudgetEndsTheRun

\* What is scheduled stays accounted for.
LEMMA TickKeepsLoaded ==
  ASSUME RunnerInv, pc = "loop", scenario' = scenario, InsideStep, tick' = tick,
         saved' \in {saved, NothingSaved}
  PROVE  Loaded'
<1>1. /\ Loaded /\ TypeOK /\ PInv /\ tick \in Nat /\ scenario \in Scenarios
  BY DEF RunnerInv, HasRun, PInv, IInv, TypeOK
<1>2. /\ ValidScenario(scenario) /\ WithinLimits(scenario) /\ maxTicks = scenario.maxTicks
      /\ Accounted(procs, pending, failures) /\ StillToCome(pending, failures, Settled)
  BY <1>1 DEF Loaded
<1>3. ASSUME phase' # "idle"
      PROVE  /\ saved' = saved /\ phase # "idle"
             /\ Accounted(saved.procs, saved.pending, saved.failures)
             /\ StillToCome(saved.pending, saved.failures, saved.tick)
             /\ failures \subseteq saved.failures
  BY <1>1, <1>3, PhaseStep DEF Loaded
<1>4. /\ maxTicks' = maxTicks
      /\ Accounted(procs', pending', failures') /\ failures' \subseteq failures
      /\ StillToCome(pending', failures', Settled')
  <2>1. CASE \E d \in pending :
              /\ phase = "apply" /\ phase' = "apply" /\ d.at = tick
              /\ CanSubmit(d.id, d.def) /\ SubmitLocked(d.id, d.def)
              /\ pending' = pending \ {d} /\ failures' = failures
              /\ nodes' = nodes /\ maxTicks' = maxTicks
    <3>1. PICK d \in pending :
              /\ phase = "apply" /\ phase' = "apply"
              /\ SubmitLocked(d.id, d.def)
              /\ pending' = pending \ {d} /\ failures' = failures
              /\ maxTicks' = maxTicks
      BY <2>1
    <3>2. DOMAIN procs' = DOMAIN procs \cup {d.id}
      BY <3>1 DEF SubmitLocked
    <3>3. d \in scenario.processes
      BY <1>2 DEF Accounted
    <3>4. scenario.processes \ pending' = (scenario.processes \ pending) \cup {d}
      BY <3>1, <3>3
    <3>5. IdsOf((scenario.processes \ pending) \cup {d})
            = IdsOf(scenario.processes \ pending) \cup {d.id}
      BY DEF IdsOf
    <3>6. Accounted(procs', pending', failures')
      BY <1>2, <3>1, <3>2, <3>4, <3>5 DEF Accounted
    <3>7. Settled' = Settled
      BY <3>1 DEF Settled
    <3>8. QED
      BY <1>2, <3>1, <3>6, <3>7 DEF StillToCome
  <2>2. CASE \E f \in failures :
              /\ ApplyFailure(f)
              /\ phase = "apply" /\ phase' = "apply"
              /\ pending' = pending /\ failures' = failures \ {f}
              /\ DOMAIN procs' = DOMAIN procs /\ maxTicks' = maxTicks
    <3>1. Settled' = Settled
      BY <2>2 DEF Settled
    <3>2. QED
      BY <1>2, <2>2, <3>1 DEF Accounted, StillToCome
  <2>3. CASE /\ phase = "apply" => EndApply
             /\ phase # "idle" /\ phase' # "apply"
             /\ pending' = pending /\ failures' = failures
             /\ DOMAIN procs' = DOMAIN procs /\ maxTicks' = maxTicks
    <3>1. Settled' = tick
      BY <2>3 DEF Settled
    <3>2. StillToCome(pending, failures, tick)
      <4>1. CASE phase # "apply"
        BY <1>2, <4>1 DEF Settled
      <4>2. CASE phase = "apply"
        <5>1. Due(pending) = {} /\ Due(failures) = {}
          BY <2>3, <4>2 DEF EndApply
        <5>2. StillToCome(pending, failures, tick - 1)
          BY <1>2, <4>2 DEF Settled
        <5>3. (\A d \in pending : d.at \in Int) /\ (\A f \in failures : f.at \in Int)
          BY <1>1 DEF TypeOK, Submission, Failure
        <5>4. QED
          BY <1>1, <5>1, <5>2, <5>3 DEF Due, StillToCome
      <4>3. QED
        BY <4>1, <4>2
    <3>3. QED
      BY <1>2, <2>3, <3>1, <3>2 DEF Accounted
  <2>4. QED
    BY <1>1, <2>1, <2>2, <2>3, ScheduleStep
<1>5. QED
  BY <1>2, <1>3, <1>4 DEF Loaded, Accounted

\* A tick ends COMPLETED when the budget is used up, and says why.
LEMMA TickCompletes ==
  ASSUME RunnerInv, PInv', pc = "loop", InsideStep, tick' = tick
  PROVE  /\ phase' = "idle" /\ OutOfTicks => status' = "COMPLETED"
         /\ reason' = "ALL_TERMINAL" => AllTerminal'
<1>1. PInv /\ phase # "idle" /\ TypeOK
  BY DEF RunnerInv, PInv, IInv, InsideStep, ApplySubmission, ApplyFailure, RejectFailure,
       DetectMissedHeartbeat, Place, Defer, Execute, EndApply, EndBeat, EndPlace,
       EndRun, EndStep
<1>2. phase' = "idle" => EndStep
  BY <1>1, ScheduleStep
<1>3. Consistent(nodes, procs)
  BY <1>1, SoundIsConsistent DEF PInv, IInv, TypeOK
<1>4. reason = ""
  BY <1>1 DEF PInv, StatusRight, ReasonIffCompleted
<1>5. CASE EndStep
  <2>1. /\ status' = IF FinishReason = "" THEN status ELSE "COMPLETED"
        /\ reason' = IF FinishReason = "" THEN reason ELSE FinishReason
        /\ procs' = procs /\ pending' = pending
    BY <1>3, <1>5 DEF EndStep, scheduleVars
  <2>2. OutOfTicks => FinishReason # ""
    BY DEF FinishReason
  <2>3. FinishReason = "ALL_TERMINAL" => AllTerminal
    BY DEF FinishReason, ProgressBlockReason
  <2>4. AllTerminal' = AllTerminal
    BY <2>1 DEF AllTerminal
  <2>5. QED
    BY <1>4, <2>1, <2>2, <2>3, <2>4
<1>6. CASE phase' # "idle"
  <2>1. status' # "COMPLETED"
    BY <1>6 DEF PInv, StatusRight
  <2>2. reason' = ""
    BY <2>1 DEF PInv, StatusRight, ReasonIffCompleted
  <2>3. QED
    BY <1>6, <2>2
<1>7. QED
  BY <1>2, <1>5, <1>6

LEMMA StepKeeps ==
  ASSUME RunnerInv, PInv', StepRuns
  PROVE  RunnerInv'
<1>1. pc = "loop" /\ InsideStep /\ scenario' = scenario /\ left' = left
  BY DEF StepRuns
<1>2. CASE tick' = tick /\ saved' \in {saved, NothingSaved}
  <2>1. tick \in Nat /\ left \in Nat /\ left + tick = maxTicks /\ maxTicks > 0
    <3>1. /\ tick \in Nat /\ left \in Nat /\ left + tick = maxTicks
          /\ maxTicks = scenario.maxTicks /\ ValidScenario(scenario)
      BY <1>1 DEF RunnerInv, HasRun, Loaded, PInv, IInv, TypeOK
    <3>2. QED
      BY <3>1 DEF ValidScenario
  <2>2. pc' = "loop" /\ outcome' = outcome
    BY <1>1, <1>2, <2>1 DEF StepRuns
  <2>3. Loaded'
    BY <1>1, <1>2, TickKeepsLoaded
  <2>4. maxTicks' = maxTicks
    BY <1>1, <1>2, ScheduleStep DEF RunnerInv
  <2>5. left' \in Nat /\ left' + tick' = maxTicks'
    BY <1>1, <1>2, <2>1, <2>4
  <2>6. left = 0 => OutOfTicks
    BY <2>1 DEF OutOfTicks
  <2>7. /\ (phase' = "idle" /\ left' = 0) => status' = "COMPLETED"
        /\ reason' = "ALL_TERMINAL" => AllTerminal'
    BY <1>1, <1>2, <2>6, TickCompletes
  <2>8. scenario' \in Scenarios
    BY <1>1 DEF RunnerInv
  <2>9. QED
    BY <2>2, <2>3, <2>5, <2>7, <2>8 DEF RunnerInv, HasRun, Returned, BudgetEndsTheRun
<1>3. CASE tick' = tick - 1 /\ \E f \in failures : RejectFailure(f)
  BY <1>3, RejectionKeeps
<1>4. QED
  BY <1>1, <1>2, <1>3, OnlyRejectionsFail

LEMMA StutterKeeps ==
  ASSUME RunnerInv, UNCHANGED <<vars, runnerVars>>
  PROVE  RunnerInv'
<1>1. vars' = vars
  OBVIOUS
<1>2. PInv'
  BY <1>1, NextPInv DEF RunnerInv
<1>3. QED
  BY <1>2
  DEF RunnerInv, HasRun, Returned, Loaded, Accounted, Settled, BudgetEndsTheRun, AllTerminal,
      vars, clusterVars, stepVars, scheduleVars, runnerVars

LEMMA NextRunnerInv ==
  ASSUME RunnerInv, [RunnerNext]_<<vars, runnerVars>>
  PROVE  RunnerInv'
<1>1. CASE RunnerNext
  <2>1. PInv'
    BY <1>1, RunnerMoves, NextPInv DEF RunnerInv
  <2>2. QED
    BY <1>1, <2>1, LoadKeeps, RefuseKeeps, CallKeeps, StepKeeps, LeaveKeeps DEF RunnerNext
<1>2. CASE UNCHANGED <<vars, runnerVars>>
  BY <1>2, StutterKeeps
<1>3. QED
  BY <1>1, <1>2

LEMMA RunnerInvariant == RunnerSpec => []RunnerInv
<1>1. RunnerInit => RunnerInv
  BY InitRunnerInv
<1>2. RunnerInv /\ [RunnerNext]_<<vars, runnerVars>> => RunnerInv'
  BY NextRunnerInv
<1>3. QED
  BY <1>1, <1>2, PTL DEF RunnerSpec

-----------------------------------------------------------------------------
(* What follows *)

\* The tick that uses up the budget completes the simulation, so the loop finds it
\* COMPLETED whenever it has run out of iterations.
THEOREM BudgetIsKept == RunnerSpec => []BudgetEndsTheRun
<1>1. RunnerInv => BudgetEndsTheRun
  BY DEF RunnerInv
<1>2. QED
  BY <1>1, RunnerInvariant, PTL

\* RunScenario fails only at the tick of a failure that could not be applied, for
\* every document: a submission of the document is never refused.
THEOREM FailuresAlone == RunnerSpec => []OnlyFailuresFail
<1>1. RunnerInv => OnlyFailuresFail
  BY DEF RunnerInv, OnlyFailuresFail
<1>2. QED
  BY <1>1, RunnerInvariant, PTL

\* A run that ends because everything is over has submitted every process and
\* applied every failure that was due, for every document.
THEOREM NothingLost == RunnerSpec => []NothingIsLost
<1>1. RunnerInv => NothingIsLost
  <2> SUFFICES ASSUME RunnerInv, Returned("ok"), reason = "ALL_TERMINAL"
               PROVE  /\ DOMAIN procs = IdsOf(scenario.processes)
                      /\ \A i \in DOMAIN scenario.failures :
                           scenario.failures[i].at <= tick =>
                             ~ \E f \in failures : f.pos = i
    BY DEF NothingIsLost
  <2>1. Loaded /\ phase = "idle" /\ pending = {} /\ tick \in Nat /\ TypeOK
    BY DEF RunnerInv, HasRun, Returned, AllTerminal, PInv, IInv, TypeOK
  <2>2. /\ DOMAIN procs = IdsOf(scenario.processes \ {})
        /\ failures \subseteq LoadedFailures(scenario)
        /\ \A f \in failures : f.at > tick
    BY <2>1 DEF Loaded, Accounted, StillToCome, Settled
  <2>3. ASSUME NEW i \in DOMAIN scenario.failures, NEW f \in failures, f.pos = i,
               scenario.failures[i].at <= tick
        PROVE  FALSE
    <3>1. f.at = scenario.failures[i].at
      BY <2>2, <2>3 DEF LoadedFailures
    <3>2. f.at \in Int
      BY <2>1 DEF TypeOK, Failure
    <3>3. QED
      BY <2>1, <2>2, <2>3, <3>1, <3>2
  <2>4. QED
    BY <2>2, <2>3
<1>2. QED
  BY <1>1, RunnerInvariant, PTL

-----------------------------------------------------------------------------
(* Counting the work *)

LEMMA DocumentWorkFinite ==
  ASSUME scenario \in Scenarios, ValidScenario(scenario)
  PROVE  /\ IsFiniteSet(DocumentWork)
         /\ Cardinality(DocumentWork) = TotalWork(scenario)
         /\ TotalWork(scenario) \in Nat
<1>1. IsFiniteSet(scenario.processes)
  BY DocumentType, IdsCounted DEF ValidScenario
<1>2. \A d \in scenario.processes : d.def.total \in Int
  BY DocumentType DEF Submission, ProcessDefinition
<1> DEFINE S == scenario.processes
           f == [d \in S |-> d.id]
           g == [d \in S |-> d.def.total]
<1>3. IsFiniteSet(UNION {{f[d]} \X (1 .. g[d]) : d \in S})
  <2>1. \A d \in S : g[d] \in Int
    BY <1>2
  <2> HIDE DEF f, g, S
  <2>2. IsFiniteSet(S)
    BY <1>1 DEF S
  <2>3. QED
    BY <2>1, <2>2, BlocksFinite
<1>4. {{f[d]} \X (1 .. g[d]) : d \in S} = {{d.id} \X (1 .. d.def.total) : d \in S}
  OBVIOUS
<1>5. IsFiniteSet(DocumentWork)
  BY <1>3, <1>4 DEF DocumentWork
<1>6. QED
  BY <1>5, FS_CardinalityType DEF DocumentWork, TotalWork

LEMMA UnitOfWork ==
  ASSUME NEW ps, NEW pend, NEW x
  PROVE  x \in Work(ps, pend) <=>
           \/ \E p \in DOMAIN ps : x \in {p} \X (1 .. ps[p].remaining)
           \/ \E d \in pend : x \in {d.id} \X (1 .. d.def.total)
<1>1. x \in WorkBegun(ps) <=> \E p \in DOMAIN ps : x \in {p} \X (1 .. ps[p].remaining)
  BY DEF WorkBegun
<1>2. x \in WorkToCome(pend) <=> \E d \in pend : x \in {d.id} \X (1 .. d.def.total)
  BY DEF WorkToCome
<1>3. x \in Work(ps, pend) <=> x \in WorkBegun(ps) \/ x \in WorkToCome(pend)
  BY DEF Work
<1>4. QED
  BY <1>1, <1>2, <1>3, Zenon

\* What is left is part of what the document asks for.
LEMMA WorkIsBounded ==
  ASSUME scenario \in Scenarios, ValidScenario(scenario),
         NEW ps, NEW pend, pend \subseteq scenario.processes,
         \A p \in DOMAIN ps :
           /\ ps[p].remaining \in Int
           /\ \E d \in scenario.processes : d.id = p /\ ps[p].remaining <= d.def.total
  PROVE  /\ Work(ps, pend) \subseteq DocumentWork
         /\ IsFiniteSet(Work(ps, pend)) /\ Cardinality(Work(ps, pend)) \in Nat
         /\ Cardinality(Work(ps, pend)) <= TotalWork(scenario)
<1>1. ASSUME NEW p \in DOMAIN ps
      PROVE  {p} \X (1 .. ps[p].remaining) \subseteq DocumentWork
  <2>1. PICK d \in scenario.processes : d.id = p /\ ps[p].remaining <= d.def.total
    OBVIOUS
  <2>2. d.def.total \in Int
    BY DocumentType DEF Submission, ProcessDefinition
  <2>3. 1 .. ps[p].remaining \subseteq 1 .. d.def.total
    BY <2>1, <2>2
  <2>4. {p} \X (1 .. ps[p].remaining) \subseteq {d.id} \X (1 .. d.def.total)
    BY <2>1, <2>3
  <2>5. QED
    BY <2>4 DEF DocumentWork
<1>2. ASSUME NEW d \in pend
      PROVE  {d.id} \X (1 .. d.def.total) \subseteq DocumentWork
  BY DEF DocumentWork
<1>3. Work(ps, pend) \subseteq DocumentWork
  <2>1. ASSUME NEW x \in Work(ps, pend)
        PROVE  x \in DocumentWork
    <3>1. \/ \E p \in DOMAIN ps : x \in {p} \X (1 .. ps[p].remaining)
          \/ \E d \in pend : x \in {d.id} \X (1 .. d.def.total)
      BY <2>1, UnitOfWork
    <3>2. QED
      BY <1>1, <1>2, <3>1, Zenon
  <2>2. QED
    BY <2>1
<1>4. /\ IsFiniteSet(Work(ps, pend))
      /\ Cardinality(Work(ps, pend)) <= Cardinality(DocumentWork)
  BY <1>3, DocumentWorkFinite, FS_Subset
<1>5. QED
  BY <1>3, <1>4, DocumentWorkFinite, FS_CardinalityType

\* A step that does no work leaves the work that is left.
LEMMA SameWork ==
  ASSUME NEW ps, NEW qs, DOMAIN qs = DOMAIN ps,
         \A p \in DOMAIN ps : qs[p].remaining = ps[p].remaining, NEW pend
  PROVE  Work(qs, pend) = Work(ps, pend)
<1>1. {{p} \X (1 .. qs[p].remaining) : p \in DOMAIN qs}
        = {{p} \X (1 .. ps[p].remaining) : p \in DOMAIN ps}
  OBVIOUS
<1>2. QED
  BY <1>1 DEF Work, WorkBegun

\* A submission turns what is pending into what remains.
LEMMA SubmissionWork ==
  ASSUME NEW ps, NEW qs, NEW pend, NEW d \in pend,
         d.id \notin DOMAIN ps, DOMAIN qs = DOMAIN ps \cup {d.id},
         \A p \in DOMAIN ps : qs[p].remaining = ps[p].remaining,
         qs[d.id].remaining = d.def.total
  PROVE  Work(qs, pend \ {d}) = Work(ps, pend)
<1> DEFINE Piece(p) == {p} \X (1 .. ps[p].remaining)
           Later(p) == {p} \X (1 .. qs[p].remaining)
           Block(e) == {e.id} \X (1 .. e.def.total)
<1>1. /\ \A p \in DOMAIN ps : Later(p) = Piece(p)
      /\ Later(d.id) = Block(d)
  OBVIOUS
<1>2. ASSUME NEW x
      PROVE  /\ x \in Work(ps, pend) <=> \/ \E p \in DOMAIN ps : x \in Piece(p)
                                         \/ \E e \in pend : x \in Block(e)
             /\ x \in Work(qs, pend \ {d}) <=>
                  \/ \E p \in DOMAIN qs : x \in Later(p)
                  \/ \E e \in pend \ {d} : x \in Block(e)
  BY UnitOfWork
<1> HIDE DEF Piece, Later, Block
<1>3. ASSUME NEW x
      PROVE  x \in Work(qs, pend \ {d}) <=> x \in Work(ps, pend)
  <2>1. (\E p \in DOMAIN qs : x \in Later(p))
          <=> (\E p \in DOMAIN ps : x \in Piece(p)) \/ x \in Block(d)
    BY <1>1
  <2>2. (\E e \in pend : x \in Block(e))
          <=> (\E e \in pend \ {d} : x \in Block(e)) \/ x \in Block(d)
    OBVIOUS
  <2>3. QED
    BY <1>2, <2>1, <2>2
<1>4. QED
  BY <1>3

\* A tick of work takes one unit.
LEMMA ServiceWork ==
  ASSUME NEW ps, NEW qs, NEW pend, NEW p \in DOMAIN ps, DOMAIN qs = DOMAIN ps,
         \A d \in pend : d.id # p,
         \A q \in DOMAIN ps \ {p} : qs[q].remaining = ps[q].remaining,
         ps[p].remaining \in Nat \ {0}, qs[p].remaining = ps[p].remaining - 1,
         IsFiniteSet(Work(ps, pend))
  PROVE  Cardinality(Work(qs, pend)) = Cardinality(Work(ps, pend)) - 1
<1> DEFINE k == ps[p].remaining
           last == <<p, k>>
           rest == [q \in DOMAIN ps \ {p} |-> ps[q]]
           others == Work(rest, pend)
<1>1. ASSUME NEW x
      PROVE  x \in Work(ps, pend) <=> x \in others \/ x \in {p} \X (1 .. k)
  BY UnitOfWork
<1>2. ASSUME NEW x
      PROVE  x \in Work(qs, pend) <=> x \in others \/ x \in {p} \X (1 .. k - 1)
  BY UnitOfWork
<1>3. last \notin others
  BY UnitOfWork
<1>4. k \in Nat \ {0}
  OBVIOUS
<1> HIDE DEF k, others, rest
<1>5. /\ 1 .. k - 1 = (1 .. k) \ {k} /\ k \in 1 .. k
  BY <1>4
<1>6. {p} \X (1 .. k - 1) = ({p} \X (1 .. k)) \ {last}
  BY <1>5
<1>7. Work(qs, pend) = Work(ps, pend) \ {last}
  <2>1. ASSUME NEW x
        PROVE  x \in Work(qs, pend) <=> x \in Work(ps, pend) /\ x # last
    BY <1>1, <1>2, <1>3, <1>6
  <2>2. QED
    BY <2>1
<1>8. last \in Work(ps, pend)
  <2>1. last \in {p} \X (1 .. k)
    BY <1>5
  <2>2. QED
    BY <1>1, <2>1
<1>9. QED
  BY <1>7, <1>8, FS_RemoveElement

-----------------------------------------------------------------------------
(* The records stay as the document defines them *)

LEMMA DefinitionFound ==
  ASSUME NEW S, UniqueIds(S), NEW d \in S
  PROVE  DefinitionOf(S, d.id) = d
<1>1. d.id \in IdsOf(S)
  BY DEF IdsOf
<1>2. QED
  BY <1>1, DefinitionOfId DEF UniqueIds

\* What a document without failures leaves of the steps of a tick.
LEMMA AmpleStep ==
  ASSUME HeartbeatTimeout = 0, RunnerInv, pc = "loop", Ample(scenario), InsideStep
  PROVE  /\ tick' = tick
         /\ \/ \E d \in pending :
                 /\ phase = "apply" /\ phase' = "apply"
                 /\ CanSubmit(d.id, d.def) /\ SubmitLocked(d.id, d.def)
                 /\ pending' = pending \ {d} /\ nodes' = nodes
            \/ \E p \in ProcIds : Place(p) \/ Defer(p) \/ Execute(p)
            \/ EndApply \/ EndBeat \/ EndPlace \/ EndRun
            \/ EndStep /\ Consistent(nodes, procs)
<1>1. PInv /\ Loaded
  BY DEF RunnerInv, HasRun
<1>2. failures = {}
  BY <1>1 DEF Loaded, Accounted, LoadedFailures, Ample
<1>3. tick' = tick
  BY <1>2, OnlyRejectionsFail
<1>4. \A n : ~ DetectMissedHeartbeat(n)
  BY DEF DetectMissedHeartbeat, Overdue
<1>5. ASSUME NEW d \in pending, ApplySubmission(d)
      PROVE  /\ phase = "apply" /\ phase' = "apply"
             /\ CanSubmit(d.id, d.def) /\ SubmitLocked(d.id, d.def)
             /\ pending' = pending \ {d} /\ nodes' = nodes
  <2>1. CanSubmit(d.id, d.def)
    BY <1>1, PendingIsWelcome DEF RunnerInv, PInv, IInv
  <2>2. QED
    BY <1>5, <2>1 DEF ApplySubmission, stepVars
<1>6. Consistent(nodes, procs)
  BY <1>1, SoundIsConsistent DEF PInv, IInv, TypeOK
<1>7. QED
  BY <1>2, <1>3, <1>4, <1>5, <1>6 DEF InsideStep

LEMMA SubmissionAsDefined ==
  ASSUME RunnerInv, Loaded, AsDefined, scenario' = scenario, nodes' = nodes,
         NEW d \in pending, SubmitLocked(d.id, d.def)
  PROVE  AsDefined'
<1>1. /\ DOMAIN procs' = DOMAIN procs \cup {d.id} /\ d.id \notin DOMAIN procs
      /\ \A p \in DOMAIN procs : procs'[p] = procs[p]
      /\ procs'[d.id] = [NewProcess(d.def, tick) EXCEPT !.state = "READY"]
  BY DEF SubmitLocked, CanSubmit
<1>2. /\ procs'[d.id].request = d.def.request /\ procs'[d.id].total = d.def.total
      /\ procs'[d.id].state = "READY"
  BY <1>1 DEF NewProcess
<1>3. d \in scenario.processes /\ UniqueIds(scenario.processes)
  BY DEF Loaded, Accounted, ValidScenario
<1>4. DefinitionOf(scenario.processes, d.id) = d
  BY <1>3, DefinitionFound
<1>5. QED
  BY <1>1, <1>2, <1>4 DEF AsDefined

\* One process is placed or works.
LEMMA OneAsDefined ==
  ASSUME AsDefined, SameHosts, scenario' = scenario,
         NEW p \in DOMAIN procs, NEW v, procs' = [procs EXCEPT ![p] = v],
         v.request = procs[p].request, v.total = procs[p].total,
         v.state \in {"READY", "RUNNING", "TERMINATED"}
  PROVE  AsDefined'
<1>1. DOMAIN procs' = DOMAIN procs
  OBVIOUS
<1>2. \A q \in DOMAIN procs : procs'[q] = IF q = p THEN v ELSE procs[q]
  OBVIOUS
<1>3. DOMAIN nodes' = DOMAIN nodes
      /\ \A n \in DOMAIN nodes : nodes'[n].status = nodes[n].status
                                 /\ nodes'[n].capacity = nodes[n].capacity
  BY DEF SameHosts
<1>4. QED
  BY <1>1, <1>2, <1>3 DEF AsDefined

LEMMA PlaceAsDefined ==
  ASSUME PInv, AsDefined, scenario' = scenario, NEW p \in ProcIds, Place(p)
  PROVE  AsDefined' /\ procs'[p].remaining = procs[p].remaining
         /\ p \in DOMAIN procs /\ DOMAIN procs' = DOMAIN procs
         /\ \A q \in DOMAIN procs \ {p} : procs'[q] = procs[q]
<1>1. PICK n \in DOMAIN nodes : procs' = [procs EXCEPT ![p] = Started(procs[p], n)]
  BY PlaceOnSucceeds DEF PInv
<1>2. p \in DOMAIN procs /\ procs[p] \in Process
  BY PlaceOnSucceeds DEF PInv, IInv, TypeOK, ProcsOK
<1>3. /\ Started(procs[p], n).request = procs[p].request
      /\ Started(procs[p], n).total = procs[p].total
      /\ Started(procs[p], n).remaining = procs[p].remaining
      /\ Started(procs[p], n).state = "RUNNING"
  BY <1>2 DEF Started, Process
<1>4. SameHosts
  <2>1. phase = "place" /\ phase' = "place"
    BY DEF Place
  <2>2. [Next]_vars
    BY DEF Next, InsideStep
  <2>3. QED
    BY <2>1, <2>2, LateStepsKeepHosts
<1>5. QED
  BY <1>1, <1>2, <1>3, <1>4, OneAsDefined

LEMMA ExecuteAsDefined ==
  ASSUME PInv, AsDefined, scenario' = scenario, NEW p \in ProcIds, Execute(p)
  PROVE  AsDefined' /\ procs'[p].remaining = procs[p].remaining - 1
         /\ procs[p].remaining \in Nat \ {0}
         /\ p \in DOMAIN procs /\ DOMAIN procs' = DOMAIN procs
         /\ \A q \in DOMAIN procs \ {p} : procs'[q] = procs[q]
<1>1. p \in DOMAIN procs /\ procs[p].state = "RUNNING"
  BY ExecuteServes DEF PInv
<1>2. PICK v : Served(procs[p], v) /\ procs' = [procs EXCEPT ![p] = v]
  BY ExecuteServes DEF PInv
<1>3. procs[p] \in Process /\ Timed(procs[p], tick)
  BY <1>1 DEF PInv, IInv, TypeOK, ProcsOK, Lived, RecordRight
<1>4. procs[p].remaining \in Nat \ {0}
  BY <1>1, <1>3 DEF Timed, Process
<1>5. /\ v.request = procs[p].request /\ v.total = procs[p].total
      /\ v.remaining = procs[p].remaining - 1
      /\ v.state \in {"RUNNING", "TERMINATED"}
  BY <1>1, <1>2, <1>3 DEF Served, Worked, Unplaced, Process
<1>6. SameHosts
  <2>1. phase = "run" /\ phase' = "run"
    BY DEF Execute
  <2>2. [Next]_vars
    BY DEF Next, InsideStep
  <2>3. QED
    BY <2>1, <2>2, LateStepsKeepHosts
<1>7. AsDefined'
  BY <1>1, <1>2, <1>5, <1>6, OneAsDefined
<1>8. QED
  BY <1>1, <1>2, <1>4, <1>5, <1>7

LEMMA StepAsDefined ==
  ASSUME HeartbeatTimeout = 0, RunnerInv, pc = "loop", Ample(scenario), InsideStep,
         AsDefined, scenario' = scenario
  PROVE  AsDefined'
<1>1. PInv /\ Loaded
  BY DEF RunnerInv, HasRun
<1>2. CASE nodes' = nodes /\ procs' = procs
  BY <1>2 DEF AsDefined
<1>3. (EndApply \/ EndBeat \/ EndPlace \/ EndRun) => nodes' = nodes /\ procs' = procs
  BY DEF EndApply, EndBeat, EndPlace, EndRun, clusterVars
<1>4. (EndStep /\ Consistent(nodes, procs)) => nodes' = nodes /\ procs' = procs
  BY DEF EndStep
<1>5. ASSUME NEW p \in ProcIds, Place(p) \/ Defer(p) \/ Execute(p)
      PROVE  AsDefined'
  <2>1. Defer(p) => nodes' = nodes /\ procs' = procs
    BY DEF Defer, clusterVars
  <2>2. QED
    BY <1>1, <1>2, <1>5, <2>1, PlaceAsDefined, ExecuteAsDefined
<1>6. QED
  BY <1>1, <1>2, <1>3, <1>4, <1>5, AmpleStep, SubmissionAsDefined

-----------------------------------------------------------------------------
(* Something runs in every tick *)

LEMMA WorkLeftIsBounded ==
  ASSUME RunnerInv, Loaded, AsDefined
  PROVE  /\ IsFiniteSet(WorkLeft) /\ Cardinality(WorkLeft) \in Nat
         /\ Cardinality(WorkLeft) <= TotalWork(scenario)
         /\ TotalWork(scenario) \in Nat
<1>1. /\ PInv /\ scenario \in Scenarios /\ ValidScenario(scenario)
      /\ pending \subseteq scenario.processes
      /\ DOMAIN procs = IdsOf(scenario.processes \ pending)
  BY DEF RunnerInv, Loaded, Accounted
<1>2. ASSUME NEW p \in DOMAIN procs
      PROVE  /\ procs[p].remaining \in Int
             /\ \E d \in scenario.processes : d.id = p /\ procs[p].remaining <= d.def.total
  <2>1. procs[p] \in Process /\ Timed(procs[p], tick)
    BY <1>1 DEF PInv, IInv, TypeOK, ProcsOK, Lived, RecordRight
  <2>2. p \in IdsOf(scenario.processes)
    BY <1>1 DEF IdsOf
  <2>3. /\ DefinitionOf(scenario.processes, p) \in scenario.processes
        /\ DefinitionOf(scenario.processes, p).id = p
        /\ DefinitionOf(scenario.processes, p).def.total = procs[p].total
    BY <2>2, DefinitionOfId DEF AsDefined
  <2>4. procs[p].remaining \in Int /\ procs[p].remaining <= procs[p].total
    BY <2>1 DEF Timed, Process
  <2>5. QED
    BY <2>3, <2>4
<1>3. QED
  BY <1>1, <1>2, WorkIsBounded, DocumentWorkFinite DEF WorkLeft

\* No work is left exactly when everything has terminated.
LEMMA NoWorkLeft ==
  ASSUME RunnerInv, Loaded, AsDefined, Ample(scenario)
  PROVE  WorkLeft = {} <=> AllTerminal
<1>1. /\ PInv /\ scenario \in Scenarios /\ scenario.processes # {}
      /\ pending \subseteq scenario.processes
      /\ DOMAIN procs = IdsOf(scenario.processes \ pending)
  BY DEF RunnerInv, Loaded, Accounted, Ample
<1>2. \A d \in pending : d.def.total \in Int /\ d.def.total > 0
  BY <1>1, DocumentType DEF Submission, ProcessDefinition, Loaded, ValidScenario,
                            ValidDefinition
<1>3. ASSUME NEW p \in DOMAIN procs
      PROVE  /\ procs[p].remaining \in Nat
             /\ procs[p].remaining = 0 <=> procs[p].state \in Terminal
  <2>1. procs[p] \in Process /\ Timed(procs[p], tick)
    BY <1>1 DEF PInv, IInv, TypeOK, ProcsOK, Lived, RecordRight
  <2>2. procs[p].state \in {"READY", "RUNNING", "TERMINATED"}
    BY DEF AsDefined
  <2>3. QED
    BY <2>1, <2>2 DEF Timed, Process, Terminal
<1>4. WorkLeft = {} => AllTerminal
  <2>1. SUFFICES ASSUME \A x : x \notin WorkLeft
                 PROVE  AllTerminal
    OBVIOUS
  <2>2. pending = {}
    <3>1. ASSUME NEW d \in pending
          PROVE  FALSE
      <4>1. <<d.id, 1>> \in {d.id} \X (1 .. d.def.total)
        BY <1>2
      <4>2. <<d.id, 1>> \in WorkLeft
        BY <4>1, UnitOfWork DEF WorkLeft
      <4>3. QED
        BY <2>1, <4>2
    <3>2. QED
      BY <3>1
  <2>3. ASSUME NEW p \in DOMAIN procs, procs[p].state \notin Terminal
        PROVE  FALSE
    <3>1. <<p, 1>> \in {p} \X (1 .. procs[p].remaining)
      BY <1>3, <2>3
    <3>2. <<p, 1>> \in WorkLeft
      BY <3>1, UnitOfWork DEF WorkLeft
    <3>3. QED
      BY <2>1, <3>2
  <2>4. DOMAIN procs # {}
    BY <1>1, <2>2 DEF IdsOf
  <2>5. QED
    BY <2>2, <2>3, <2>4 DEF AllTerminal
<1>5. AllTerminal => WorkLeft = {}
  <2>1. SUFFICES ASSUME AllTerminal, NEW x \in WorkLeft
                 PROVE  FALSE
    OBVIOUS
  <2>2. PICK p \in DOMAIN procs : x \in {p} \X (1 .. procs[p].remaining)
    BY <2>1, UnitOfWork DEF WorkLeft, AllTerminal
  <2>3. procs[p].remaining = 0
    BY <1>3, <2>1 DEF AllTerminal
  <2>4. QED
    BY <2>2, <2>3
<1>6. QED
  BY <1>4, <1>5

\* While nothing runs every node is empty, and each process fits one of them.
LEMMA NobodyIsStuck ==
  ASSUME RunnerInv, Loaded, AsDefined, Ample(scenario),
         pending = {}, InState("RUNNING") = {},
         \A p \in InState("READY"), n \in DOMAIN nodes : ~ Fits(nodes[n], procs[p])
  PROVE  AllTerminal
<1>1. /\ PInv /\ scenario \in Scenarios /\ scenario.processes # {}
      /\ DOMAIN procs = IdsOf(scenario.processes)
      /\ UniqueIds(scenario.nodes) /\ DOMAIN nodes = IdsOf(scenario.nodes)
  BY DEF RunnerInv, Loaded, Accounted, Ample, AsDefined, ValidScenario
<1>2. DOMAIN procs # {}
  <2>1. PICK d \in scenario.processes : TRUE
    BY <1>1
  <2>2. d.id \in DOMAIN procs
    BY <1>1, <2>1 DEF IdsOf
  <2>3. QED
    BY <2>2
<1>3. ASSUME NEW p \in DOMAIN procs, procs[p].state \notin Terminal
      PROVE  FALSE
  <2>1. p \in InState("READY")
    BY <1>3 DEF AsDefined, InState, Terminal
  <2> DEFINE d == DefinitionOf(scenario.processes, p)
  <2>2. d \in scenario.processes /\ procs[p].request = d.def.request
    BY <1>1, DefinitionOfId DEF AsDefined
  <2>3. PICK m \in scenario.nodes : \A r \in Resources : d.def.request[r] <= m.capacity[r]
    BY <2>2 DEF Ample
  <2>4. m.id \in DOMAIN nodes /\ nodes[m.id].capacity = m.capacity
        /\ nodes[m.id].status = "ONLINE"
    BY <1>1, DefinitionFound DEF AsDefined, IdsOf
  <2> HIDE DEF d
  <2>5. nodes[m.id].running = {}
    BY <1>1, <2>4 DEF PInv, IInv, Sound, HostingIn, ListsOnlyItsOwn, InState
  <2>6. ASSUME NEW r \in Resources
        PROVE  nodes[m.id].allocated[r] = 0
    <3>1. nodes[m.id].allocated[r] = Demand(procs, nodes[m.id].running, r)
      BY <1>1, <2>4 DEF PInv, IInv, Sound, LedgerIn, CountersMatch
    <3>2. Demand(procs, {}, r) = 0
      BY DemandOfNobody
    <3>3. QED
      BY <2>5, <3>1, <3>2
  <2>7. ASSUME NEW r \in Resources
        PROVE  nodes[m.id].capacity[r] - nodes[m.id].allocated[r] >= procs[p].request[r]
    <3>1. procs[p].request[r] \in Int /\ nodes[m.id].capacity[r] \in Int
      BY <1>1, <2>4 DEF PInv, IInv, TypeOK, ProcsOK, NodesOK, Process, Node
    <3>2. procs[p].request[r] <= nodes[m.id].capacity[r]
      BY <2>2, <2>3, <2>4
    <3>3. QED
      BY <2>6, <3>1, <3>2
  <2>8. Fits(nodes[m.id], procs[p])
    BY <2>4, <2>7 DEF Fits
  <2>9. QED
    BY <2>1, <2>4, <2>8
<1>4. QED
  BY <1>2, <1>3 DEF AllTerminal

-----------------------------------------------------------------------------
(* Every tick does a unit of work *)

\* What of the work is left and of the time is gone decides.
LEMMA SameSchedule ==
  ASSUME scenario' = scenario, WorkLeft' = WorkLeft, tick' = tick
  PROVE  /\ OnSchedule(tick) => OnSchedule(tick)'
         /\ OnSchedule(tick - 1) => OnSchedule(tick - 1)'
BY DEF OnSchedule

\* What is pending is yet to begin.
LEMMA PendingIsOnSchedule ==
  ASSUME RunnerInv, Loaded, AsDefined, phase # "apply", NEW d \in pending
  PROVE  OnSchedule(tick)
<1>1. d \in scenario.processes /\ d.at > tick /\ tick \in Nat /\ d.at \in Int
  BY DocumentType DEF RunnerInv, PInv, IInv, TypeOK, Loaded, Accounted, StillToCome, Settled,
                      Submission
<1>2. SubmitTick(d) = d.at
  BY <1>1 DEF SubmitTick
<1>3. /\ Cardinality(WorkLeft) \in Nat /\ TotalWork(scenario) \in Nat
      /\ Cardinality(WorkLeft) <= TotalWork(scenario)
  BY WorkLeftIsBounded
<1>4. Cardinality(WorkLeft) + tick <= SubmitTick(d) + TotalWork(scenario)
  BY <1>1, <1>2, <1>3
<1>5. QED
  BY <1>1, <1>4 DEF OnSchedule

\* The tick that does a unit is on schedule if the one before it was.
LEMMA WorkKeepsPace ==
  ASSUME RunnerInv, Loaded, AsDefined, OnSchedule(tick - 1),
         scenario' = scenario, tick' = tick,
         Cardinality(WorkLeft') = Cardinality(WorkLeft) - 1
  PROVE  OnSchedule(tick)'
<1>1. PICK d \in scenario.processes :
        Cardinality(WorkLeft) + (tick - 1) <= SubmitTick(d) + TotalWork(scenario)
  BY DEF OnSchedule
<1>2. tick \in Nat /\ Cardinality(WorkLeft) \in Nat
  BY WorkLeftIsBounded DEF RunnerInv, PInv, IInv, TypeOK
<1> DEFINE w == Cardinality(WorkLeft)
           most == SubmitTick(d) + TotalWork(scenario)
<1>3. (w - 1) + tick = w + (tick - 1)
  BY <1>2
<1>4. Cardinality(WorkLeft') + tick' = w + (tick - 1)
  BY <1>3
<1>5. Cardinality(WorkLeft') + tick' <= SubmitTick(d) + TotalWork(scenario')
  BY <1>1, <1>4
<1>6. QED
  BY <1>5 DEF OnSchedule

LEMMA SteadyUnchanged ==
  ASSUME Steady, scenario' = scenario, WorkLeft' = WorkLeft, tick' = tick,
         \/ phase \in {"apply", "beat", "place"} /\ phase' \in {"apply", "beat", "place"}
         \/ phase \in {"run", "close"} /\ todo = {} /\ phase' \in {"close", "idle"}
  PROVE  Steady'
BY SameSchedule DEF Steady

\* Placement is over: something runs, is pending, or no work is left.
LEMMA EndPlaceSteady ==
  ASSUME RunnerInv, Loaded, AsDefined, Steady, Ample(scenario),
         EndPlace, scenario' = scenario
  PROVE  Steady'
<1>1. /\ phase = "place" /\ todo = {} /\ phase' = "run" /\ todo' = InState("RUNNING")
      /\ WorkLeft' = WorkLeft /\ tick' = tick
  BY DEF EndPlace, clusterVars, scheduleVars, WorkLeft
<1>2. CASE WorkLeft = {}
  BY <1>1, <1>2 DEF Steady
<1>3. CASE pending # {}
  BY <1>1, <1>3, PendingIsOnSchedule, SameSchedule DEF Steady
<1>4. CASE pending = {} /\ InState("RUNNING") = {} /\ WorkLeft # {}
  <2>1. \A p \in InState("READY"), n \in DOMAIN nodes : ~ Fits(nodes[n], procs[p])
    BY <1>1 DEF RunnerInv, PInv, WorkConserving
  <2>2. QED
    BY <1>4, <2>1, NobodyIsStuck, NoWorkLeft
<1>5. CASE InState("RUNNING") # {} /\ WorkLeft # {}
  <2>1. OnSchedule(tick - 1)
    BY <1>1, <1>5 DEF Steady
  <2>2. QED
    BY <1>1, <1>5, <2>1, SameSchedule DEF Steady
<1>6. QED
  BY <1>2, <1>3, <1>4, <1>5

LEMMA ExecuteSteady ==
  ASSUME RunnerInv, Loaded, AsDefined, Steady, NEW p \in ProcIds, Execute(p),
         scenario' = scenario
  PROVE  Steady'
<1>1. /\ phase = "run" /\ phase' = "run" /\ p \in todo
      /\ tick' = tick /\ pending' = pending
  BY DEF Execute, scheduleVars
<1>2. /\ procs'[p].remaining = procs[p].remaining - 1
      /\ procs[p].remaining \in Nat \ {0}
      /\ p \in DOMAIN procs /\ DOMAIN procs' = DOMAIN procs
      /\ \A q \in DOMAIN procs \ {p} : procs'[q] = procs[q]
  BY ExecuteAsDefined DEF RunnerInv
<1>3. \A d \in pending : d.id # p
  <2>1. /\ UniqueIds(scenario.processes) /\ pending \subseteq scenario.processes
        /\ DOMAIN procs = IdsOf(scenario.processes \ pending)
    BY DEF Loaded, Accounted, ValidScenario
  <2>2. QED
    BY <1>2, <2>1 DEF IdsOf, UniqueIds
<1>4. Cardinality(Work(procs', pending)) = Cardinality(Work(procs, pending)) - 1
  <2>1. IsFiniteSet(Work(procs, pending))
    BY WorkLeftIsBounded DEF WorkLeft
  <2> DEFINE qs == procs'
  <2>2. /\ qs[p].remaining = procs[p].remaining - 1 /\ DOMAIN qs = DOMAIN procs
        /\ \A q \in DOMAIN procs \ {p} : qs[q].remaining = procs[q].remaining
    BY <1>2
  <2> HIDE DEF qs
  <2>3. Cardinality(Work(qs, pending)) = Cardinality(Work(procs, pending)) - 1
    BY <1>2, <1>3, <2>1, <2>2, ServiceWork
  <2>4. QED
    BY <2>3 DEF qs
<1>5. Cardinality(WorkLeft') = Cardinality(WorkLeft) - 1
  BY <1>1, <1>4 DEF WorkLeft
<1>6. WorkLeft # {}
  <2>1. <<p, 1>> \in {p} \X (1 .. procs[p].remaining)
    BY <1>2
  <2>2. <<p, 1>> \in WorkLeft
    BY <1>2, <2>1, UnitOfWork DEF WorkLeft
  <2>3. QED
    BY <2>2
<1>7. OnSchedule(tick - 1) => OnSchedule(tick)'
  BY <1>1, <1>5, WorkKeepsPace
<1>8. OnSchedule(tick) => OnSchedule(tick - 1)
  <2>1. /\ tick \in Nat /\ Cardinality(WorkLeft) \in Nat /\ TotalWork(scenario) \in Nat
        /\ \A d \in scenario.processes : SubmitTick(d) \in Nat
    BY WorkLeftIsBounded, DocumentType
    DEF RunnerInv, PInv, IInv, TypeOK, Submission, SubmitTick
  <2>2. QED
    BY <2>1 DEF OnSchedule
<1>9. OnSchedule(tick)'
  BY <1>1, <1>6, <1>7, <1>8 DEF Steady
<1>10. QED
  BY <1>1, <1>9 DEF Steady

LEMMA StepSteady ==
  ASSUME HeartbeatTimeout = 0, RunnerInv, pc = "loop", Ample(scenario), InsideStep,
         AsDefined, Steady, scenario' = scenario
  PROVE  Steady'
<1>1. PInv /\ Loaded /\ todo \subseteq (IF phase \in {"place", "run"} THEN DOMAIN procs ELSE {})
  BY DEF RunnerInv, HasRun, PInv, IInv, TypeOK
<1>2. tick' = tick
  BY AmpleStep
<1>3. ASSUME NEW d \in pending, phase = "apply", phase' = "apply",
             CanSubmit(d.id, d.def), SubmitLocked(d.id, d.def), pending' = pending \ {d}
      PROVE  Steady'
  <2> DEFINE qs == procs'
  <2>1. /\ DOMAIN qs = DOMAIN procs \cup {d.id} /\ d.id \notin DOMAIN procs
        /\ \A p \in DOMAIN procs : qs[p].remaining = procs[p].remaining
    BY <1>3 DEF SubmitLocked, CanSubmit
  <2>2. qs[d.id].remaining = d.def.total
    BY <1>3 DEF SubmitLocked, NewProcess
  <2> HIDE DEF qs
  <2>3. Work(qs, pending \ {d}) = Work(procs, pending)
    BY ONLY d \in pending, <2>1, <2>2, SubmissionWork
  <2>4. WorkLeft' = WorkLeft
    BY <1>3, <2>3 DEF WorkLeft, qs
  <2>5. QED
    BY <1>2, <1>3, <2>4, SteadyUnchanged
<1>4. ASSUME NEW p \in ProcIds, Place(p)
      PROVE  Steady'
  <2>1. phase = "place" /\ phase' = "place" /\ pending' = pending
    BY <1>4 DEF Place, scheduleVars
  <2> DEFINE qs == procs'
  <2>2. DOMAIN qs = DOMAIN procs
        /\ \A q \in DOMAIN procs : qs[q].remaining = procs[q].remaining
    BY <1>1, <1>4, PlaceAsDefined
  <2> HIDE DEF qs
  <2>3. Work(qs, pending) = Work(procs, pending)
    BY <2>2, SameWork
  <2>4. WorkLeft' = WorkLeft
    BY <2>1, <2>3 DEF WorkLeft, qs
  <2>5. QED
    BY <1>2, <2>1, <2>4, SteadyUnchanged
<1>5. ASSUME NEW p \in ProcIds, Defer(p)
      PROVE  Steady'
  <2>1. phase = "place" /\ phase' = "place" /\ WorkLeft' = WorkLeft
    BY <1>5 DEF Defer, scheduleVars, clusterVars, WorkLeft
  <2>2. QED
    BY <1>2, <2>1, SteadyUnchanged
<1>6. CASE EndApply \/ EndBeat
  <2>1. /\ phase \in {"apply", "beat"} /\ phase' \in {"beat", "place"}
        /\ WorkLeft' = WorkLeft
    BY <1>6 DEF EndApply, EndBeat, scheduleVars, clusterVars, WorkLeft
  <2>2. QED
    BY <1>2, <2>1, SteadyUnchanged
<1>7. CASE EndRun
  <2>1. phase = "run" /\ phase' = "close" /\ todo = {} /\ WorkLeft' = WorkLeft
    BY <1>7 DEF EndRun, scheduleVars, clusterVars, WorkLeft
  <2>2. QED
    BY <1>2, <2>1, SteadyUnchanged
<1>8. CASE EndStep /\ Consistent(nodes, procs)
  <2>1. phase = "close" /\ phase' = "idle" /\ todo = {} /\ WorkLeft' = WorkLeft
    BY <1>1, <1>8 DEF EndStep, scheduleVars, WorkLeft
  <2>2. QED
    BY <1>2, <2>1, SteadyUnchanged
<1>9. QED
  BY <1>1, <1>3, <1>4, <1>5, <1>6, <1>7, <1>8, AmpleStep, EndPlaceSteady, ExecuteSteady

\* A tick that ends the run ends it because everything is over.
LEMMA FinishedMeansOver ==
  ASSUME RunnerInv, Loaded, AsDefined, Steady, Ample(scenario), phase = "close",
         FinishReason # ""
  PROVE  FinishReason = "ALL_TERMINAL"
<1>1. OutOfTicks \/ (DOMAIN procs # {} /\ ~ CanProgress)
  BY WhenFinished DEF RunnerInv, PInv, IInv
<1>2. ASSUME OutOfTicks, OnSchedule(tick)
      PROVE  WorkLeft = {}
  <2>1. PICK d \in scenario.processes :
          Cardinality(WorkLeft) + tick <= SubmitTick(d) + TotalWork(scenario)
    BY <1>2 DEF OnSchedule
  <2>2. scenario.maxTicks >= SubmitTick(d) + TotalWork(scenario)
    BY <2>1 DEF Ample
  <2>3. tick >= scenario.maxTicks
    BY <1>2 DEF OutOfTicks, Loaded
  <2>4. /\ tick \in Nat /\ scenario.maxTicks \in Int /\ d.at \in Int
        /\ TotalWork(scenario) \in Nat
        /\ IsFiniteSet(WorkLeft) /\ Cardinality(WorkLeft) \in Nat
    BY DocumentType, WorkLeftIsBounded DEF RunnerInv, PInv, IInv, TypeOK, Submission
  <2>5. SubmitTick(d) \in Nat
    BY ONLY <2>4 DEF SubmitTick
  <2>6. Cardinality(WorkLeft) = 0
    BY ONLY <2>1, <2>2, <2>3, <2>4, <2>5
  <2>7. QED
    BY <2>4, <2>6, FS_EmptySet
<1>3. CASE OutOfTicks
  BY <1>2, <1>3, NoWorkLeft DEF Steady, FinishReason
<1>4. CASE ~ CanProgress
  BY <1>4, NobodyIsStuck DEF CanProgress, FinishReason
<1>5. QED
  BY <1>1, <1>3, <1>4

LEMMA StepFinishes ==
  ASSUME HeartbeatTimeout = 0, RunnerInv, pc = "loop", Ample(scenario), InsideStep,
         AsDefined, Steady, status' = "COMPLETED"
  PROVE  reason' = "ALL_TERMINAL"
<1>1. PInv /\ Loaded
  BY DEF RunnerInv, HasRun
<1>2. phase # "idle" /\ status = "RUNNING"
  <2>1. phase # "idle"
    BY DEF InsideStep, ApplySubmission, ApplyFailure, RejectFailure,
         DetectMissedHeartbeat, Place, Defer, Execute, EndApply, EndBeat, EndPlace,
         EndRun, EndStep
  <2>2. QED
    BY <1>1, <2>1 DEF PInv, StatusRight
<1>3. ASSUME NEW d \in pending, SubmitLocked(d.id, d.def)
      PROVE  status' = "RUNNING"
  BY <1>2, <1>3 DEF SubmitLocked
<1>4. ASSUME NEW p \in ProcIds, Place(p) \/ Defer(p) \/ Execute(p)
      PROVE  status' = "RUNNING"
  BY <1>2, <1>4 DEF Place, Defer, Execute, clusterVars
<1>5. CASE EndApply \/ EndBeat \/ EndPlace \/ EndRun
  BY <1>2, <1>5 DEF EndApply, EndBeat, EndPlace, EndRun, clusterVars
<1>6. CASE EndStep /\ Consistent(nodes, procs)
  <2>1. phase = "close" /\ FinishReason # "" /\ reason' = FinishReason
    BY <1>2, <1>6 DEF EndStep
  <2>2. QED
    BY <1>1, <2>1, FinishedMeansOver
<1>7. QED
  BY <1>3, <1>4, <1>5, <1>6, AmpleStep

-----------------------------------------------------------------------------
(* The ample budget is enough *)

LEMMA NoFailures ==
  ASSUME Loaded, Ample(scenario)
  PROVE  failures = {}
BY DEF Loaded, Accounted, LoadedFailures, Ample

LEMMA LoadAmple ==
  ASSUME RunnerInv, Load, Ample(scenario)
  PROVE  AsDefined' /\ Steady' /\ failures' = {} /\ status' = "IDLE"
<1>1. /\ scenario' = scenario /\ scenario \in Scenarios /\ LoadScenario(scenario)
      /\ ValidScenario(scenario)
  BY DEF Load, LoadScenario, RunnerInv
<1>2. /\ nodes' = LoadedNodes(scenario) /\ procs' = LoadedProcesses(scenario)
      /\ pending' = LoadedPending(scenario) /\ failures' = LoadedFailures(scenario)
      /\ tick' = 0 /\ phase' = "idle" /\ status' = "IDLE"
  BY <1>1 DEF LoadScenario, Free, stepVars
<1>3. failures' = {}
  BY <1>2 DEF LoadedFailures, Ample
<1> DEFINE def(p) == DefinitionOf(scenario.processes, p).def
<1>4. ASSUME NEW p \in DOMAIN procs'
      PROVE  /\ procs'[p].request = def(p).request /\ procs'[p].total = def(p).total
             /\ procs'[p].state = "READY" /\ procs'[p].remaining = def(p).total
  BY <1>2, <1>4 DEF LoadedProcesses, NewProcess
<1>5. AsDefined'
  <2>1. DOMAIN nodes' = IdsOf(scenario.nodes)
        /\ \A n \in DOMAIN nodes' :
             /\ nodes'[n].status = "ONLINE"
             /\ nodes'[n].capacity = DefinitionOf(scenario.nodes, n).capacity
    BY <1>2 DEF LoadedNodes, NewNode
  <2>2. QED
    BY <1>1, <1>4, <2>1 DEF AsDefined
<1>6. ASSUME NEW p \in DOMAIN procs'
      PROVE  /\ procs'[p].remaining \in Int
             /\ \E d \in scenario.processes :
                  d.id = p /\ procs'[p].remaining <= d.def.total
  <2>1. p \in IdsOf(scenario.processes)
    BY <1>2, <1>6 DEF LoadedProcesses, PresentAtStart, IdsOf
  <2>2. /\ DefinitionOf(scenario.processes, p) \in scenario.processes
        /\ DefinitionOf(scenario.processes, p).id = p
    BY <2>1, DefinitionOfId
  <2>3. def(p).total \in Int
    BY <1>1, <2>2, DocumentType DEF Submission, ProcessDefinition
  <2>4. QED
    BY <1>4, <1>6, <2>2, <2>3
<1>7. /\ Cardinality(Work(procs', pending')) \in Nat
      /\ Cardinality(Work(procs', pending')) <= TotalWork(scenario)
  <2> DEFINE qs == procs'
             later == pending'
  <2>1. /\ later \subseteq scenario.processes
        /\ \A p \in DOMAIN qs :
             /\ qs[p].remaining \in Int
             /\ \E d \in scenario.processes : d.id = p /\ qs[p].remaining <= d.def.total
    BY <1>2, <1>6 DEF LoadedPending
  <2> HIDE DEF qs, later
  <2>2. /\ Cardinality(Work(qs, later)) \in Nat
        /\ Cardinality(Work(qs, later)) <= TotalWork(scenario)
    BY <1>1, <2>1, WorkIsBounded
  <2>3. QED
    BY <2>2 DEF qs, later
<1>8. Steady'
  <2>1. PICK d \in scenario.processes : TRUE
    BY DEF Ample
  <2>2. SubmitTick(d) \in Nat /\ TotalWork(scenario) \in Nat
    BY <1>1, DocumentType, DocumentWorkFinite DEF Submission, SubmitTick
  <2>3. Cardinality(WorkLeft') + tick' <= SubmitTick(d) + TotalWork(scenario)
    <3> PICK w \in Nat : w = Cardinality(WorkLeft')
      BY <1>7 DEF WorkLeft
    <3>1. w <= TotalWork(scenario)
      BY <1>7 DEF WorkLeft
    <3>2. w + 0 <= SubmitTick(d) + TotalWork(scenario)
      BY <2>2, <3>1
    <3>3. QED
      BY <1>2, <3>2, Zenon
  <2>4. OnSchedule(tick)'
    BY <1>1, <2>3 DEF OnSchedule
  <2>5. QED
    BY <1>2, <2>4 DEF Steady
<1>9. QED
  BY <1>2, <1>3, <1>5, <1>8

LEMMA CallAmple ==
  ASSUME RunnerInv, CallStep, AsDefined, Steady
  PROVE  AsDefined' /\ Steady' /\ failures' = failures /\ status' = "RUNNING"
<1>1. /\ scenario' = scenario /\ nodes' = nodes /\ procs' = procs
      /\ pending' = pending /\ failures' = failures /\ tick' = tick + 1
      /\ phase = "idle" /\ phase' = "apply" /\ status' = "RUNNING"
  BY DEF CallStep, BeginStep, scheduleVars
<1>2. AsDefined'
  BY <1>1 DEF AsDefined
<1>3. WorkLeft' = WorkLeft
  BY <1>1 DEF WorkLeft
<1>4. tick' - 1 = tick
  BY <1>1 DEF RunnerInv, PInv, IInv, TypeOK
<1>5. OnSchedule(tick) => OnSchedule(tick - 1)'
  BY <1>1, <1>3, <1>4 DEF OnSchedule
<1>6. QED
  BY <1>1, <1>2, <1>3, <1>5 DEF Steady

LEMMA NextAmpleInv ==
  ASSUME HeartbeatTimeout = 0, RunnerInv, RunnerInv', AmpleInv,
         [RunnerNext]_<<vars, runnerVars>>
  PROVE  AmpleInv'
<1>1. scenario' = scenario
  BY DEF RunnerNext, Load, Refuse, CallStep, StepRuns, LeaveLoop, runnerVars
<1> SUFFICES ASSUME Ample(scenario), pc' # "start"
             PROVE  /\ AsDefined' /\ Steady' /\ failures' = {}
                    /\ status' = "COMPLETED" => reason' = "ALL_TERMINAL"
  BY <1>1 DEF AmpleInv
<1>2. CASE Load
  BY <1>2, LoadAmple
<1>3. CASE Refuse
  BY <1>3 DEF Refuse, Ample
<1>4. CASE CallStep
  <2>1. AsDefined /\ Steady /\ failures = {}
    BY <1>4 DEF CallStep, AmpleInv
  <2>2. QED
    BY <1>4, <2>1, CallAmple
<1>5. CASE StepRuns
  <2>1. pc = "loop" /\ InsideStep
    BY <1>5 DEF StepRuns
  <2>2. AsDefined /\ Steady
    BY <2>1 DEF AmpleInv
  <2>3. AsDefined' /\ Steady'
    BY <1>1, <2>1, <2>2, StepAsDefined, StepSteady
  <2>4. tick' = tick
    BY <2>1, AmpleStep
  <2>5. ~ (tick' < tick)
    BY <2>4 DEF RunnerInv, PInv, IInv, TypeOK
  <2>6. pc' = "loop"
    BY <1>5, <2>1, <2>5 DEF StepRuns
  <2>7. Loaded'
    BY <2>6 DEF RunnerInv, HasRun
  <2>8. failures' = {}
    BY <1>1, <2>7 DEF Loaded, Accounted, LoadedFailures, Ample
  <2>9. QED
    BY <2>1, <2>2, <2>3, <2>8, StepFinishes
<1>6. CASE LeaveLoop \/ UNCHANGED <<vars, runnerVars>>
  <2>1. UNCHANGED vars /\ pc # "start"
    BY <1>6 DEF LeaveLoop, RunnerInv, BudgetEndsTheRun, runnerVars
  <2>2. /\ nodes' = nodes /\ procs' = procs /\ tick' = tick /\ pending' = pending
        /\ failures' = failures /\ status' = status /\ reason' = reason
        /\ phase' = phase /\ todo' = todo
    BY <2>1 DEF vars, clusterVars, scheduleVars, stepVars
  <2>3. AsDefined /\ Steady /\ failures = {}
        /\ (status = "COMPLETED" => reason = "ALL_TERMINAL")
    BY <2>1 DEF AmpleInv
  <2>4. AsDefined'
    BY <1>1, <2>2, <2>3 DEF AsDefined
  <2>5. WorkLeft' = WorkLeft
    BY <2>2 DEF WorkLeft
  <2>6. Steady'
    BY <1>1, <2>2, <2>3, <2>5, SameSchedule DEF Steady
  <2>7. QED
    BY <2>2, <2>3, <2>4, <2>6
<1>7. QED
  BY <1>2, <1>3, <1>4, <1>5, <1>6 DEF RunnerNext

\* With the budget of all work in sequence everything a document submits
\* terminates, under each of the three algorithms and for every document.  The
\* simulator creates its controller without a heartbeat timeout
\* (cmd/simulator/main.go:43): the nodes of a scenario send none.
THEOREM NobodyIsStarved ==
  ASSUME HeartbeatTimeout = 0
  PROVE  RunnerSpec => []NobodyStarves
<1>1. RunnerInit => AmpleInv
  BY DEF RunnerInit, AmpleInv
<1>2. RunnerInv /\ RunnerInv' /\ AmpleInv /\ [RunnerNext]_<<vars, runnerVars>> => AmpleInv'
  BY NextAmpleInv
<1>3. RunnerInv /\ AmpleInv => NobodyStarves
  <2> SUFFICES ASSUME RunnerInv, AmpleInv, pc = "done", Ample(scenario)
               PROVE  /\ outcome = "ok" /\ reason = "ALL_TERMINAL"
                      /\ \A p \in DOMAIN procs : procs[p].state = "TERMINATED"
    BY DEF NobodyStarves
  <2>1. AsDefined /\ failures = {} /\ (status = "COMPLETED" => reason = "ALL_TERMINAL")
    BY DEF AmpleInv
  <2>2. Returned("ok")
    BY <2>1 DEF RunnerInv, Returned, Ample
  <2>3. reason = "ALL_TERMINAL" /\ AllTerminal
    BY <2>1, <2>2 DEF RunnerInv
  <2>4. QED
    BY <2>1, <2>2, <2>3 DEF Returned, AllTerminal, AsDefined, Terminal
<1>4. QED
  BY <1>1, <1>2, <1>3, RunnerInvariant, PTL DEF RunnerSpec
=============================================================================
