--------------------------------- MODULE Engine ---------------------------------
(***************************************************************************)
(* engine.Engine: the goroutine that ticks the simulation in real time,    *)
(* and the calls that start it, stop it, or step the simulation by         *)
(* themselves.  A client is a goroutine that serves a request; it holds    *)
(* controlMu from Lock to Return.  Engine.mu guards two assignments or two *)
(* reads at a time and nothing that waits, so each of its sections is one  *)
(* action.  A call of the controller is one action as well (Simulation).   *)
(*                                                                         *)
(* A loop is one run of the goroutine.  Its context is cancelled when it   *)
(* is in cancelled; its channel done is closed when it is gone.            *)
(*                                                                         *)
(*   made      Start has set cancel and done, the goroutine does not exist *)
(*   select    waits for the ticker or the context                         *)
(*   stepped   Step returned nil; the status has still to be read          *)
(*   leaving   returns; the deferred function has still to run             *)
(*   closing   cancel is cleared, done is still open                       *)
(***************************************************************************)
EXTENDS Simulation, Integers

CONSTANTS
  Clients,    \* the goroutines that serve requests
  Loops,      \* bound: names for the loops that exist at one time
  NoClient,   \* controlMu is free
  NoLoop,     \* Engine.cancel and Engine.done are nil
  MaxSteps    \* bound: ticks asked for in one call of RunSteps

ASSUME EngineAssumption ==
  /\ NoClient \notin Clients /\ NoLoop \notin Loops
  /\ MaxSteps \in Nat \ {0}

VARIABLES
  controlMu,  \* who holds Engine.controlMu
  current,    \* the loop that Engine.cancel and Engine.done belong to
  cancelled,  \* the loops whose context is cancelled
  loop,       \* where each loop is
  at,         \* where each client is
  call,       \* what it has called
  target,     \* the loop whose cancel and done it has copied, or has made
  left,       \* RunSteps: the ticks still to do; 0 for a count that is not positive
  answer      \* what its last call returned

loopVars   == <<current, cancelled, loop>>
clientVars == <<controlMu, at, call, target, left, answer>>
engineVars == <<status, loopVars, clientVars>>

Stopping == {"pause", "close", "steps", "load", "reset"}
Calls    == {"start"} \cup Stopping

EngineInit ==
  /\ SimInit
  /\ controlMu = NoClient /\ current = NoLoop /\ cancelled = {}
  /\ loop = [l \in Loops |-> "gone"]
  /\ at = [c \in Clients |-> "idle"] /\ call = [c \in Clients |-> "none"]
  /\ target = [c \in Clients |-> NoLoop] /\ left = [c \in Clients |-> 0]
  /\ answer = [c \in Clients |-> "none"]

-----------------------------------------------------------------------------
(* The client *)

Go(c, from, to) == at[c] = from /\ at' = [at EXCEPT ![c] = to]

\* The call returns, which unlocks controlMu.
Return(c, result) ==
  /\ at' = [at EXCEPT ![c] = "idle"]
  /\ controlMu' = NoClient
  /\ answer' = [answer EXCEPT ![c] = result]
  /\ target' = [target EXCEPT ![c] = NoLoop] /\ left' = [left EXCEPT ![c] = 0]
  /\ UNCHANGED call

Request(c, op, ticks) ==
  /\ Go(c, "idle", "lock")
  /\ call' = [call EXCEPT ![c] = op]
  /\ left' = [left EXCEPT ![c] = IF op = "steps" THEN ticks ELSE 0]
  /\ answer' = [answer EXCEPT ![c] = "none"]
  /\ UNCHANGED <<status, loopVars, controlMu, target>>

Lock(c) ==
  /\ Go(c, "lock", "entered")
  /\ controlMu = NoClient /\ controlMu' = c
  /\ UNCHANGED <<status, loopVars, call, target, left, answer>>

\* Start, the section under mu: another loop, or a new one.
StartRefused(c) ==
  /\ at[c] = "entered" /\ call[c] = "start"
  /\ current # NoLoop
  /\ Return(c, "already running")
  /\ UNCHANGED <<status, loopVars>>

\* Fault: Start does not look whether there is a loop.
StartAnyway(c, l) ==
  /\ Go(c, "entered", "begin") /\ call[c] = "start"
  /\ loop[l] = "gone"
  /\ current' = l /\ loop' = [loop EXCEPT ![l] = "made"]
  /\ target' = [target EXCEPT ![c] = l]
  /\ UNCHANGED <<status, cancelled, controlMu, call, left, answer>>

StartAccepted(c, l) ==
  /\ Go(c, "entered", "begin") /\ call[c] = "start"
  /\ current = NoLoop
  /\ loop[l] = "gone"
  /\ current' = l /\ loop' = [loop EXCEPT ![l] = "made"]
  /\ target' = [target EXCEPT ![c] = l]
  /\ UNCHANGED <<status, cancelled, controlMu, call, left, answer>>

StartController(c) ==
  /\ Go(c, "begin", "spawn")
  /\ MarkStarted
  /\ UNCHANGED <<loopVars, controlMu, call, target, left, answer>>

Spawn(c) ==
  /\ at[c] = "spawn"
  /\ loop' = [loop EXCEPT ![target[c]] = "select"]
  /\ Return(c, "ok")
  /\ UNCHANGED <<status, current, cancelled>>

\* LoadScenario looks at the document before it stops anything.
LoadRefused(c) ==
  /\ at[c] = "entered" /\ call[c] = "load"
  /\ Return(c, "error")
  /\ UNCHANGED <<status, loopVars>>

\* Fault: RunSteps lets the loop tick on.
CopyCancelUnlessSteps(c) ==
  /\ call[c] \in Stopping
  /\ Go(c, "entered", IF current = NoLoop \/ call[c] = "steps" THEN "act" ELSE "cancel")
  /\ target' = [target EXCEPT ![c] = current]
  /\ UNCHANGED <<status, loopVars, controlMu, call, left, answer>>

\* stopRealtime: copy cancel and done, call cancel, wait for done.
CopyCancel(c) ==
  /\ call[c] \in Stopping
  /\ Go(c, "entered", IF current = NoLoop THEN "act" ELSE "cancel")
  /\ target' = [target EXCEPT ![c] = current]
  /\ UNCHANGED <<status, loopVars, controlMu, call, left, answer>>

\* Fault: nobody waits for the loop to end.
CancelOnly(c) ==
  /\ Go(c, "cancel", "act")
  /\ cancelled' = cancelled \cup {target[c]}
  /\ UNCHANGED <<status, current, loop, controlMu, call, target, left, answer>>

Cancel(c) ==
  /\ Go(c, "cancel", "wait")
  /\ cancelled' = IF loop[target[c]] = "gone" THEN cancelled
                                              ELSE cancelled \cup {target[c]}
  /\ UNCHANGED <<status, current, loop, controlMu, call, target, left, answer>>

AwaitDone(c) ==
  /\ Go(c, "wait", "act")
  /\ loop[target[c]] = "gone"
  /\ UNCHANGED <<status, loopVars, controlMu, call, target, left, answer>>

\* What Pause, Close, Reset and LoadScenario do once the loop is gone.
Act(c) ==
  /\ at[c] = "act" /\ call[c] \in Stopping \ {"steps"}
  /\ CASE call[c] = "pause" -> MarkPaused
       [] call[c] = "close" -> UNCHANGED status
       [] OTHER             -> MarkReplaced
  /\ Return(c, "ok")
  /\ UNCHANGED loopVars

\* RunSteps: a count that is not positive is refused, once the loop is stopped.
StepsRefused(c) ==
  /\ at[c] = "act" /\ call[c] = "steps" /\ left[c] = 0
  /\ Return(c, "error")
  /\ UNCHANGED <<status, loopVars>>

\* Controller.Steps, a call of Step and one of Snapshot at a time.
StepOnce(c) ==
  /\ call[c] = "steps" /\ left[c] > 0
  /\ \/ Go(c, "act", "stepped") /\ MarkTicked
     \/ Go(c, "act", "refused") /\ StepRefused
     \/ Go(c, "act", "failed") /\ StepFailed
  /\ UNCHANGED <<loopVars, controlMu, call, target, left, answer>>

LookAfterStep(c) ==
  /\ at[c] = "stepped"
  /\ IF status = "COMPLETED" \/ left[c] = 1
       THEN Return(c, "ok")
       ELSE /\ Go(c, "stepped", "act")
            /\ left' = [left EXCEPT ![c] = @ - 1]
            /\ UNCHANGED <<controlMu, call, target, answer>>
  /\ UNCHANGED <<status, loopVars>>

\* An error that says "invalid transition" is taken for the end of the
\* simulation if the status, read afterwards, says COMPLETED.  The error of a
\* failed tick may be of this kind too, or another.
LookAfterError(c) ==
  /\ at[c] \in {"refused", "failed"}
  /\ \/ Return(c, IF status = "COMPLETED" THEN "ok" ELSE "error")
     \/ at[c] = "failed" /\ Return(c, "error")
  /\ UNCHANGED <<status, loopVars>>

-----------------------------------------------------------------------------
(* The goroutine *)

Move(l, from, to) == loop[l] = from /\ loop' = [loop EXCEPT ![l] = to]

LoopTick(l) ==
  /\ \/ Move(l, "select", "stepped") /\ MarkTicked
     \/ Move(l, "select", "leaving") /\ UNCHANGED status    \* Step failed
  /\ UNCHANGED <<current, cancelled, clientVars>>

\* Fault: the loop goes on whatever the snapshot says.
LoopGoesOn(l) ==
  /\ Move(l, "stepped", "select")
  /\ UNCHANGED <<status, current, cancelled, clientVars>>

LoopLook(l) ==
  /\ Move(l, "stepped", IF status = "COMPLETED" THEN "leaving" ELSE "select")
  /\ UNCHANGED <<status, current, cancelled, clientVars>>

\* Fault: only the ticker is waited for.
LoopDeaf(l) == FALSE /\ UNCHANGED engineVars

LoopCancelled(l) ==
  /\ l \in cancelled
  /\ Move(l, "select", "leaving")
  /\ UNCHANGED <<status, current, cancelled, clientVars>>

\* Fault: cancel and done are not cleared.
LoopClearNothing(l) ==
  /\ Move(l, "leaving", "closing")
  /\ UNCHANGED <<status, current, cancelled, clientVars>>

\* The deferred function: the section under mu, then close(done).
LoopClear(l) ==
  /\ Move(l, "leaving", "closing")
  /\ current' = IF current = l THEN NoLoop ELSE current
  /\ UNCHANGED <<status, cancelled, clientVars>>

LoopClose(l) ==
  /\ Move(l, "closing", "gone")
  /\ cancelled' = cancelled \ {l}
  /\ UNCHANGED <<status, current, clientVars>>

-----------------------------------------------------------------------------

\* A request served by the controller alone submits a process.
Submit == MarkSubmitted /\ UNCHANGED <<loopVars, clientVars>>

\* A client that has controlMu goes on.
Proceed(c) ==
  \/ StartRefused(c) \/ \E l \in Loops : StartAccepted(c, l)
  \/ StartController(c) \/ Spawn(c)
  \/ LoadRefused(c) \/ StepsRefused(c) \/ CopyCancel(c) \/ Cancel(c) \/ AwaitDone(c)
  \/ Act(c) \/ StepOnce(c) \/ LookAfterStep(c) \/ LookAfterError(c)

LoopNext(l) ==
  LoopTick(l) \/ LoopLook(l) \/ LoopCancelled(l) \/ LoopClear(l) \/ LoopClose(l)

EngineNext ==
  \/ \E c \in Clients : \/ \E op \in Calls, n \in 0 .. MaxSteps : Request(c, op, n)
                        \/ Lock(c) \/ Proceed(c)
  \/ \E l \in Loops : LoopNext(l)
  \/ Submit

\* Goroutines that can run do run.  The mutex wakes those that wait for it in
\* turn; select, when the ticker and the context are both ready, chooses at
\* random, so it does not overlook the context for ever.
EngineFairness ==
  /\ \A c \in Clients : WF_engineVars(Proceed(c)) /\ SF_engineVars(Lock(c))
  /\ \A l \in Loops : WF_engineVars(LoopNext(l)) /\ SF_engineVars(LoopCancelled(l))

EngineSpec == EngineInit /\ [][EngineNext]_engineVars /\ EngineFairness

-----------------------------------------------------------------------------
(* What the engine promises *)

ClientPlaces == {"idle", "lock", "entered", "begin", "spawn", "cancel", "wait",
                 "act", "stepped", "refused", "failed"}
LoopPlaces   == {"gone", "made", "select", "stepped", "leaving", "closing"}
Answers      == {"none", "ok", "error", "already running"}

EngineTypeOK ==
  /\ status \in Statuses
  /\ controlMu \in Clients \cup {NoClient} /\ current \in Loops \cup {NoLoop}
  /\ cancelled \subseteq Loops /\ loop \in [Loops -> LoopPlaces]
  /\ at \in [Clients -> ClientPlaces] /\ call \in [Clients -> Calls \cup {"none"}]
  /\ target \in [Clients -> Loops \cup {NoLoop}]
  /\ left \in [Clients -> 0 .. MaxSteps] /\ answer \in [Clients -> Answers]

\* The loop may still call Step.
Ticking(l) == loop[l] \in {"made", "select", "stepped"}

\* The client has waited for the loop and has not unlocked controlMu yet.
PastStop(c) == at[c] \in {"act", "stepped", "refused", "failed"}

\* A loop that may still tick is the one that cancel and done belong to: there
\* is one at most, and Pause and Close reach it (engine.go:37-48, 60-63,
\* docs/architecture.md:124).
StopReachesTheLoop == \A l \in Loops : Ticking(l) => current = l

\* What follows stopRealtime has the simulation to itself: no tick of a loop falls
\* between two ticks of RunSteps, or after the change that Pause, Reset and
\* LoadScenario make (engine.go:85-86, 110-111, 120-121, 127-128).
StopIsComplete == \A c \in Clients : PastStop(c) => \A l \in Loops : ~ Ticking(l)

\* No loop ticks a simulation that a client has seen PAUSED, or that is over:
\* Pause stops the loop before it changes the status, and the loop leaves at the
\* status it reads after its tick, which a submission may have changed meanwhile
\* (engine.go:72-77, 85-86).
QuietWhenStopped ==
  \A l \in Loops : loop[l] = "select" => status \in {"IDLE", "RUNNING"}

\* While cancel and done are set their loop is there to clear them: otherwise every
\* later Start would be refused (engine.go:40, 58-66).
CancelIsNotLeftOver ==
  current # NoLoop => loop[current] \in {"made", "select", "stepped", "leaving"}

\* RunSteps does not take a tick that failed for the end of the simulation, though
\* it tells the two apart only by a status that it reads later: nobody can have
\* completed the simulation in between (lifecycle.go:214-216).
FailureIsReported == \A c \in Clients : at[c] = "failed" => status # "COMPLETED"

\* Every call returns: no two goroutines wait for each other over controlMu, mu,
\* done and the context, and a loop that is told to stop does (engine.go:95-105).
CallsReturn == \A c \in Clients : at[c] # "idle" ~> at[c] = "idle"

=============================================================================
