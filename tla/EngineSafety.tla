------------------------------ MODULE EngineSafety ------------------------------
(***************************************************************************)
(* Proofs about Engine and Server: whoever has passed stopRealtime has the *)
(* simulation to itself, for any number of clients and of loops.           *)
(***************************************************************************)
EXTENDS Server, TLAPS

-----------------------------------------------------------------------------
(* The inductive invariant *)

\* controlMu belongs to the one client that is past Lock.
Ownership ==
  \A c \in Clients : at[c] \notin {"idle", "lock"} <=> controlMu = c

\* cancel and done are set exactly while their loop has not cleared them.
LoopIsNamed ==
  \A l \in Loops : loop[l] \in {"made", "select", "stepped", "leaving"} <=> current = l

\* The loop of a Start under way waits for it.
MadeByStart ==
  \A c \in Clients : at[c] \in {"begin", "spawn"} =>
    target[c] \in Loops /\ loop[target[c]] = "made"

\* A client in stopRealtime waits for the only loop there is.
StopKnowsTheLoop ==
  \A c \in Clients :
    /\ at[c] \in {"cancel", "wait"} => target[c] \in Loops /\ current \in {target[c], NoLoop}
    /\ PastStop(c) => current = NoLoop

\* What the status may be while somebody acts on an earlier look at it.
StatusFits ==
  /\ QuietWhenStopped
  /\ \A l \in Loops : loop[l] = "stepped" => status # "PAUSED"
  /\ \A c \in Clients : at[c] = "spawn" => status \in {"IDLE", "RUNNING"}
  /\ FailureIsReported

\* A tick that RunSteps has done was one that it had to do.
TicksLeft ==
  \A c \in Clients :
    at[c] = "stepped" => call[c] = "steps" /\ left[c] \in 1 .. MaxSteps

EInv == /\ EngineTypeOK /\ Ownership /\ LoopIsNamed
        /\ MadeByStart /\ StopKnowsTheLoop /\ StatusFits /\ TicksLeft

-----------------------------------------------------------------------------

LEMMA EngineInitInv == EngineInit => EInv
<1> USE EngineAssumption
<1> QED
  BY DEF EngineInit, SimInit, EInv, EngineTypeOK, Ownership, LoopIsNamed, MadeByStart,
         StopKnowsTheLoop, StatusFits, TicksLeft, QuietWhenStopped, FailureIsReported,
         PastStop, Statuses, ClientPlaces, LoopPlaces, Answers, Calls, Stopping

-----------------------------------------------------------------------------
(* What the two ways in which a client moves do to the clients *)

\* Go moves one client and leaves the others where they are.
LEMMA GoPoints ==
  ASSUME at \in [Clients -> ClientPlaces], NEW c \in Clients,
         NEW from, NEW to \in ClientPlaces, Go(c, from, to)
  PROVE  /\ at[c] = from /\ at' \in [Clients -> ClientPlaces]
         /\ \A d \in Clients : at'[d] = IF d = c THEN to ELSE at[d]
<1> QED  BY DEF Go

\* Return makes one client idle, and it forgets the loop it knew.
LEMMA ReturnPoints ==
  ASSUME EngineTypeOK, NEW c \in Clients, NEW result \in Answers, Return(c, result)
  PROVE  /\ at' \in [Clients -> ClientPlaces] /\ controlMu' = NoClient
         /\ call' \in [Clients -> Calls \cup {"none"}]
         /\ target' \in [Clients -> Loops \cup {NoLoop}]
         /\ left' \in [Clients -> 0 .. MaxSteps] /\ answer' \in [Clients -> Answers]
         /\ \A d \in Clients : /\ at'[d] = IF d = c THEN "idle" ELSE at[d]
                               /\ target'[d] = IF d = c THEN NoLoop ELSE target[d]
<1>1. "idle" \in ClientPlaces  BY DEF ClientPlaces
<1>2. 0 \in 0 .. MaxSteps  BY EngineAssumption
<1>3. at' \in [Clients -> ClientPlaces]  BY <1>1 DEF Return, EngineTypeOK
<1>4. target' \in [Clients -> Loops \cup {NoLoop}]  BY DEF Return, EngineTypeOK
<1>5. left' \in [Clients -> 0 .. MaxSteps]  BY <1>2 DEF Return, EngineTypeOK
<1>6. answer' \in [Clients -> Answers]  BY DEF Return, EngineTypeOK
<1>7. call' \in [Clients -> Calls \cup {"none"}]  BY DEF Return, EngineTypeOK
<1> QED  BY <1>3, <1>4, <1>5, <1>6, <1>7 DEF Return, EngineTypeOK

\* Move moves one loop.
LEMMA MovePoints ==
  ASSUME loop \in [Loops -> LoopPlaces], NEW l \in Loops,
         NEW from, NEW to \in LoopPlaces, Move(l, from, to)
  PROVE  /\ loop[l] = from /\ loop' \in [Loops -> LoopPlaces]
         /\ \A k \in Loops : loop'[k] = IF k = l THEN to ELSE loop[k]
<1> QED  BY DEF Move

-----------------------------------------------------------------------------
(* A client returns without touching the loops: EInv is kept if the status *)
(* still fits                                                              *)

LEMMA ReturnKeeps ==
  ASSUME EInv, NEW c \in Clients, NEW result \in Answers,
         at[c] \notin {"idle", "lock"}, Return(c, result),
         UNCHANGED <<status, loopVars>>
  PROVE  EInv'
<1> USE EngineAssumption
<1>1. /\ at' \in [Clients -> ClientPlaces] /\ controlMu' = NoClient
      /\ call' \in [Clients -> Calls \cup {"none"}]
      /\ target' \in [Clients -> Loops \cup {NoLoop}]
      /\ left' \in [Clients -> 0 .. MaxSteps] /\ answer' \in [Clients -> Answers]
      /\ \A d \in Clients : /\ at'[d] = IF d = c THEN "idle" ELSE at[d]
                            /\ target'[d] = IF d = c THEN NoLoop ELSE target[d]
  BY ReturnPoints DEF EInv
<1>2. /\ status' = status /\ loop' = loop /\ current' = current /\ cancelled' = cancelled
  BY DEF loopVars
<1>3. EngineTypeOK'  BY <1>1, <1>2 DEF EInv, EngineTypeOK
<1>4. controlMu = c  BY DEF EInv, Ownership
<1>5. Ownership'  BY <1>1, <1>4 DEF EInv, Ownership
<1>6. LoopIsNamed'  BY <1>2 DEF EInv, LoopIsNamed
<1>7. MadeByStart'  BY <1>1, <1>2 DEF EInv, MadeByStart
<1>8. StopKnowsTheLoop'  BY <1>1, <1>2 DEF EInv, StopKnowsTheLoop, PastStop
<1>9. StatusFits'
  BY <1>1, <1>2 DEF EInv, StatusFits, QuietWhenStopped, FailureIsReported
<1>10. TicksLeft'  BY <1>1 DEF EInv, TicksLeft, Return, EngineTypeOK
<1> QED  BY <1>3, <1>5, <1>6, <1>7, <1>8, <1>9, <1>10 DEF EInv
-----------------------------------------------------------------------------
(* The actions of a client *)

LEMMA RequestKeeps ==
  ASSUME EInv, NEW c \in Clients, NEW op \in Calls, NEW n \in 0 .. MaxSteps, Request(c, op, n)
  PROVE  EInv'
<1> USE EngineAssumption
<1>1. /\ at[c] = "idle" /\ at' \in [Clients -> ClientPlaces]
      /\ \A d \in Clients : at'[d] = IF d = c THEN "lock" ELSE at[d]
  <2>1. "lock" \in ClientPlaces  BY DEF ClientPlaces
  <2>2. Go(c, "idle", "lock")  BY DEF Request
  <2> QED  BY <2>1, <2>2, GoPoints DEF EInv, EngineTypeOK
<1>2. EngineTypeOK'
  <2>1. left' \in [Clients -> 0 .. MaxSteps]
    <3>1. (IF op = "steps" THEN n ELSE 0) \in 0 .. MaxSteps  OBVIOUS
    <3> QED  BY <3>1 DEF EInv, EngineTypeOK, Request
  <2>2. answer' \in [Clients -> Answers]  BY DEF EInv, EngineTypeOK, Request, Answers
  <2>3. call' \in [Clients -> Calls \cup {"none"}]  BY DEF EInv, EngineTypeOK, Request
  <2> QED  BY <1>1, <2>1, <2>2, <2>3 DEF EInv, EngineTypeOK, Request, loopVars
<1>3. Ownership'  BY <1>1 DEF EInv, Ownership, Request
<1>4. LoopIsNamed'  BY DEF EInv, LoopIsNamed, EngineTypeOK, Request, loopVars
<1>5. MadeByStart'
  BY <1>1 DEF EInv, MadeByStart, EngineTypeOK, Ownership, LoopIsNamed, Request, loopVars
<1>6. StopKnowsTheLoop'
  BY <1>1 DEF EInv, StopKnowsTheLoop, PastStop, EngineTypeOK, Ownership, LoopIsNamed,
     Request, loopVars
<1>7. StatusFits'
  BY <1>1 DEF EInv, StatusFits, QuietWhenStopped, FailureIsReported, StopKnowsTheLoop, PastStop,
     Ownership, MadeByStart, LoopIsNamed, EngineTypeOK, Request, loopVars
<1>8. TicksLeft'  BY <1>1 DEF EInv, TicksLeft, EngineTypeOK, Request
<1> QED  BY <1>2, <1>3, <1>4, <1>5, <1>6, <1>7, <1>8 DEF EInv

LEMMA LockKeeps ==
  ASSUME EInv, NEW c \in Clients, Lock(c)
  PROVE  EInv'
<1> USE EngineAssumption
<1>1. /\ at[c] = "lock" /\ at' \in [Clients -> ClientPlaces]
      /\ \A d \in Clients : at'[d] = IF d = c THEN "entered" ELSE at[d]
  <2>1. "entered" \in ClientPlaces  BY DEF ClientPlaces
  <2>2. Go(c, "lock", "entered")  BY DEF Lock
  <2> QED  BY <2>1, <2>2, GoPoints DEF EInv, EngineTypeOK
<1>2. EngineTypeOK'
  BY <1>1 DEF EInv, EngineTypeOK, Lock, loopVars
<1>3. Ownership'  BY <1>1 DEF EInv, Ownership, Lock
<1>4. LoopIsNamed'  BY DEF EInv, LoopIsNamed, EngineTypeOK, Lock, loopVars
<1>5. MadeByStart'
  BY <1>1 DEF EInv, MadeByStart, EngineTypeOK, Ownership, LoopIsNamed, Lock, loopVars
<1>6. StopKnowsTheLoop'
  BY <1>1 DEF EInv, StopKnowsTheLoop, PastStop, EngineTypeOK, Ownership, LoopIsNamed,
     Lock, loopVars
<1>7. StatusFits'
  BY <1>1 DEF EInv, StatusFits, QuietWhenStopped, FailureIsReported, StopKnowsTheLoop, PastStop,
     Ownership, MadeByStart, LoopIsNamed, EngineTypeOK, Lock, loopVars
<1>8. TicksLeft'  BY <1>1 DEF EInv, TicksLeft, EngineTypeOK, Lock
<1> QED  BY <1>2, <1>3, <1>4, <1>5, <1>6, <1>7, <1>8 DEF EInv

LEMMA StartAcceptedKeeps ==
  ASSUME EInv, NEW c \in Clients, NEW l \in Loops, StartAccepted(c, l)
  PROVE  EInv'
<1> USE EngineAssumption
<1>1. /\ at[c] = "entered" /\ at' \in [Clients -> ClientPlaces]
      /\ \A d \in Clients : at'[d] = IF d = c THEN "begin" ELSE at[d]
  <2>1. "begin" \in ClientPlaces  BY DEF ClientPlaces
  <2>2. Go(c, "entered", "begin")  BY DEF StartAccepted
  <2> QED  BY <2>1, <2>2, GoPoints DEF EInv, EngineTypeOK
<1>2. EngineTypeOK'
  BY <1>1 DEF EInv, EngineTypeOK, StartAccepted, LoopPlaces
<1>3. Ownership'  BY <1>1 DEF EInv, Ownership, StartAccepted
<1>4. LoopIsNamed'  BY DEF EInv, LoopIsNamed, EngineTypeOK, StartAccepted, loopVars
<1>5. MadeByStart'
  BY <1>1 DEF EInv, MadeByStart, EngineTypeOK, Ownership, LoopIsNamed, StartAccepted, loopVars
<1>6. StopKnowsTheLoop'
  BY <1>1 DEF EInv, StopKnowsTheLoop, PastStop, EngineTypeOK, Ownership, LoopIsNamed,
     StartAccepted, loopVars
<1>7. StatusFits'
  BY <1>1 DEF EInv, StatusFits, QuietWhenStopped, FailureIsReported, StopKnowsTheLoop, PastStop,
     Ownership, MadeByStart, LoopIsNamed, EngineTypeOK, StartAccepted, loopVars
<1>8. TicksLeft'  BY <1>1 DEF EInv, TicksLeft, EngineTypeOK, StartAccepted
<1> QED  BY <1>2, <1>3, <1>4, <1>5, <1>6, <1>7, <1>8 DEF EInv

LEMMA StartControllerKeeps ==
  ASSUME EInv, NEW c \in Clients, StartController(c)
  PROVE  EInv'
<1> USE EngineAssumption
<1>1. /\ at[c] = "begin" /\ at' \in [Clients -> ClientPlaces]
      /\ \A d \in Clients : at'[d] = IF d = c THEN "spawn" ELSE at[d]
  <2>1. "spawn" \in ClientPlaces  BY DEF ClientPlaces
  <2>2. Go(c, "begin", "spawn")  BY DEF StartController
  <2> QED  BY <2>1, <2>2, GoPoints DEF EInv, EngineTypeOK
<1>2. EngineTypeOK'
  BY <1>1 DEF EInv, EngineTypeOK, StartController, MarkStarted, Statuses, loopVars
<1>3. Ownership'  BY <1>1 DEF EInv, Ownership, StartController
<1>4. LoopIsNamed'  BY DEF EInv, LoopIsNamed, EngineTypeOK, StartController, loopVars
<1>5. MadeByStart'
  BY <1>1 DEF EInv, MadeByStart, EngineTypeOK, Ownership, LoopIsNamed, StartController, loopVars
<1>6. StopKnowsTheLoop'
  BY <1>1 DEF EInv, StopKnowsTheLoop, PastStop, EngineTypeOK, Ownership, LoopIsNamed,
     StartController, loopVars
<1>7. StatusFits'
  BY <1>1 DEF EInv, StatusFits, QuietWhenStopped, FailureIsReported, StopKnowsTheLoop, PastStop,
     Ownership, MadeByStart, LoopIsNamed, EngineTypeOK, StartController, loopVars, MarkStarted
<1>8. TicksLeft'  BY <1>1 DEF EInv, TicksLeft, EngineTypeOK, StartController
<1> QED  BY <1>2, <1>3, <1>4, <1>5, <1>6, <1>7, <1>8 DEF EInv

LEMMA CopyCancelKeeps ==
  ASSUME EInv, NEW c \in Clients, CopyCancel(c)
  PROVE  EInv'
<1> USE EngineAssumption
<1>1. /\ at[c] = "entered" /\ at' \in [Clients -> ClientPlaces]
      /\ \A d \in Clients : at'[d] = IF d = c THEN (IF current = NoLoop THEN "act" ELSE "cancel") ELSE at[d]
  <2>1. (IF current = NoLoop THEN "act" ELSE "cancel") \in ClientPlaces  BY DEF ClientPlaces
  <2>2. Go(c, "entered", (IF current = NoLoop THEN "act" ELSE "cancel"))  BY DEF CopyCancel
  <2> QED  BY <2>1, <2>2, GoPoints DEF EInv, EngineTypeOK
<1>2. EngineTypeOK'
  BY <1>1 DEF EInv, EngineTypeOK, CopyCancel, loopVars
<1>3. Ownership'  BY <1>1 DEF EInv, Ownership, CopyCancel
<1>4. LoopIsNamed'  BY DEF EInv, LoopIsNamed, EngineTypeOK, CopyCancel, loopVars
<1>5. MadeByStart'
  BY <1>1 DEF EInv, MadeByStart, EngineTypeOK, Ownership, LoopIsNamed, CopyCancel, loopVars
<1>6. StopKnowsTheLoop'
  BY <1>1 DEF EInv, StopKnowsTheLoop, PastStop, EngineTypeOK, Ownership, LoopIsNamed,
     CopyCancel, loopVars
<1>7. StatusFits'
  BY <1>1 DEF EInv, StatusFits, QuietWhenStopped, FailureIsReported, StopKnowsTheLoop, PastStop,
     Ownership, MadeByStart, LoopIsNamed, EngineTypeOK, CopyCancel, loopVars
<1>8. TicksLeft'  BY <1>1 DEF EInv, TicksLeft, EngineTypeOK, CopyCancel
<1> QED  BY <1>2, <1>3, <1>4, <1>5, <1>6, <1>7, <1>8 DEF EInv

LEMMA CancelKeeps ==
  ASSUME EInv, NEW c \in Clients, Cancel(c)
  PROVE  EInv'
<1> USE EngineAssumption
<1>1. /\ at[c] = "cancel" /\ at' \in [Clients -> ClientPlaces]
      /\ \A d \in Clients : at'[d] = IF d = c THEN "wait" ELSE at[d]
  <2>1. "wait" \in ClientPlaces  BY DEF ClientPlaces
  <2>2. Go(c, "cancel", "wait")  BY DEF Cancel
  <2> QED  BY <2>1, <2>2, GoPoints DEF EInv, EngineTypeOK
<1>2. EngineTypeOK'
  BY <1>1 DEF EInv, EngineTypeOK, Cancel, StopKnowsTheLoop
<1>3. Ownership'  BY <1>1 DEF EInv, Ownership, Cancel
<1>4. LoopIsNamed'  BY DEF EInv, LoopIsNamed, EngineTypeOK, Cancel, loopVars
<1>5. MadeByStart'
  BY <1>1 DEF EInv, MadeByStart, EngineTypeOK, Ownership, LoopIsNamed, Cancel, loopVars
<1>6. StopKnowsTheLoop'
  BY <1>1 DEF EInv, StopKnowsTheLoop, PastStop, EngineTypeOK, Ownership, LoopIsNamed,
     Cancel, loopVars
<1>7. StatusFits'
  BY <1>1 DEF EInv, StatusFits, QuietWhenStopped, FailureIsReported, StopKnowsTheLoop, PastStop,
     Ownership, MadeByStart, LoopIsNamed, EngineTypeOK, Cancel, loopVars
<1>8. TicksLeft'  BY <1>1 DEF EInv, TicksLeft, EngineTypeOK, Cancel
<1> QED  BY <1>2, <1>3, <1>4, <1>5, <1>6, <1>7, <1>8 DEF EInv

LEMMA AwaitDoneKeeps ==
  ASSUME EInv, NEW c \in Clients, AwaitDone(c)
  PROVE  EInv'
<1> USE EngineAssumption
<1>1. /\ at[c] = "wait" /\ at' \in [Clients -> ClientPlaces]
      /\ \A d \in Clients : at'[d] = IF d = c THEN "act" ELSE at[d]
  <2>1. "act" \in ClientPlaces  BY DEF ClientPlaces
  <2>2. Go(c, "wait", "act")  BY DEF AwaitDone
  <2> QED  BY <2>1, <2>2, GoPoints DEF EInv, EngineTypeOK
<1>2. EngineTypeOK'
  BY <1>1 DEF EInv, EngineTypeOK, AwaitDone, loopVars
<1>3. Ownership'  BY <1>1 DEF EInv, Ownership, AwaitDone
<1>4. LoopIsNamed'  BY DEF EInv, LoopIsNamed, EngineTypeOK, AwaitDone, loopVars
<1>5. MadeByStart'
  BY <1>1 DEF EInv, MadeByStart, EngineTypeOK, Ownership, LoopIsNamed, AwaitDone, loopVars
<1>6. StopKnowsTheLoop'
  BY <1>1 DEF EInv, StopKnowsTheLoop, PastStop, EngineTypeOK, Ownership, LoopIsNamed,
     AwaitDone, loopVars
<1>7. StatusFits'
  BY <1>1 DEF EInv, StatusFits, QuietWhenStopped, FailureIsReported, StopKnowsTheLoop, PastStop,
     Ownership, MadeByStart, LoopIsNamed, EngineTypeOK, AwaitDone, loopVars
<1>8. TicksLeft'  BY <1>1 DEF EInv, TicksLeft, EngineTypeOK, AwaitDone
<1> QED  BY <1>2, <1>3, <1>4, <1>5, <1>6, <1>7, <1>8 DEF EInv
LEMMA StartRefusedKeeps ==
  ASSUME EInv, NEW c \in Clients, StartRefused(c)
  PROVE  EInv'
<1>1. "already running" \in Answers  BY DEF Answers
<1> QED  BY <1>1, ReturnKeeps DEF StartRefused

LEMMA LoadRefusedKeeps ==
  ASSUME EInv, NEW c \in Clients, LoadRefused(c)
  PROVE  EInv'
<1>1. "error" \in Answers  BY DEF Answers
<1> QED  BY <1>1, ReturnKeeps DEF LoadRefused

LEMMA StepsRefusedKeeps ==
  ASSUME EInv, NEW c \in Clients, StepsRefused(c)
  PROVE  EInv'
<1>1. "error" \in Answers  BY DEF Answers
<1> QED  BY <1>1, ReturnKeeps DEF StepsRefused

LEMMA LookAfterErrorKeeps ==
  ASSUME EInv, NEW c \in Clients, LookAfterError(c)
  PROVE  EInv'
<1>1. PICK result \in {"ok", "error"} : Return(c, result)
  BY DEF LookAfterError
<1>2. result \in Answers  BY DEF Answers
<1>3. at[c] \notin {"idle", "lock"} /\ UNCHANGED <<status, loopVars>>  BY DEF LookAfterError
<1> QED  BY <1>1, <1>2, <1>3, ReturnKeeps

LEMMA LookAfterStepKeeps ==
  ASSUME EInv, NEW c \in Clients, LookAfterStep(c)
  PROVE  EInv'
<1> USE EngineAssumption
<1>1. CASE status = "COMPLETED" \/ left[c] = 1
  <2>1. Return(c, "ok") /\ at[c] \notin {"idle", "lock"} /\ UNCHANGED <<status, loopVars>>
    BY <1>1 DEF LookAfterStep
  <2>2. "ok" \in Answers  BY DEF Answers
  <2> QED  BY <2>1, <2>2, ReturnKeeps
<1>2. CASE ~ (status = "COMPLETED" \/ left[c] = 1)
  <2>1. /\ at[c] = "stepped" /\ at' \in [Clients -> ClientPlaces]
        /\ \A d \in Clients : at'[d] = IF d = c THEN "act" ELSE at[d]
    <3>1. Go(c, "stepped", "act")  BY <1>2 DEF LookAfterStep
    <3> QED  BY <3>1, GoPoints DEF EInv, EngineTypeOK, ClientPlaces
  <2>2. /\ left' = [left EXCEPT ![c] = @ - 1]
        /\ UNCHANGED <<controlMu, call, target, answer, status, current, cancelled, loop>>
    BY <1>2 DEF LookAfterStep, loopVars
  <2>3. left[c] \in 2 .. MaxSteps
    BY <1>2, <2>1 DEF EInv, TicksLeft
  <2>4. left' \in [Clients -> 0 .. MaxSteps] /\ left'[c] \in 1 .. MaxSteps
    BY <2>2, <2>3 DEF EInv, EngineTypeOK
  <2>5. EngineTypeOK'  BY <2>1, <2>2, <2>4 DEF EInv, EngineTypeOK
  <2>6. Ownership'  BY <2>1, <2>2 DEF EInv, Ownership
  <2>7. LoopIsNamed'  BY <2>2 DEF EInv, LoopIsNamed
  <2>8. MadeByStart'  BY <2>1, <2>2 DEF EInv, MadeByStart
  <2>9. StopKnowsTheLoop'  BY <2>1, <2>2 DEF EInv, StopKnowsTheLoop, PastStop
  <2>10. StatusFits'
    BY <2>1, <2>2 DEF EInv, StatusFits, QuietWhenStopped, FailureIsReported
  <2>11. TicksLeft'  BY <2>1, <2>2, <2>4 DEF EInv, TicksLeft, EngineTypeOK
  <2> QED  BY <2>5, <2>6, <2>7, <2>8, <2>9, <2>10, <2>11 DEF EInv
<1> QED  BY <1>1, <1>2

LEMMA StepOnceKeeps ==
  ASSUME EInv, NEW c \in Clients, StepOnce(c)
  PROVE  EInv'
<1> USE EngineAssumption
<1>1. PICK to \in {"stepped", "refused", "failed"} :
        /\ Go(c, "act", to)
        /\ to = "stepped" => MarkTicked
        /\ to = "refused" => StepRefused
        /\ to = "failed" => StepFailed
  BY DEF StepOnce
<1>2. /\ at[c] = "act" /\ at' \in [Clients -> ClientPlaces]
      /\ \A d \in Clients : at'[d] = IF d = c THEN to ELSE at[d]
  <2>1. to \in ClientPlaces  BY DEF ClientPlaces
  <2> QED  BY <1>1, <2>1, GoPoints DEF EInv, EngineTypeOK
<1>3. /\ call[c] = "steps" /\ left[c] > 0 /\ status' \in Statuses
      /\ UNCHANGED <<current, cancelled, loop, controlMu, call, target, left, answer>>
  BY <1>1 DEF StepOnce, MarkTicked, StepRefused, StepFailed, EInv, EngineTypeOK, Statuses,
     loopVars
<1>4. EngineTypeOK'  BY <1>2, <1>3 DEF EInv, EngineTypeOK
<1>5. Ownership'  BY <1>2, <1>3 DEF EInv, Ownership
<1>6. LoopIsNamed'  BY <1>3 DEF EInv, LoopIsNamed
<1>7. MadeByStart'  BY <1>2, <1>3 DEF EInv, MadeByStart
<1>8. StopKnowsTheLoop'  BY <1>2, <1>3 DEF EInv, StopKnowsTheLoop, PastStop
<1>9. StatusFits'
  <2>1. \A l \in Loops : loop[l] \notin {"select", "stepped"}
    BY <1>2 DEF EInv, StopKnowsTheLoop, PastStop, LoopIsNamed, EngineTypeOK
  <2>2. \A d \in Clients : d # c => at[d] \in {"idle", "lock"}
    BY <1>2 DEF EInv, Ownership
  <2>3. to = "failed" => status' # "COMPLETED"  BY <1>1 DEF StepFailed
  <2> QED
    BY <1>2, <1>3, <2>1, <2>2, <2>3 DEF StatusFits, QuietWhenStopped, FailureIsReported
<1>10. TicksLeft'  BY <1>2, <1>3 DEF EInv, TicksLeft, EngineTypeOK
<1> QED  BY <1>4, <1>5, <1>6, <1>7, <1>8, <1>9, <1>10 DEF EInv

LEMMA ActKeeps ==
  ASSUME EInv, NEW c \in Clients, Act(c)
  PROVE  EInv'
<1> USE EngineAssumption
<1>1. /\ at' \in [Clients -> ClientPlaces] /\ controlMu' = NoClient
      /\ call' \in [Clients -> Calls \cup {"none"}]
      /\ target' \in [Clients -> Loops \cup {NoLoop}]
      /\ left' \in [Clients -> 0 .. MaxSteps] /\ answer' \in [Clients -> Answers]
      /\ \A d \in Clients : /\ at'[d] = IF d = c THEN "idle" ELSE at[d]
                            /\ target'[d] = IF d = c THEN NoLoop ELSE target[d]
  <2>1. Return(c, "ok") /\ "ok" \in Answers  BY DEF Act, Answers
  <2> QED  BY <2>1, ReturnPoints DEF EInv
<1>2. /\ at[c] = "act" /\ status' \in Statuses
      /\ UNCHANGED <<current, cancelled, loop>>
  BY DEF Act, MarkPaused, MarkReplaced, Statuses, EInv, EngineTypeOK, loopVars
<1>3. EngineTypeOK'  BY <1>1, <1>2 DEF EInv, EngineTypeOK
<1>4. Ownership'  BY <1>1, <1>2 DEF EInv, Ownership
<1>5. LoopIsNamed'  BY <1>2 DEF EInv, LoopIsNamed
<1>6. MadeByStart'  BY <1>1, <1>2 DEF EInv, MadeByStart
<1>7. StopKnowsTheLoop'  BY <1>1, <1>2 DEF EInv, StopKnowsTheLoop, PastStop
<1>8. StatusFits'
  <2>1. \A l \in Loops : loop[l] \notin {"select", "stepped"}
    BY <1>2 DEF EInv, StopKnowsTheLoop, PastStop, LoopIsNamed, EngineTypeOK
  <2>2. \A d \in Clients : d # c => at[d] \in {"idle", "lock"}
    BY <1>2 DEF EInv, Ownership
  <2> QED  BY <1>1, <1>2, <2>1, <2>2 DEF StatusFits, QuietWhenStopped, FailureIsReported
<1>9. TicksLeft'  BY <1>1 DEF EInv, TicksLeft, Act, Return, EngineTypeOK
<1> QED  BY <1>3, <1>4, <1>5, <1>6, <1>7, <1>8, <1>9 DEF EInv

LEMMA SpawnKeeps ==
  ASSUME EInv, NEW c \in Clients, Spawn(c)
  PROVE  EInv'
<1> USE EngineAssumption
<1>1. /\ at' \in [Clients -> ClientPlaces] /\ controlMu' = NoClient
      /\ call' \in [Clients -> Calls \cup {"none"}]
      /\ target' \in [Clients -> Loops \cup {NoLoop}]
      /\ left' \in [Clients -> 0 .. MaxSteps] /\ answer' \in [Clients -> Answers]
      /\ \A d \in Clients : /\ at'[d] = IF d = c THEN "idle" ELSE at[d]
                            /\ target'[d] = IF d = c THEN NoLoop ELSE target[d]
  <2>1. Return(c, "ok") /\ "ok" \in Answers  BY DEF Spawn, Answers
  <2> QED  BY <2>1, ReturnPoints DEF EInv
<1> DEFINE l == target[c]
<1>2. /\ at[c] = "spawn" /\ l \in Loops /\ loop[l] = "made"
      /\ loop' \in [Loops -> LoopPlaces]
      /\ \A k \in Loops : loop'[k] = IF k = l THEN "select" ELSE loop[k]
      /\ UNCHANGED <<status, current, cancelled>>
  BY DEF Spawn, EInv, MadeByStart, EngineTypeOK, LoopPlaces
<1> HIDE DEF l
<1>3. EngineTypeOK'  BY <1>1, <1>2 DEF EInv, EngineTypeOK
<1>4. \A d \in Clients : d # c => at[d] \in {"idle", "lock"}
  BY <1>2 DEF EInv, Ownership
<1>5. Ownership'  BY <1>1, <1>4 DEF EInv, Ownership
<1>6. LoopIsNamed'  BY <1>2 DEF EInv, LoopIsNamed
<1>7. MadeByStart'  BY <1>1, <1>4 DEF MadeByStart
<1>8. StopKnowsTheLoop'  BY <1>1, <1>4 DEF StopKnowsTheLoop, PastStop
<1>9. StatusFits'
  BY <1>1, <1>2, <1>4 DEF EInv, StatusFits, QuietWhenStopped, FailureIsReported
<1>10. TicksLeft'  BY <1>1 DEF EInv, TicksLeft, Spawn, Return, EngineTypeOK
<1> QED  BY <1>3, <1>5, <1>6, <1>7, <1>8, <1>9, <1>10 DEF EInv
-----------------------------------------------------------------------------
(* The actions of the goroutine *)

LEMMA LoopTickKeeps ==
  ASSUME EInv, NEW l \in Loops, LoopTick(l)
  PROVE  EInv'
<1> USE EngineAssumption
<1>0. PICK to \in {"stepped", "leaving"} :
        /\ Move(l, "select", to)
        /\ IF to = "stepped" THEN MarkTicked ELSE UNCHANGED status
  BY DEF LoopTick
<1>1. /\ loop[l] = "select" /\ loop' \in [Loops -> LoopPlaces]
      /\ \A k \in Loops : loop'[k] = IF k = l THEN to ELSE loop[k]
      /\ IF to = "stepped" THEN MarkTicked ELSE UNCHANGED status
  <2>1. to \in LoopPlaces  BY DEF LoopPlaces
  <2> QED  BY <1>0, <2>1, MovePoints DEF EInv, EngineTypeOK
<1>2. EngineTypeOK'
  BY <1>1 DEF EInv, EngineTypeOK, LoopTick, clientVars, MarkTicked, Statuses
<1>3. Ownership'  BY DEF EInv, Ownership, LoopTick, clientVars
<1>4. LoopIsNamed'  BY <1>1 DEF EInv, LoopIsNamed, EngineTypeOK, LoopTick
<1>5. MadeByStart'  BY <1>1 DEF EInv, MadeByStart, LoopTick, clientVars
<1>6. StopKnowsTheLoop'
  BY <1>1 DEF EInv, StopKnowsTheLoop, PastStop, LoopTick, clientVars
<1>7. StatusFits'
  BY <1>1 DEF EInv, StatusFits, QuietWhenStopped, FailureIsReported, StopKnowsTheLoop, PastStop,
     MadeByStart, LoopIsNamed, EngineTypeOK, LoopTick, clientVars, MarkTicked, Statuses
<1>8. TicksLeft'  BY DEF EInv, TicksLeft, LoopTick, clientVars
<1> QED  BY <1>2, <1>3, <1>4, <1>5, <1>6, <1>7, <1>8 DEF EInv

LEMMA LoopLookKeeps ==
  ASSUME EInv, NEW l \in Loops, LoopLook(l)
  PROVE  EInv'
<1> USE EngineAssumption
<1>1. /\ loop[l] = "stepped" /\ loop' \in [Loops -> LoopPlaces]
      /\ \A k \in Loops : loop'[k] = IF k = l THEN (IF status = "COMPLETED" THEN "leaving" ELSE "select") ELSE loop[k]
  <2>1. (IF status = "COMPLETED" THEN "leaving" ELSE "select") \in LoopPlaces  BY DEF LoopPlaces
  <2>2. Move(l, "stepped", (IF status = "COMPLETED" THEN "leaving" ELSE "select"))  BY DEF LoopLook
  <2> QED  BY <2>1, <2>2, MovePoints DEF EInv, EngineTypeOK
<1>2. EngineTypeOK'
  BY <1>1 DEF EInv, EngineTypeOK, LoopLook, clientVars
<1>3. Ownership'  BY DEF EInv, Ownership, LoopLook, clientVars
<1>4. LoopIsNamed'  BY <1>1 DEF EInv, LoopIsNamed, EngineTypeOK, LoopLook
<1>5. MadeByStart'  BY <1>1 DEF EInv, MadeByStart, LoopLook, clientVars
<1>6. StopKnowsTheLoop'
  BY <1>1 DEF EInv, StopKnowsTheLoop, PastStop, LoopLook, clientVars
<1>7. StatusFits'
  BY <1>1 DEF EInv, StatusFits, QuietWhenStopped, FailureIsReported, StopKnowsTheLoop, PastStop,
     MadeByStart, LoopIsNamed, EngineTypeOK, LoopLook, clientVars, Statuses
<1>8. TicksLeft'  BY DEF EInv, TicksLeft, LoopLook, clientVars
<1> QED  BY <1>2, <1>3, <1>4, <1>5, <1>6, <1>7, <1>8 DEF EInv

LEMMA LoopCancelledKeeps ==
  ASSUME EInv, NEW l \in Loops, LoopCancelled(l)
  PROVE  EInv'
<1> USE EngineAssumption
<1>1. /\ loop[l] = "select" /\ loop' \in [Loops -> LoopPlaces]
      /\ \A k \in Loops : loop'[k] = IF k = l THEN "leaving" ELSE loop[k]
  <2>1. "leaving" \in LoopPlaces  BY DEF LoopPlaces
  <2>2. Move(l, "select", "leaving")  BY DEF LoopCancelled
  <2> QED  BY <2>1, <2>2, MovePoints DEF EInv, EngineTypeOK
<1>2. EngineTypeOK'
  BY <1>1 DEF EInv, EngineTypeOK, LoopCancelled, clientVars
<1>3. Ownership'  BY DEF EInv, Ownership, LoopCancelled, clientVars
<1>4. LoopIsNamed'  BY <1>1 DEF EInv, LoopIsNamed, EngineTypeOK, LoopCancelled
<1>5. MadeByStart'  BY <1>1 DEF EInv, MadeByStart, LoopCancelled, clientVars
<1>6. StopKnowsTheLoop'
  BY <1>1 DEF EInv, StopKnowsTheLoop, PastStop, LoopCancelled, clientVars
<1>7. StatusFits'
  BY <1>1 DEF EInv, StatusFits, QuietWhenStopped, FailureIsReported, StopKnowsTheLoop, PastStop,
     MadeByStart, LoopIsNamed, EngineTypeOK, LoopCancelled, clientVars
<1>8. TicksLeft'  BY DEF EInv, TicksLeft, LoopCancelled, clientVars
<1> QED  BY <1>2, <1>3, <1>4, <1>5, <1>6, <1>7, <1>8 DEF EInv

LEMMA LoopClearKeeps ==
  ASSUME EInv, NEW l \in Loops, LoopClear(l)
  PROVE  EInv'
<1> USE EngineAssumption
<1>1. /\ loop[l] = "leaving" /\ loop' \in [Loops -> LoopPlaces]
      /\ \A k \in Loops : loop'[k] = IF k = l THEN "closing" ELSE loop[k]
  <2>1. "closing" \in LoopPlaces  BY DEF LoopPlaces
  <2>2. Move(l, "leaving", "closing")  BY DEF LoopClear
  <2> QED  BY <2>1, <2>2, MovePoints DEF EInv, EngineTypeOK
<1>2. EngineTypeOK'
  BY <1>1 DEF EInv, EngineTypeOK, LoopClear, clientVars
<1>3. Ownership'  BY DEF EInv, Ownership, LoopClear, clientVars
<1>4. LoopIsNamed'  BY <1>1 DEF EInv, LoopIsNamed, EngineTypeOK, LoopClear
<1>5. MadeByStart'  BY <1>1 DEF EInv, MadeByStart, LoopClear, clientVars
<1>6. StopKnowsTheLoop'
  BY <1>1 DEF EInv, StopKnowsTheLoop, PastStop, LoopClear, clientVars
<1>7. StatusFits'
  BY <1>1 DEF EInv, StatusFits, QuietWhenStopped, FailureIsReported, StopKnowsTheLoop, PastStop,
     MadeByStart, LoopIsNamed, EngineTypeOK, LoopClear, clientVars
<1>8. TicksLeft'  BY DEF EInv, TicksLeft, LoopClear, clientVars
<1> QED  BY <1>2, <1>3, <1>4, <1>5, <1>6, <1>7, <1>8 DEF EInv

LEMMA LoopCloseKeeps ==
  ASSUME EInv, NEW l \in Loops, LoopClose(l)
  PROVE  EInv'
<1> USE EngineAssumption
<1>1. /\ loop[l] = "closing" /\ loop' \in [Loops -> LoopPlaces]
      /\ \A k \in Loops : loop'[k] = IF k = l THEN "gone" ELSE loop[k]
  <2>1. "gone" \in LoopPlaces  BY DEF LoopPlaces
  <2>2. Move(l, "closing", "gone")  BY DEF LoopClose
  <2> QED  BY <2>1, <2>2, MovePoints DEF EInv, EngineTypeOK
<1>2. EngineTypeOK'
  BY <1>1 DEF EInv, EngineTypeOK, LoopClose, clientVars
<1>3. Ownership'  BY DEF EInv, Ownership, LoopClose, clientVars
<1>4. LoopIsNamed'  BY <1>1 DEF EInv, LoopIsNamed, EngineTypeOK, LoopClose
<1>5. MadeByStart'  BY <1>1 DEF EInv, MadeByStart, LoopClose, clientVars
<1>6. StopKnowsTheLoop'
  BY <1>1 DEF EInv, StopKnowsTheLoop, PastStop, LoopClose, clientVars
<1>7. StatusFits'
  BY <1>1 DEF EInv, StatusFits, QuietWhenStopped, FailureIsReported, StopKnowsTheLoop, PastStop,
     MadeByStart, LoopIsNamed, EngineTypeOK, LoopClose, clientVars
<1>8. TicksLeft'  BY DEF EInv, TicksLeft, LoopClose, clientVars
<1> QED  BY <1>2, <1>3, <1>4, <1>5, <1>6, <1>7, <1>8 DEF EInv

-----------------------------------------------------------------------------

LEMMA SubmitKeeps == EInv /\ Submit => EInv'
<1> SUFFICES ASSUME EInv, Submit PROVE EInv'  OBVIOUS
<1>1. EngineTypeOK'
  BY DEF EInv, EngineTypeOK, Submit, MarkSubmitted, Statuses, loopVars, clientVars
<1>2. StatusFits'
  BY DEF EInv, StatusFits, QuietWhenStopped, FailureIsReported, Submit, MarkSubmitted,
     EngineTypeOK, Statuses, loopVars, clientVars
<1> QED
  BY <1>1, <1>2 DEF EInv, Ownership, LoopIsNamed, MadeByStart, StopKnowsTheLoop, PastStop,
     TicksLeft, Submit, loopVars, clientVars

LEMMA StayKeeps == EInv /\ UNCHANGED engineVars => EInv'
<1> QED
  BY DEF EInv, EngineTypeOK, Ownership, LoopIsNamed, MadeByStart, StopKnowsTheLoop, PastStop,
     StatusFits, QuietWhenStopped, FailureIsReported, TicksLeft, engineVars, loopVars, clientVars

LEMMA EngineNextKeeps == EInv /\ [EngineNext]_engineVars => EInv'
<1> SUFFICES ASSUME EInv, [EngineNext]_engineVars PROVE EInv'  OBVIOUS
<1>1. ASSUME NEW c \in Clients, Proceed(c) PROVE EInv'
  BY <1>1, StartRefusedKeeps, StartAcceptedKeeps, StartControllerKeeps, SpawnKeeps,
     LoadRefusedKeeps, StepsRefusedKeeps, CopyCancelKeeps, CancelKeeps, AwaitDoneKeeps, ActKeeps,
     StepOnceKeeps, LookAfterStepKeeps, LookAfterErrorKeeps DEF Proceed
<1>2. ASSUME NEW l \in Loops, LoopNext(l) PROVE EInv'
  BY <1>2, LoopTickKeeps, LoopLookKeeps, LoopCancelledKeeps, LoopClearKeeps, LoopCloseKeeps
     DEF LoopNext
<1> QED
  BY <1>1, <1>2, RequestKeeps, LockKeeps, SubmitKeeps, StayKeeps DEF EngineNext

\* The engine without its fairness.
EngineSafeSpec == EngineInit /\ [][EngineNext]_engineVars

LEMMA EngineInvariant == EngineSafeSpec => []EInv
<1> QED  BY EngineInitInv, EngineNextKeeps, PTL DEF EngineSafeSpec

LEMMA EngineSpecIsSafe == EngineSpec => EngineSafeSpec
<1> QED  BY PTL DEF EngineSpec, EngineSafeSpec

-----------------------------------------------------------------------------
(* The theorems *)

\* Any loop that may still tick is the one that Pause and Close would stop, so
\* there is one at most, however many calls of Start race (engine.go:37-48, 58-66).
THEOREM StopReachesTheLoopCorrect == EngineSpec => []StopReachesTheLoop
<1>1. EInv => StopReachesTheLoop
  BY DEF EInv, LoopIsNamed, StopReachesTheLoop, Ticking
<1> QED  BY <1>1, EngineInvariant, EngineSpecIsSafe, PTL

\* Pause, Reset, RunSteps and LoadScenario have the simulation to themselves once
\* stopRealtime has returned (engine.go:95-105).
THEOREM StopIsCompleteCorrect == EngineSpec => []StopIsComplete
<1>1. EInv => StopIsComplete
  BY EngineAssumption
     DEF EInv, LoopIsNamed, StopKnowsTheLoop, EngineTypeOK, StopIsComplete, Ticking
<1> QED  BY <1>1, EngineInvariant, EngineSpecIsSafe, PTL

\* A loop never waits for its next tick on a simulation that is PAUSED or
\* COMPLETED (engine.go:72-77, 85-86).
THEOREM QuietWhenStoppedCorrect == EngineSpec => []QuietWhenStopped
<1>1. EInv => QuietWhenStopped  BY DEF EInv, StatusFits
<1> QED  BY <1>1, EngineInvariant, EngineSpecIsSafe, PTL

\* cancel and done are never left behind by a loop that is gone (engine.go:58-66).
THEOREM CancelIsNotLeftOverCorrect == EngineSpec => []CancelIsNotLeftOver
<1>1. EInv => CancelIsNotLeftOver
  BY DEF EInv, EngineTypeOK, LoopIsNamed, CancelIsNotLeftOver
<1> QED  BY <1>1, EngineInvariant, EngineSpecIsSafe, PTL

\* RunSteps does not hide a tick that failed (lifecycle.go:214-216).
THEOREM FailureIsReportedCorrect == EngineSpec => []FailureIsReported
<1>1. EInv => FailureIsReported  BY DEF EInv, StatusFits
<1> QED  BY <1>1, EngineInvariant, EngineSpecIsSafe, PTL

-----------------------------------------------------------------------------
(* The server *)

\* Within the server program the engine does what Engine says it does.
LEMMA ServerStepIsEngineStep == [ServerNext]_allVars => [EngineNext]_engineVars
<1> USE EngineAssumption, MainAssumption
<1>1. 1 \in 0 .. MaxSteps /\ "close" \in Calls  BY DEF Calls, Stopping
<1>2. DeferredClose => EngineNext  BY <1>1 DEF DeferredClose, EngineNext
<1>3. Run => EngineNext  BY DEF Run, EngineNext
<1>4. ASSUME NEW c \in Clients, NEW op \in Calls, NEW n \in 0 .. MaxSteps, Serve(c, op, n)
      PROVE  EngineNext
  BY <1>4 DEF Serve, EngineNext
<1> QED
  BY <1>2, <1>3, <1>4
  DEF ServerNext, Signal, ServeFails, Drained, TimedOut, Exit, allVars, engineVars

LEMMA ServerRunsEngine == ServerSpec => EngineSafeSpec
<1>1. ServerInit => EngineInit  BY DEF ServerInit
<1> QED  BY <1>1, ServerStepIsEngineStep, PTL DEF ServerSpec, EngineSafeSpec
\* Where a client is fits what it has called.
CallFits ==
  \A c \in Clients :
    /\ at[c] \in {"begin", "spawn"} => call[c] = "start"
    /\ at[c] \in {"stepped", "refused", "failed"} => call[c] = "steps"

\* main calls nothing but Close, at the end.
MainOnlyCloses ==
  /\ call[Main] \in {"none", "close"}
  /\ server \in {"up", "draining"} => at[Main] = "idle" /\ answer[Main] = "none"
  /\ server = "down" => at[Main] = "idle" /\ answer[Main] = "ok"

\* Without a time-out main is alone when it closes the engine, and then nothing ticks.
MainIsLast ==
  /\ server = "failed" => late
  /\ (server \in {"closing", "down"} /\ ~ late) =>
       /\ \A c \in Handlers : at[c] = "idle"
       /\ answer[Main] = "ok" => current = NoLoop

SInv == EInv /\ CallFits /\ MainOnlyCloses /\ MainIsLast

\* A step of a client that has controlMu keeps SInv.
LEMMA ProceedKeepsServer ==
  ASSUME SInv, NEW c \in Clients, Proceed(c), server # "down", UNCHANGED serverVars
  PROVE  CallFits' /\ MainOnlyCloses' /\ MainIsLast'
<1> USE EngineAssumption, MainAssumption
<1>1. at \in [Clients -> ClientPlaces] /\ answer \in [Clients -> Answers]
  BY DEF SInv, EInv, EngineTypeOK
<1>2. /\ at[c] \notin {"idle", "lock"}
      /\ call' = call
      /\ \A d \in Clients : d # c => at'[d] = at[d] /\ answer'[d] = answer[d]
      /\ at'[c] \in {"begin", "spawn"} => call[c] = "start"
      /\ at'[c] \in {"stepped", "refused", "failed"} => call[c] = "steps"
      /\ at'[c] = "idle" \/ answer'[c] = answer[c]
      /\ (at'[c] = "idle" /\ answer'[c] = "ok" /\ call[c] \notin {"start", "steps"}) => at[c] = "act"
      /\ current' # current => call[c] = "start"
  <2> USE <1>1 DEF SInv, CallFits, loopVars
  <2>1. CASE StartRefused(c)  BY <2>1 DEF StartRefused, Return
  <2>2. CASE \E l \in Loops : StartAccepted(c, l)  BY <2>2 DEF StartAccepted, Go
  <2>3. CASE StartController(c)  BY <2>3 DEF StartController, Go
  <2>4. CASE Spawn(c)  BY <2>4 DEF Spawn, Return
  <2>5. CASE LoadRefused(c)  BY <2>5 DEF LoadRefused, Return
  <2>6. CASE CopyCancel(c)  BY <2>6 DEF CopyCancel, Go
  <2>7. CASE Cancel(c)  BY <2>7 DEF Cancel, Go
  <2>8. CASE AwaitDone(c)  BY <2>8 DEF AwaitDone, Go
  <2>9. CASE Act(c)  BY <2>9 DEF Act, Return
  <2>10. CASE StepOnce(c)  BY <2>10 DEF StepOnce, Go
  <2>11. CASE LookAfterStep(c)  BY <2>11 DEF LookAfterStep, Return, Go
  <2>12. CASE LookAfterError(c)  BY <2>12 DEF LookAfterError, Return
  <2>13. CASE StepsRefused(c)  BY <2>13 DEF StepsRefused, Return
  <2> QED
    BY <2>1, <2>2, <2>3, <2>4, <2>5, <2>6, <2>7, <2>8, <2>9, <2>10, <2>11, <2>12, <2>13
       DEF Proceed
<1>3. CallFits'  BY <1>2 DEF SInv, CallFits
<1>4. server' = server /\ late' = late  BY DEF serverVars
<1>5. MainOnlyCloses'
  BY <1>2, <1>4 DEF SInv, MainOnlyCloses
<1>6. MainIsLast'
  <2> SUFFICES ASSUME server \in {"closing", "down"}, ~ late PROVE MainIsLast'
    BY <1>4 DEF SInv, MainIsLast
  <2>1. c = Main  BY <1>2 DEF SInv, MainIsLast, Handlers
  <2>2. \A d \in Handlers : at'[d] = "idle"  BY <1>2, <2>1 DEF SInv, MainIsLast, Handlers
  <2>3. call[c] \notin {"start", "steps"}  BY <2>1 DEF SInv, MainOnlyCloses
  <2>4. current' = current  BY <1>2, <2>3
  <2>5. ASSUME answer'[Main] = "ok" PROVE current = NoLoop
    <3>1. CASE at'[c] = "idle"
      BY <1>2, <2>1, <2>3, <2>5, <3>1 DEF SInv, EInv, StopKnowsTheLoop, PastStop
    <3>2. CASE answer'[c] = answer[c]
      BY <2>1, <2>5, <3>2 DEF SInv, MainIsLast
    <3> QED  BY <1>2, <3>1, <3>2
  <2> QED  BY <1>4, <2>2, <2>4, <2>5 DEF MainIsLast
<1> QED  BY <1>3, <1>5, <1>6

LEMMA ServerNextKeeps == SInv /\ [ServerNext]_allVars => SInv'
<1> SUFFICES ASSUME SInv, [ServerNext]_allVars PROVE SInv'  OBVIOUS
<1> USE EngineAssumption, MainAssumption DEF serverVars
<1>0. EInv'
  BY ServerStepIsEngineStep, EngineNextKeeps DEF SInv
<1>1. at \in [Clients -> ClientPlaces] /\ answer \in [Clients -> Answers]
      /\ call \in [Clients -> Calls \cup {"none"}]
  BY DEF SInv, EInv, EngineTypeOK
<1>2. ASSUME NEW c \in Clients, NEW op \in Calls, NEW n \in 0 .. MaxSteps, Serve(c, op, n)
      PROVE  CallFits' /\ MainOnlyCloses' /\ MainIsLast'
  <2>1. /\ server \in {"up", "failed"} /\ c # Main /\ UNCHANGED <<server, late>>
        /\ \A d \in Clients : d # c =>
             at'[d] = at[d] /\ call'[d] = call[d] /\ answer'[d] = answer[d]
        /\ at'[c] = "lock"
    BY <1>1, <1>2 DEF Serve, Request, Go
  <2> QED  BY <2>1 DEF SInv, CallFits, MainOnlyCloses, MainIsLast
<1>3. CASE Run
  <2> SUFFICES CallFits' /\ MainOnlyCloses' /\ MainIsLast'  BY <1>0 DEF SInv
  <2>1. ASSUME NEW c \in Clients, Lock(c), server # "down", UNCHANGED serverVars
        PROVE  CallFits' /\ MainOnlyCloses' /\ MainIsLast'
    <3>1. /\ at[c] = "lock" /\ at'[c] = "entered"
          /\ \A d \in Clients : d # c => at'[d] = at[d]
          /\ UNCHANGED <<call, answer, server, late, current>>
      BY <1>1, <2>1 DEF Lock, Go, loopVars
    <3> QED  BY <2>1, <3>1 DEF SInv, CallFits, MainOnlyCloses, MainIsLast, Handlers
  <2>2. ASSUME NEW l \in Loops, LoopNext(l), UNCHANGED serverVars
        PROVE  CallFits' /\ MainOnlyCloses' /\ MainIsLast'
    <3>1. /\ UNCHANGED <<at, call, answer, server, late>>
          /\ current' = current \/ current' = NoLoop
      BY <2>2 DEF LoopNext, LoopTick, LoopLook, LoopCancelled, LoopClear, LoopClose, clientVars
    <3> QED  BY <3>1 DEF SInv, CallFits, MainOnlyCloses, MainIsLast
  <2>3. ASSUME Submit, UNCHANGED serverVars
        PROVE  CallFits' /\ MainOnlyCloses' /\ MainIsLast'
    BY <2>3 DEF Submit, loopVars, clientVars, SInv, CallFits, MainOnlyCloses, MainIsLast
  <2> QED  BY <1>3, <2>1, <2>2, <2>3, ProceedKeepsServer DEF Run
<1>4. CASE DeferredClose
  <2> SUFFICES CallFits' /\ MainOnlyCloses' /\ MainIsLast'  BY <1>0 DEF SInv
  <2>1. /\ server \in {"failed", "closing"} /\ UNCHANGED <<server, late, current>>
        /\ \A d \in Clients : d # Main =>
             at'[d] = at[d] /\ call'[d] = call[d] /\ answer'[d] = answer[d]
        /\ at'[Main] = "lock" /\ call'[Main] = "close" /\ answer'[Main] = "none"
    BY <1>1, <1>4 DEF DeferredClose, Request, Go, loopVars
  <2> QED  BY <2>1 DEF SInv, CallFits, MainOnlyCloses, MainIsLast, Handlers
<1>5. CASE Signal \/ ServeFails \/ Drained \/ TimedOut \/ Exit \/ UNCHANGED allVars
  <2>1. UNCHANGED <<at, call, answer, current>>
    BY <1>5 DEF Signal, ServeFails, Drained, TimedOut, Exit, allVars, engineVars, loopVars,
                clientVars
  <2>2. CallFits'  BY <2>1 DEF SInv, CallFits
  <2>3. MainOnlyCloses'
    BY <1>5, <2>1 DEF SInv, MainOnlyCloses, Signal, ServeFails, Drained, TimedOut, Exit, allVars
  <2>4. MainIsLast'
    BY <1>5, <2>1 DEF SInv, MainIsLast, MainOnlyCloses, Signal, ServeFails, Drained, TimedOut,
                      Exit, allVars
  <2> QED  BY <1>0, <2>2, <2>3, <2>4 DEF SInv
<1> QED  BY <1>0, <1>2, <1>3, <1>4, <1>5 DEF ServerNext, SInv

\* When the handlers have returned in time nothing ticks any more as the program
\* ends (main.go:59, 90-94).
THEOREM CleanShutdownCorrect == ServerSpec => []CleanShutdown
<1> USE EngineAssumption, MainAssumption
<1>1. ServerInit => SInv
  BY EngineInitInv
  DEF ServerInit, EngineInit, SInv, CallFits, MainOnlyCloses, MainIsLast
<1>2. SInv => CleanShutdown
  BY DEF SInv, EInv, EngineTypeOK, Ownership, LoopIsNamed, MainOnlyCloses, MainIsLast,
         Handlers, CleanShutdown, Ticking
<1> QED  BY <1>1, <1>2, ServerNextKeeps, PTL DEF ServerSpec
=============================================================================
