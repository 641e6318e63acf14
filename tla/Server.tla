--------------------------------- MODULE Server ---------------------------------
(***************************************************************************)
(* cmd/server: run starts the HTTP server, waits for a signal or for the   *)
(* server to fail, shuts the server down with a time limit, and closes the *)
(* engine in a deferred call.  The other clients of the engine are the     *)
(* handlers of requests.                                                   *)
(***************************************************************************)
EXTENDS Engine

CONSTANT Main   \* the client that is the goroutine of main

ASSUME MainAssumption == Main \in Clients

VARIABLES
  server,   \* "up", "draining", "failed", "closing" or "down"
  late      \* run went on although handlers may still be at work

serverVars == <<server, late>>
allVars    == <<engineVars, serverVars>>

Handlers == Clients \ {Main}

ServerInit == EngineInit /\ server = "up" /\ late = FALSE

\* New requests are served until Shutdown; also after ListenAndServe has failed.
Serve(c, op, ticks) ==
  /\ server \in {"up", "failed"}
  /\ c # Main /\ op # "close"
  /\ Request(c, op, ticks)
  /\ UNCHANGED serverVars

Signal ==
  /\ server = "up" /\ server' = "draining"
  /\ UNCHANGED <<engineVars, late>>

ServeFails ==
  /\ server = "up" /\ server' = "failed"
  /\ late' = TRUE
  /\ UNCHANGED engineVars

\* Shutdown returns once every handler has, or when its ten seconds are over.
Drained ==
  /\ server = "draining" /\ server' = "closing"
  /\ \A c \in Handlers : at[c] = "idle"
  /\ UNCHANGED <<engineVars, late>>

TimedOut ==
  /\ server = "draining" /\ server' = "closing"
  /\ late' = TRUE
  /\ UNCHANGED engineVars

\* Fault: the engine is not closed.
NoDeferredClose ==
  /\ server \in {"failed", "closing"} /\ server' = "down"
  /\ UNCHANGED <<engineVars, late>>

\* The deferred Close.
DeferredClose ==
  /\ server \in {"failed", "closing"}
  /\ answer[Main] # "ok"
  /\ Request(Main, "close", 1)
  /\ UNCHANGED serverVars

Exit ==
  /\ server \in {"failed", "closing"} /\ server' = "down"
  /\ at[Main] = "idle" /\ answer[Main] = "ok"
  /\ UNCHANGED <<engineVars, late>>

\* The steps of goroutines that are under way; all end with the program.
Run ==
  /\ server # "down"
  /\ \/ \E c \in Clients : Lock(c) \/ Proceed(c)
     \/ \E l \in Loops : LoopNext(l)
     \/ Submit
  /\ UNCHANGED serverVars

ServerNext ==
  \/ \E c \in Clients, op \in Calls, n \in 0 .. MaxSteps : Serve(c, op, n)
  \/ Signal \/ ServeFails \/ Drained \/ TimedOut \/ DeferredClose \/ Exit
  \/ Run

OnceUp(A) == server # "down" /\ A /\ UNCHANGED serverVars

ServerFairness ==
  /\ WF_allVars(TimedOut) /\ WF_allVars(DeferredClose) /\ WF_allVars(Exit)
  /\ \A c \in Clients : WF_allVars(OnceUp(Proceed(c))) /\ SF_allVars(OnceUp(Lock(c)))
  /\ \A l \in Loops : /\ WF_allVars(OnceUp(LoopNext(l)))
                      /\ SF_allVars(OnceUp(LoopCancelled(l)))

ServerSpec == ServerInit /\ [][ServerNext]_allVars /\ ServerFairness

-----------------------------------------------------------------------------

\* When the handlers have returned in time nothing ticks any more as the program
\* ends, whatever they had started (main.go:59, 90-94).
CleanShutdown ==
  (server = "down" /\ ~ late) =>
    /\ controlMu = NoClient
    /\ \A l \in Loops : ~ Ticking(l)

\* A program that is told to stop, or whose listener failed, ends: Close gets
\* controlMu in the end, and its wait for the loop is over (main.go:59, 82-94).
ShutdownEnds == server \in {"draining", "failed"} ~> server = "down"
=============================================================================
