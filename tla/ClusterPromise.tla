----------------------------- MODULE ClusterPromise -----------------------------
(***************************************************************************)
(* What the controller promises its callers, with one truth and one step   *)
(* per call.  A process says where it runs; there are no counters and no   *)
(* lists of processes to keep in step with that, so that a node has room   *)
(* exactly when the requests of those that name it leave some.  A tick is  *)
(* a single step, and one that fails is none.                              *)
(***************************************************************************)
EXTENDS Simulation, ClusterState

CONSTANTS
  MaxNodes,      \* the limits of the configuration
  MaxProcesses

VARIABLES
  hosts,   \* for each node its status and its capacity
  jobs,    \* for each process its state, node, work left and restarts used
  tick     \* state.CurrentTick

promiseVars == <<status, hosts, jobs, tick>>

-----------------------------------------------------------------------------

Guests(n) == {p \in DOMAIN jobs : jobs[p].node = n}

\* A node is never asked for more than it has, work runs where it can, and limits
\* and restart budgets are kept.
Feasible ==
  /\ Cardinality(DOMAIN hosts) <= MaxNodes /\ Cardinality(DOMAIN jobs) <= MaxProcesses
  /\ \A p \in DOMAIN jobs : jobs[p].restarts <= IF jobs[p].policy = "NEVER" THEN 0
                                                                  ELSE jobs[p].maxRestarts
  /\ \A n \in DOMAIN hosts, r \in Resources :
       Demand(jobs, Guests(n), r) <= hosts[n].capacity[r]
  /\ \A p \in DOMAIN jobs :
       IF jobs[p].state = "RUNNING"
         THEN /\ jobs[p].node \in DOMAIN hosts
              /\ hosts[jobs[p].node].status \in {"ONLINE", "DRAINING"}
         ELSE jobs[p].node = NoNode

AsSubmitted(job) ==
  [job EXCEPT !.state = "READY", !.node = NoNode, !.remaining = job.total, !.restarts = 0]

\* A failure costs a restart and the work done, or is the end.
Failed(job) ==
  IF CanRestart(job)
    THEN [job EXCEPT !.state = "READY", !.node = NoNode, !.remaining = job.total,
                     !.restarts = @ + 1]
    ELSE [job EXCEPT !.state = "FAILED", !.node = NoNode]

\* What a command on one process may make of it.
Commanded(old, new) ==
  \/ /\ old.state = "RUNNING"
     /\ \E s \in {"PAUSED", "WAITING"} : new = [old EXCEPT !.state = s, !.node = NoNode]
  \/ old.state \in {"PAUSED", "WAITING"} /\ new = [old EXCEPT !.state = "READY"]
  \/ /\ old.state \notin Terminal
     /\ new = [old EXCEPT !.state = "KILLED", !.node = NoNode] \/ new = Failed(old)

\* What a tick may make of a process: it takes one unit of the work of those
\* that run, which may have been placed or, by a failure, sent back to the start.
Ticked(old, new) ==
  LET work == IF new.restarts = old.restarts THEN old.remaining ELSE old.total IN
  /\ new.request = old.request /\ new.total = old.total
  /\ new.policy = old.policy /\ new.maxRestarts = old.maxRestarts
  /\ IF old.state \in Terminal
       THEN new = old
       ELSE /\ new.remaining = work - (IF new.state \in {"RUNNING", "TERMINATED"} THEN 1 ELSE 0)
            /\ new.state = "TERMINATED" <=> new.remaining = 0
            /\ new.state \in {"READY", "RUNNING", "TERMINATED", "FAILED", "PAUSED", "WAITING"}
            /\ new.state = "FAILED" => ~ CanRestart(new)
            /\ IF new.restarts = old.restarts
                 THEN /\ old.state \in {"PAUSED", "WAITING"} => new.state \in {old.state, "FAILED"}
                      /\ new.state \in {"PAUSED", "WAITING"} => new.state = old.state
                      /\ old.state = "RUNNING" => new.state # "READY"
                      /\ old.state = "RUNNING" /\ new.state = "RUNNING" => new.node = old.node
                 ELSE /\ new.policy = "ON_FAILURE"
                      /\ new.restarts \in old.restarts .. new.maxRestarts
                      /\ new.state \notin {"PAUSED", "WAITING"}

-----------------------------------------------------------------------------

PromiseInit ==
  /\ SimInit /\ tick = 0
  /\ hosts = [n \in {} |-> 0] /\ jobs = [p \in {} |-> 0]

SimCommand ==
  /\ MarkStarted \/ MarkPaused \/ MarkFinished
  /\ UNCHANGED <<hosts, jobs, tick>>

\* A node joins empty, and leaves empty.
Join(n) ==
  /\ n \notin DOMAIN hosts
  /\ DOMAIN hosts' = DOMAIN hosts \cup {n}
  /\ hosts'[n].status = "ONLINE"
  /\ \A m \in DOMAIN hosts : hosts'[m] = hosts[m]
  /\ UNCHANGED <<status, jobs, tick>>

Leave(n) ==
  /\ n \in DOMAIN hosts /\ Guests(n) = {}
  /\ hosts' = [m \in DOMAIN hosts \ {n} |-> hosts[m]]
  /\ UNCHANGED <<status, jobs, tick>>

\* A node changes its status; work stays on it while it is up, and fails with it.
Turn(n) ==
  /\ n \in DOMAIN hosts
  /\ \E s \in NodeStatuses :
       /\ hosts' = [hosts EXCEPT ![n].status = s]
       /\ s \in {"OFFLINE", "RECOVERING"} => Guests(n) = {}
       /\ jobs' = [p \in DOMAIN jobs |->
                     IF s = "FAILED" /\ p \in Guests(n) THEN Failed(jobs[p]) ELSE jobs[p]]
  /\ UNCHANGED <<status, tick>>

Submitted(p) ==
  /\ p \notin DOMAIN jobs
  /\ DOMAIN jobs' = DOMAIN jobs \cup {p}
  /\ jobs'[p] = AsSubmitted(jobs'[p])
  /\ \A q \in DOMAIN jobs : jobs'[q] = jobs[q]
  /\ MarkSubmitted
  /\ UNCHANGED <<hosts, tick>>

JobCommand(p) ==
  /\ p \in DOMAIN jobs
  /\ DOMAIN jobs' = DOMAIN jobs
  /\ Commanded(jobs[p], jobs'[p])
  /\ \A q \in DOMAIN jobs \ {p} : jobs'[q] = jobs[q]
  /\ UNCHANGED <<status, hosts, tick>>

\* Everything at once, or nothing.
Tick ==
  /\ MarkTicked
  /\ tick' = tick + 1
  /\ DOMAIN hosts' = DOMAIN hosts
  /\ \A n \in DOMAIN hosts :
       hosts'[n] = hosts[n] \/ hosts'[n] = [hosts[n] EXCEPT !.status = "FAILED"]
  /\ DOMAIN jobs \subseteq DOMAIN jobs'
  /\ \A p \in DOMAIN jobs' :
       Ticked(IF p \in DOMAIN jobs THEN jobs[p] ELSE AsSubmitted(jobs'[p]), jobs'[p])

\* Another cluster takes the place of this one: an empty one, or that of a scenario.
Replacement ==
  /\ MarkReplaced
  /\ tick' = 0
  /\ \A n \in DOMAIN hosts' : hosts'[n].status = "ONLINE"
  /\ \A p \in DOMAIN jobs' : jobs'[p] = AsSubmitted(jobs'[p])

PromiseNext ==
  /\ \/ SimCommand \/ Tick \/ Replacement
     \/ \E n \in NodeIds : Join(n) \/ Leave(n) \/ Turn(n)
     \/ \E p \in ProcIds : Submitted(p) \/ JobCommand(p)
  /\ Feasible'

PromiseSpec == PromiseInit /\ [][PromiseNext]_promiseVars
=============================================================================
