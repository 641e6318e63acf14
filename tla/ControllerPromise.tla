---------------------------- MODULE ControllerPromise ----------------------------
(***************************************************************************)
(* The controller keeps the promise of ClusterPromise: what a caller sees  *)
(* of its state, the counters, lists, queues and the phases of a tick left *)
(* out, changes only in the ways that module allows.                       *)
(***************************************************************************)
EXTENDS ControllerProperties

\* The part of a node and of a process that the promise is about.
HostOf(node) == [status |-> node.status, capacity |-> node.capacity]

JobOf(proc) ==
  [state |-> proc.state, node |-> proc.node, remaining |-> proc.remaining,
   restarts |-> proc.restarts, request |-> proc.request, total |-> proc.total,
   policy |-> proc.policy, maxRestarts |-> proc.maxRestarts]

Promise == INSTANCE ClusterPromise
  WITH status <- Seen.status, tick <- Seen.tick,
       hosts <- [n \in DOMAIN Seen.nodes |-> HostOf(Seen.nodes[n])],
       jobs <- [p \in DOMAIN Seen.procs |-> JobOf(Seen.procs[p])]

\* Whatever is commanded and scheduled, each call is one step of the promise
\* and a tick is one step or, when it fails, none: nothing of a tick can be
\* seen half done (lifecycle.go:165-207).
KeepsPromise == Promise!PromiseSpec
=============================================================================
