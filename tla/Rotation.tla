--------------------------------- MODULE Rotation ---------------------------------
(***************************************************************************)
(* The selection of nodes, call by call.  Schedulers says which node an    *)
(* algorithm selects; here are the loops by which the code finds it, over  *)
(* a list of snapshots, and what round robin makes of a sequence of calls  *)
(* between which the nodes fill, empty, fail, come and go.                 *)
(***************************************************************************)
EXTENDS Schedulers, SequencesExt

CONSTANTS
  Requests,     \* inputs: the processes that are offered, as far as a scheduler looks
  Sizes,        \* inputs: the capacities of nodes
  MaxPatience   \* bound: a list that makes a node's patience longer does not change

ASSUME RotationAssumption ==
  /\ \A q \in Requests : q.request \in [Resources -> Nat \ {0}]
  /\ Sizes \subseteq [Resources -> Nat \ {0}]
  /\ MaxPatience \in Nat

VARIABLES
  nodes,     \* the nodes, of which a scheduler gets snapshots
  cursor,    \* RoundRobin.cursor
  patience   \* for each node, how often another may still be selected for a process
             \* that it could have taken: once by every other node of the list in
             \* which it had its last turn, and of each list there was since

rotationVars == <<nodes, cursor, patience>>

Snaps == [n \in DOMAIN nodes |-> Snapshot(nodes[n])]

RotationInit ==
  /\ nodes = [n \in {} |-> 0] /\ cursor = 0
  /\ patience = [n \in NodeIds |-> 0]

\* How many others there are beside a node of the list ns.
Others(ns) == Cardinality(DOMAIN ns) - 1

\* A process is offered to round robin, and takes the node that is selected.
Offer(proc) ==
  \E n \in DOMAIN nodes :
    /\ NextInTurn(Snaps, cursor, proc, n)
    /\ cursor' = NextCursor("round-robin", Snaps, cursor, n)
    /\ nodes' = [nodes EXCEPT ![n].allocated =
                   [r \in Resources |-> @[r] + proc.request[r]]]
    /\ patience' = [m \in NodeIds |->
                      IF m \notin DOMAIN nodes THEN 0
                      ELSE IF m # n /\ m \in Fitting(Snaps, proc)
                             THEN patience[m] - 1 ELSE Others(nodes)]

\* Between two calls: what runs on a node ends, a node changes its status,
\* registers or is removed.  The cursor stays as it is, so that it may then stand at
\* another node: a turn can be lost with every change of the list.
Ends(n) ==
  /\ n \in DOMAIN nodes /\ nodes[n].allocated # Nothing
  /\ nodes' = [nodes EXCEPT ![n].allocated = Nothing]
  /\ UNCHANGED <<cursor, patience>>

Turns(n) ==
  /\ n \in DOMAIN nodes
  /\ nodes' = [nodes EXCEPT ![n].status = IF @ = "ONLINE" THEN "DRAINING" ELSE "ONLINE"]
  /\ UNCHANGED <<cursor, patience>>

ListChanges ==
  /\ cursor' = cursor
  /\ patience' = [m \in NodeIds |-> IF m \in DOMAIN nodes' THEN patience[m] + Others(nodes')
                                                          ELSE 0]
  /\ \A m \in DOMAIN nodes' : patience'[m] <= MaxPatience

Joins(n, size) ==
  /\ n \notin DOMAIN nodes
  /\ nodes' = [m \in DOMAIN nodes \cup {n} |->
                 IF m = n THEN NewNode(size, 0) ELSE nodes[m]]
  /\ ListChanges

Leaves(n) ==
  /\ n \in DOMAIN nodes /\ nodes[n].allocated = Nothing
  /\ nodes' = [m \in DOMAIN nodes \ {n} |-> nodes[m]]
  /\ ListChanges

RotationNext ==
  \/ \E proc \in Requests : Offer(proc)
  \/ \E n \in NodeIds : Ends(n) \/ Turns(n) \/ Leaves(n) \/ \E size \in Sizes : Joins(n, size)

RotationSpec == RotationInit /\ [][RotationNext]_rotationVars

-----------------------------------------------------------------------------
(* The loops of the code *)

\* RoundRobin.SelectNode: from the cursor once around the sorted list.
Walk(snaps, start, proc) ==
  LET ordered == InOrder(DOMAIN snaps)
      size    == Len(ordered)
      from[offset \in 0 .. size] ==
        IF offset = size THEN NoNode
        ELSE LET n == ordered[((start + offset) % size) + 1]
             IN IF Fits(snaps[n], proc) THEN n ELSE from[offset + 1]
  IN from[0]

\* LeastLoaded.SelectNode: the best so far ...
Better(snaps, proc, best, n) ==
  IF /\ Fits(snaps[n], proc)
     /\ \/ best = NoNode
        \/ LoadScore(snaps[n]) < LoadScore(snaps[best])
        \/ LoadScore(snaps[n]) = LoadScore(snaps[best]) /\ n < best
    THEN n ELSE best

\* ... of a list in any order.
Scan(snaps, order, proc) ==
  FoldLeft(LAMBDA best, n : Better(snaps, proc, best, n), NoNode, order)

-----------------------------------------------------------------------------

\* The mean of the two allocated fractions of a is Weight(a) / (2 * Volume(a)).
Weight(a) == a.allocated["cpu"] * a.capacity["memory"]
               + a.allocated["memory"] * a.capacity["cpu"]

Volume(a) == a.capacity["cpu"] * a.capacity["memory"]

\* Round robin does not pass over a node that could take each of the processes until
\* every other node has had its turn, or longer than one more round for each change of
\* the list since: the cursor is a position, and keeps it when nodes join and leave
\* (round_robin.go:41-46).
EveryoneInTurn == \A n \in DOMAIN nodes : patience[n] >= 0

\* The loop around the list finds the node that is next in turn, also when the cursor
\* was left by a longer list, and none if none fits (round_robin.go:41-49).
WalkFindsTheNext ==
  \A proc \in Requests : LET found == Walk(Snaps, cursor, proc) IN
    IF Fitting(Snaps, proc) = {} THEN found = NoNode
                                 ELSE NextInTurn(Snaps, cursor, proc, found)

\* The scan finds the same node whatever order the nodes come in, with the lowest ID of
\* those with the least score: nodes come out of a map (least_loaded.go:21-32).  For all
\* the rounding, its two fractions together exceed those of no other node that fits by
\* more than 5 / Steps.
ScanFindsTheLeast ==
  \A proc \in Requests : \A order \in SetToSeqs(DOMAIN nodes) :
    LET found == Scan(Snaps, order, proc) IN
      IF Fitting(Snaps, proc) = {} THEN found = NoNode
      ELSE /\ LeastLoaded(Snaps, proc, found)
           /\ \A m \in Fitting(Snaps, proc) :
                Steps * (Weight(Snaps[found]) * Volume(Snaps[m])
                           - Weight(Snaps[m]) * Volume(Snaps[found]))
                  <= 5 * (Volume(Snaps[found]) * Volume(Snaps[m]))
=============================================================================
