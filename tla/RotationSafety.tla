------------------------------ MODULE RotationSafety ------------------------------
(***************************************************************************)
(* Round robin is fair to the nodes, and the loops by which the code finds *)
(* a node find the one that Schedulers says an algorithm selects, however  *)
(* many nodes there are and wherever the cursor is.                        *)
(***************************************************************************)
EXTENDS Rotation, ClusterLemmas

-----------------------------------------------------------------------------
(* Turns *)

\* A number that is a multiple of s and nearer to 0 than s is 0.
LEMMA NoMultipleBetween ==
  ASSUME NEW s \in Nat \ {0}, NEW d \in Int, s * d < s, 0 - s < s * d
  PROVE  d = 0
  OBVIOUS

\* When a node was selected, each of those after it is nearer by the nodes up to it.
LEMMA OthersComeNearer ==
  ASSUME NEW snaps, IsFiniteSet(DOMAIN snaps), DOMAIN snaps \subseteq Nat,
         NEW start \in Nat, NEW n \in DOMAIN snaps, NEW m \in DOMAIN snaps,
         Offset(snaps, start, n) < Offset(snaps, start, m)
  PROVE  Offset(snaps, NextCursor("round-robin", snaps, start, n), m)
           = Offset(snaps, start, m) - Offset(snaps, start, n) - 1
<1> DEFINE size == Cardinality(DOMAIN snaps)
           next == NextCursor("round-robin", snaps, start, n)
           c == start % size
           a == Index(snaps, n)
           b == Index(snaps, m)
<1>1. a \in 0 .. size - 1 /\ b \in 0 .. size - 1
  BY IndexOrder
<1>2. size \in Nat \ {0}
  BY <1>1, FS_CardinalityType
<1>3. next = (a + 1) % size
  BY DEF NextCursor
<1>4. /\ Offset(snaps, start, n) = (a - c) % size
      /\ Offset(snaps, start, m) = (b - c) % size
      /\ Offset(snaps, next, m) = (b - (next % size)) % size
  BY DEF Offset
<1> HIDE DEF size
<1>5. c \in Int
  BY <1>2
<1> HIDE DEF next, c, a, b
<1>6. next \in 0 .. size - 1 /\ next % size = next
  BY <1>1, <1>2, <1>3
<1> DEFINE x == a - c
           y == b - c
           z == b - next
           w == a + 1
<1>7. x \in Int /\ y \in Int /\ z \in Int /\ w \in Int
  BY <1>1, <1>5, <1>6
<1>8. \A v \in Int : v = size * (v \div size) + (v % size) /\ v \div size \in Int
                       /\ v % size \in 0 .. size - 1
  BY <1>2
<1> DEFINE k == (y \div size) - (x \div size) + (w \div size) - (z \div size)
<1>9. (z % size) - ((y % size) - (x % size) - 1) = size * k /\ k \in Int
  <2>1. z = y - x - 1 + w - next
    BY <1>1, <1>5, <1>6
  <2> PICK qx \in Int, qy \in Int, qz \in Int, qw \in Int :
             qx = x \div size /\ qy = y \div size /\ qz = z \div size /\ qw = w \div size
    BY <1>7, <1>8
  <2>2. /\ x = size * qx + (x % size) /\ y = size * qy + (y % size)
        /\ z = size * qz + (z % size) /\ w = size * qw + (w % size)
        /\ x % size \in Int /\ y % size \in Int /\ z % size \in Int
    BY <1>7, <1>8
  <2>3. w % size = next
    BY <1>3
  <2>4. k = qy - qx + qw - qz
    OBVIOUS
  <2> HIDE DEF x, y, z, w, k
  <2>5. size * k = size * qy - size * qx + size * qw - size * qz
    BY <1>2, <2>4
  <2>6. QED
    BY <1>2, <1>6, <1>7, <2>1, <2>2, <2>3, <2>4, <2>5
<1>10. (x % size) < (y % size)
  BY <1>4
<1>11. x % size \in 0 .. size - 1 /\ y % size \in 0 .. size - 1 /\ z % size \in 0 .. size - 1
  BY <1>7, <1>8
<1>12. k = 0
  <2> HIDE DEF x, y, z, k
  <2>1. size * k < size /\ 0 - size < size * k
    BY <1>2, <1>9, <1>10, <1>11
  <2>2. QED
    BY <1>2, <1>9, <2>1, NoMultipleBetween
<1>13. size * 0 = 0
  BY <1>2
<1>14. (z % size) - ((y % size) - (x % size) - 1) = 0
  BY <1>9, <1>12, <1>13
<1>15. z % size = (y % size) - (x % size) - 1
  <2> HIDE DEF x, y, z
  <2> QED BY <1>11, <1>14
<1>16. QED
  BY <1>4, <1>6, <1>15 DEF next

-----------------------------------------------------------------------------
(* The inductive invariant *)

\* The patience of a node suffices for the nodes that come before it.
TurnsAreCounted == \A n \in DOMAIN nodes : Offset(Snaps, cursor, n) <= patience[n]

NodesAreReal ==
  \A n \in DOMAIN nodes :
    /\ nodes[n] \in Node /\ nodes[n].capacity \in Sizes
    /\ \A r \in Resources : nodes[n].allocated[r] \in Nat

RotationTypes ==
  /\ DOMAIN nodes \subseteq NodeIds
  /\ cursor \in Nat
  /\ patience \in [NodeIds -> Int]
  /\ \A m \in NodeIds \ DOMAIN nodes : patience[m] = 0

RotInv == RotationTypes /\ NodesAreReal /\ TurnsAreCounted

\* The snapshots are those of finitely many nodes with numbers for IDs.
LEMMA SnapsAreFinite ==
  ASSUME DOMAIN nodes \subseteq NodeIds
  PROVE  /\ DOMAIN Snaps = DOMAIN nodes /\ DOMAIN Snaps \subseteq Nat
         /\ IsFiniteSet(DOMAIN Snaps) /\ Cardinality(DOMAIN Snaps) \in Nat
<1>1. DOMAIN Snaps = DOMAIN nodes
  BY DEF Snaps
<1>2. IsFiniteSet(DOMAIN nodes) /\ DOMAIN nodes \subseteq Nat
  BY IdsAssumption, FS_Subset
<1>3. QED
  BY <1>1, <1>2, FS_CardinalityType

\* The place of a node in the turn depends on which nodes there are only.
LEMMA TurnsStay ==
  ASSUME RotationTypes, TurnsAreCounted, DOMAIN nodes' = DOMAIN nodes,
         cursor' = cursor, patience' = patience
  PROVE  RotationTypes' /\ TurnsAreCounted'
<1>1. DOMAIN Snaps' = DOMAIN Snaps /\ DOMAIN Snaps = DOMAIN nodes
  BY DEF Snaps
<1>2. \A n : Index(Snaps', n) = Index(Snaps, n)
  BY <1>1 DEF Index
<1>3. \A n : Offset(Snaps', cursor, n) = Offset(Snaps, cursor, n)
  BY <1>1, <1>2, Zenon DEF Offset
<1>4. QED
  BY <1>3 DEF RotationTypes, TurnsAreCounted

\* When the list changes, a node may have to wait for one more round.
LEMMA TurnsAfterChange ==
  ASSUME RotationTypes, TurnsAreCounted, DOMAIN nodes' \subseteq NodeIds, ListChanges
  PROVE  RotationTypes' /\ TurnsAreCounted'
<1> DEFINE others == Others(nodes')
<1>1. /\ DOMAIN Snaps' = DOMAIN nodes' /\ IsFiniteSet(DOMAIN nodes')
      /\ DOMAIN nodes' \subseteq Nat /\ Cardinality(DOMAIN nodes') \in Nat
  BY IdsAssumption, FS_Subset, FS_CardinalityType DEF Snaps
<1>2. others = Cardinality(DOMAIN nodes') - 1 /\ others \in Int
  BY <1>1 DEF Others
<1>3. cursor' = cursor /\ cursor \in Nat
  BY DEF ListChanges, RotationTypes
<1>4. patience' = [m \in NodeIds |-> IF m \in DOMAIN nodes' THEN patience[m] + others ELSE 0]
  BY DEF ListChanges
<1> HIDE DEF others
<1>5. RotationTypes'
  BY <1>2, <1>3, <1>4 DEF RotationTypes
<1>6. \A m \in NodeIds : patience[m] \in Nat
  <2> SUFFICES ASSUME NEW m \in DOMAIN nodes
               PROVE  patience[m] \in Nat
    BY DEF RotationTypes
  <2>1. Offset(Snaps, cursor, m) \in 0 .. Cardinality(DOMAIN nodes) - 1
    BY <1>3, SnapsAreFinite, OffsetOrder DEF RotationTypes
  <2>2. Offset(Snaps, cursor, m) <= patience[m] /\ patience[m] \in Int
    BY DEF TurnsAreCounted, RotationTypes
  <2>3. QED
    BY <2>1, <2>2
<1>7. ASSUME NEW n \in DOMAIN nodes'
      PROVE  (Offset(Snaps, cursor, n) <= patience[n])'
  <2> DEFINE S == Snaps'
             c == cursor'
  <2>1. /\ IsFiniteSet(DOMAIN S) /\ DOMAIN S \subseteq Nat /\ c \in Nat
        /\ DOMAIN S = DOMAIN nodes' /\ n \in DOMAIN S
    BY <1>1, <1>3
  <2> HIDE DEF S, c
  <2>2. Offset(S, c, n) \in 0 .. Cardinality(DOMAIN S) - 1
    BY <2>1, OffsetOrder
  <2>3. patience'[n] = patience[n] + others /\ patience[n] \in Nat
    BY <1>4, <1>6
  <2>4. Offset(S, c, n) \in Int /\ Offset(S, c, n) <= others
    BY <1>1, <1>2, <2>1, <2>2
  <2>5. Offset(S, c, n) <= patience'[n]
    BY <1>2, <2>3, <2>4
  <2>6. QED
    BY <2>5 DEF S, c
<1>8. TurnsAreCounted'
  BY <1>7 DEF TurnsAreCounted
<1>9. QED
  BY <1>5, <1>8

-----------------------------------------------------------------------------
(* The steps *)

LEMMA OfferKeepsTurns ==
  ASSUME RotationTypes, TurnsAreCounted, NEW proc \in Requests, Offer(proc)
  PROVE  RotationTypes' /\ TurnsAreCounted'
<1>1. PICK n \in DOMAIN nodes :
        /\ NextInTurn(Snaps, cursor, proc, n)
        /\ cursor' = NextCursor("round-robin", Snaps, cursor, n)
        /\ nodes' = [nodes EXCEPT ![n].allocated = [r \in Resources |-> @[r] + proc.request[r]]]
        /\ patience' = [m \in NodeIds |->
                          IF m \notin DOMAIN nodes THEN 0
                          ELSE IF m # n /\ m \in Fitting(Snaps, proc)
                                 THEN patience[m] - 1 ELSE Others(nodes)]
  BY DEF Offer
<1> DEFINE size == Cardinality(DOMAIN nodes)
<1>2. /\ DOMAIN Snaps = DOMAIN nodes /\ DOMAIN Snaps \subseteq Nat
      /\ IsFiniteSet(DOMAIN Snaps) /\ size \in Nat
  BY SnapsAreFinite DEF RotationTypes
<1>3. DOMAIN nodes' = DOMAIN nodes
  BY <1>1
<1>4. \A c, m : Offset(Snaps', c, m) = Offset(Snaps, c, m)
  <2>1. DOMAIN Snaps' = DOMAIN Snaps
    BY <1>3 DEF Snaps
  <2>2. \A m : Index(Snaps', m) = Index(Snaps, m)
    BY <2>1 DEF Index
  <2>3. QED
    BY <2>1, <2>2, Zenon DEF Offset
<1>5. cursor \in Nat /\ patience \in [NodeIds -> Int] /\ DOMAIN nodes \subseteq NodeIds
  BY DEF RotationTypes
<1>6. \A m \in DOMAIN nodes : /\ Offset(Snaps, cursor, m) \in 0 .. size - 1
                              /\ Offset(Snaps, cursor, m) = Offset(Snaps, cursor, n) => m = n
  BY <1>2, <1>5, OffsetOrder
<1>7. cursor' \in Nat
  <2>1. Index(Snaps, n) \in 0 .. size - 1
    BY <1>2, IndexOrder
  <2>2. cursor' = (Index(Snaps, n) + 1) % size
    BY <1>1, <1>2 DEF NextCursor
  <2> HIDE DEF size
  <2>3. QED
    BY <1>2, <2>1, <2>2
<1>8. RotationTypes'
  BY <1>1, <1>2, <1>3, <1>5, <1>7 DEF RotationTypes, Others
<1>9. ASSUME NEW m \in DOMAIN nodes
      PROVE  Offset(Snaps, cursor', m) <= patience'[m]
  <2>1. Offset(Snaps, cursor', m) \in 0 .. size - 1
    BY <1>2, <1>7, OffsetOrder
  <2>2. CASE ~ (m # n /\ m \in Fitting(Snaps, proc))
    <3>1. patience'[m] = size - 1
      BY <1>1, <1>5, <2>2 DEF Others
    <3>2. QED
      BY ONLY <1>2, <2>1, <3>1
  <2>3. CASE m # n /\ m \in Fitting(Snaps, proc)
    <3>1. patience'[m] = patience[m] - 1 /\ patience[m] \in Int
      BY <1>1, <1>5, <2>3
    <3>2. Offset(Snaps, cursor, n) < Offset(Snaps, cursor, m)
      <4>1. Offset(Snaps, cursor, n) <= Offset(Snaps, cursor, m)
        BY <1>1, <2>3 DEF NextInTurn
      <4>2. Offset(Snaps, cursor, m) # Offset(Snaps, cursor, n)
        BY <1>6, <2>3
      <4>3. /\ Offset(Snaps, cursor, n) \in 0 .. size - 1
            /\ Offset(Snaps, cursor, m) \in 0 .. size - 1
        BY <1>6
      <4>4. QED
        BY ONLY <4>1, <4>2, <4>3, <1>2
    <3>3. Offset(Snaps, cursor', m) = Offset(Snaps, cursor, m) - Offset(Snaps, cursor, n) - 1
      BY <1>1, <1>2, <1>5, <3>2, OthersComeNearer
    <3>4. Offset(Snaps, cursor, m) <= patience[m]
      BY DEF TurnsAreCounted
    <3>5. /\ Offset(Snaps, cursor, n) \in 0 .. size - 1
          /\ Offset(Snaps, cursor, m) \in 0 .. size - 1
      BY <1>6
    <3>6. QED
      BY ONLY <1>2, <3>1, <3>3, <3>4, <3>5
  <2>4. QED
    BY <2>2, <2>3
<1>10. TurnsAreCounted'
  BY <1>3, <1>4, <1>9 DEF TurnsAreCounted
<1>11. QED
  BY <1>8, <1>10

LEMMA OfferKeepsNodes ==
  ASSUME NodesAreReal, NEW proc \in Requests, Offer(proc)
  PROVE  NodesAreReal'
<1>1. PICK n \in DOMAIN nodes :
        nodes' = [nodes EXCEPT ![n].allocated = [r \in Resources |-> @[r] + proc.request[r]]]
  BY DEF Offer
<1>2. /\ nodes[n] \in Node /\ nodes[n].capacity \in Sizes
      /\ \A r \in Resources : nodes[n].allocated[r] \in Nat
  BY DEF NodesAreReal
<1>3. \A r \in Resources : proc.request[r] \in Nat
  BY RotationAssumption
<1> DEFINE more == [r \in Resources |-> nodes[n].allocated[r] + proc.request[r]]
           node == [nodes[n] EXCEPT !.allocated = more]
<1>4. nodes' = [nodes EXCEPT ![n] = node]
  BY <1>1
<1>5. more \in [Resources -> Nat]
  BY <1>2, <1>3
<1> HIDE DEF more
<1>6. node \in Node /\ node.capacity \in Sizes /\ \A r \in Resources : node.allocated[r] \in Nat
  BY <1>2, <1>5 DEF Node
<1> HIDE DEF node
<1>7. QED
  BY <1>4, <1>6 DEF NodesAreReal

LEMMA EndsKeepsNodes ==
  ASSUME NodesAreReal, NEW n \in NodeIds, Ends(n)
  PROVE  NodesAreReal'
<1>1. nodes[n] \in Node /\ nodes[n].capacity \in Sizes
  BY DEF NodesAreReal, Ends
<1> DEFINE node == [nodes[n] EXCEPT !.allocated = Nothing]
<1>2. nodes' = [nodes EXCEPT ![n] = node]
  BY DEF Ends
<1>3. Nothing \in [Resources -> Int] /\ \A r \in Resources : Nothing[r] \in Nat
  BY DEF Nothing
<1>4. node \in Node /\ node.capacity \in Sizes /\ \A r \in Resources : node.allocated[r] \in Nat
  BY <1>1, <1>3 DEF Node
<1> HIDE DEF node
<1>5. QED
  BY <1>2, <1>4 DEF NodesAreReal

LEMMA TurnsKeepsNodes ==
  ASSUME NodesAreReal, NEW n \in NodeIds, Turns(n)
  PROVE  NodesAreReal'
<1>1. /\ nodes[n] \in Node /\ nodes[n].capacity \in Sizes
      /\ \A r \in Resources : nodes[n].allocated[r] \in Nat
  BY DEF NodesAreReal, Turns
<1> DEFINE status == IF nodes[n].status = "ONLINE" THEN "DRAINING" ELSE "ONLINE"
           node == [nodes[n] EXCEPT !.status = status]
<1>2. nodes' = [nodes EXCEPT ![n] = node]
  BY DEF Turns
<1>3. status \in NodeStatuses
  BY DEF NodeStatuses
<1> HIDE DEF status
<1>4. node \in Node /\ node.capacity \in Sizes /\ \A r \in Resources : node.allocated[r] \in Nat
  BY <1>1, <1>3 DEF Node
<1> HIDE DEF node
<1>5. QED
  BY <1>2, <1>4 DEF NodesAreReal

LEMMA JoinsKeepsNodes ==
  ASSUME NodesAreReal, NEW n \in NodeIds, NEW size \in Sizes, Joins(n, size)
  PROVE  NodesAreReal'
<1> DEFINE node == NewNode(size, 0)
<1>1. size \in [Resources -> Nat \ {0}]
  BY RotationAssumption
<1>2. Nothing \in [Resources -> Int] /\ \A r \in Resources : Nothing[r] \in Nat
  BY DEF Nothing
<1>3. node \in Node /\ node.capacity \in Sizes /\ \A r \in Resources : node.allocated[r] \in Nat
  BY <1>1, <1>2 DEF NewNode, Node, NodeStatuses
<1>4. nodes' = [m \in DOMAIN nodes \cup {n} |-> IF m = n THEN node ELSE nodes[m]]
  BY DEF Joins
<1> HIDE DEF node
<1>5. QED
  BY <1>3, <1>4 DEF NodesAreReal

LEMMA RotInvStep ==
  ASSUME RotInv, [RotationNext]_rotationVars
  PROVE  RotInv'
<1> USE DEF RotInv
<1>1. CASE UNCHANGED rotationVars
  <2>1. nodes' = nodes /\ cursor' = cursor /\ patience' = patience
    BY <1>1 DEF rotationVars
  <2>2. NodesAreReal'
    BY <2>1 DEF NodesAreReal
  <2>3. QED
    BY <2>1, <2>2, TurnsStay
<1>2. CASE \E proc \in Requests : Offer(proc)
  BY <1>2, OfferKeepsTurns, OfferKeepsNodes
<1>3. ASSUME NEW n \in NodeIds, Ends(n)
      PROVE  RotInv'
  <2>1. DOMAIN nodes' = DOMAIN nodes /\ cursor' = cursor /\ patience' = patience
    BY <1>3 DEF Ends
  <2>2. QED
    BY <1>3, <2>1, TurnsStay, EndsKeepsNodes
<1>4. ASSUME NEW n \in NodeIds, Turns(n)
      PROVE  RotInv'
  <2>1. DOMAIN nodes' = DOMAIN nodes /\ cursor' = cursor /\ patience' = patience
    BY <1>4 DEF Turns
  <2>2. QED
    BY <1>4, <2>1, TurnsStay, TurnsKeepsNodes
<1>5. ASSUME NEW n \in NodeIds, NEW size \in Sizes, Joins(n, size)
      PROVE  RotInv'
  <2>1. DOMAIN nodes' \subseteq NodeIds /\ ListChanges
    BY <1>5 DEF Joins, RotationTypes
  <2>2. QED
    BY <1>5, <2>1, TurnsAfterChange, JoinsKeepsNodes
<1>6. ASSUME NEW n \in NodeIds, Leaves(n)
      PROVE  RotInv'
  <2>1. DOMAIN nodes' \subseteq NodeIds /\ ListChanges
    BY <1>6 DEF Leaves, RotationTypes
  <2>2. NodesAreReal'
    BY <1>6 DEF Leaves, NodesAreReal
  <2>3. QED
    BY <2>1, <2>2, TurnsAfterChange
<1>7. QED
  BY <1>1, <1>2, <1>3, <1>4, <1>5, <1>6 DEF RotationNext

LEMMA RotationInvariant == RotationSpec => []RotInv
<1>1. RotationInit => RotInv
  BY DEF RotationInit, RotInv, RotationTypes, NodesAreReal, TurnsAreCounted
<1>2. QED
  BY <1>1, RotInvStep, PTL DEF RotationSpec

\* With any number of nodes, round robin passes over a node that could take each of the
\* processes at most once for every other node of the list, and as often again for every
\* change of the list since its last turn, because the cursor is kept when the list
\* changes (round_robin.go:41-46).
THEOREM EveryoneGetsATurn == RotationSpec => []EveryoneInTurn
<1>1. RotInv => EveryoneInTurn
  <2> SUFFICES ASSUME RotInv, NEW n \in DOMAIN nodes
               PROVE  patience[n] >= 0
    BY DEF EveryoneInTurn
  <2>1. patience[n] \in Int /\ cursor \in Nat
    BY DEF RotInv, RotationTypes
  <2>2. Offset(Snaps, cursor, n) \in 0 .. Cardinality(DOMAIN nodes) - 1
    BY <2>1, SnapsAreFinite, OffsetOrder DEF RotInv, RotationTypes
  <2>3. Offset(Snaps, cursor, n) <= patience[n]
    BY DEF RotInv, TurnsAreCounted
  <2>4. QED
    BY ONLY <2>1, <2>2, <2>3
<1>2. QED
  BY <1>1, RotationInvariant, PTL

-----------------------------------------------------------------------------
(* The loop around the list *)

Searches(from, size, good, answer) ==
  from = [o \in 0 .. size |-> IF o \in good THEN answer[o] ELSE from[o + 1]]

\* A loop that looks at the offsets from 0 and stops at the first that is good, or at
\* the end of the list, answers what is there.
LEMMA SearchStops ==
  ASSUME NEW size \in Nat, NEW good, NEW answer, NEW from,
         Searches(from, size, good, answer),
         NEW stop \in 0 .. size, stop \in good, \A o \in 0 .. stop - 1 : o \notin good
  PROVE  from[0] = answer[stop]
<1> DEFINE bad == {o \in 0 .. stop : from[o] # answer[stop]}
           R == {pq \in bad \X bad : pq[1] > pq[2]}
<1>1. SUFFICES ASSUME bad # {}
               PROVE  FALSE
  <2>1. 0 \in 0 .. stop
    OBVIOUS
  <2>2. QED
    BY <2>1
<1>2. IsFiniteSet(bad) /\ bad \subseteq 0 .. stop
  <2>1. IsFiniteSet(0 .. stop)
    BY FS_Interval
  <2>2. QED
    BY <2>1, FS_Subset
<1>3. \A p, q \in bad : <<p, q>> \in R <=> p > q
  OBVIOUS
<1>4. PICK last \in bad : \A o \in bad : ~ (o > last)
  <2> HIDE DEF bad, R
  <2>1. \A o \in bad : o \in Nat
    BY <1>2
  <2>2. \A o \in bad : <<o, o>> \notin R
    BY <1>3, <2>1
  <2>3. \A p, q, t \in bad : <<p, q>> \in R /\ <<q, t>> \in R => <<p, t>> \in R
    BY <1>3, <2>1
  <2>4. \E o \in bad : \A p \in bad : <<p, o>> \notin R
    BY <1>1, <1>2, <2>2, <2>3, LeastExists
  <2>5. QED
    BY <1>3, <2>4
<1>5. last \in 0 .. stop /\ from[last] # answer[stop]
  OBVIOUS
<1>6. last # stop
  <2>1. from[stop] = answer[stop]
    BY DEF Searches
  <2>2. QED
    BY <1>5, <2>1
<1>7. from[last] = from[last + 1] /\ last + 1 \in 0 .. stop /\ last + 1 > last
  <2>1. last \in 0 .. stop - 1 /\ last \in 0 .. size
    BY <1>5, <1>6
  <2>2. QED
    BY <2>1 DEF Searches
<1>8. last + 1 \in bad
  BY <1>5, <1>7
<1>9. QED
  BY <1>4, <1>7, <1>8

\* There is a function that the loop describes.
LEMMA SearchIsDefined ==
  ASSUME NEW size \in Nat, NEW good, size \in good, NEW answer
  PROVE  \E from : Searches(from, size, good, answer)
<1> DEFINE First(o, q) == q \in o .. size /\ q \in good /\ \A p \in o .. q - 1 : p \notin good
           from == [o \in 0 .. size |-> answer[CHOOSE q : First(o, q)]]
<1>1. ASSUME NEW o \in 0 .. size
      PROVE  from[o] = IF o \in good THEN answer[o] ELSE from[o + 1]
  <2>1. CASE o \in good
    <3>1. First(o, o)
      BY <2>1
    <3>2. \A q : First(o, q) => q = o
      BY <2>1
    <3>3. (CHOOSE q : First(o, q)) = o
      <4> HIDE DEF First
      <4> QED BY <3>1, <3>2
    <3>4. QED
      BY <2>1, <3>3
  <2>2. CASE o \notin good
    <3>1. o + 1 \in 0 .. size
      BY <2>2
    <3>2. \A q : First(o, q) <=> First(o + 1, q)
      <4> SUFFICES ASSUME NEW q
                   PROVE  First(o, q) <=> First(o + 1, q)
        OBVIOUS
      <4>1. ASSUME First(o, q)
            PROVE  First(o + 1, q)
        <5>1. q # o
          BY <2>2, <4>1
        <5>2. QED
          BY <4>1, <5>1
      <4>2. ASSUME First(o + 1, q)
            PROVE  First(o, q)
        <5>1. \A p \in o .. q - 1 : p = o \/ p \in o + 1 .. q - 1
          BY <4>2
        <5>2. q \in o .. size
          BY <4>2
        <5>3. QED
          BY <2>2, <4>2, <5>1, <5>2
      <4>3. QED
        BY <4>1, <4>2
    <3>3. (CHOOSE q : First(o, q)) = (CHOOSE q : First(o + 1, q))
      <4> HIDE DEF First
      <4> QED BY <3>2
    <3>4. /\ from[o] = answer[CHOOSE q : First(o, q)]
          /\ from[o + 1] = answer[CHOOSE q : First(o + 1, q)]
      <4> HIDE DEF First
      <4> QED BY <3>1
    <3>5. from[o] = from[o + 1]
      BY ONLY <3>3, <3>4
    <3>6. QED
      BY ONLY <2>2, <3>5
  <2>3. QED
    BY <2>1, <2>2
<1>2. from = [o \in 0 .. size |-> IF o \in good THEN answer[o] ELSE from[o + 1]]
  <2> DEFINE again == [o \in 0 .. size |-> IF o \in good THEN answer[o] ELSE from[o + 1]]
  <2>1. \A o \in 0 .. size : from[o] = again[o]
    <3> HIDE DEF from
    <3> QED BY <1>1
  <2>2. DOMAIN from = 0 .. size /\ DOMAIN again = 0 .. size
    OBVIOUS
  <2>3. from = [o \in 0 .. size |-> from[o]] /\ again = [o \in 0 .. size |-> again[o]]
    OBVIOUS
  <2> HIDE DEF from, again
  <2>4. from = again
    BY <2>1, <2>3
  <2> QED BY <2>4 DEF again
<1>3. QED
  BY <1>2 DEF Searches

\* The index of a node is where it stands in the list.
LEMMA ListKnowsTheIndex ==
  ASSUME NEW snaps, IsFiniteSet(DOMAIN snaps), DOMAIN snaps \subseteq Nat,
         NEW i \in 1 .. Cardinality(DOMAIN snaps)
  PROVE  /\ InOrder(DOMAIN snaps)[i] \in DOMAIN snaps
         /\ Index(snaps, InOrder(DOMAIN snaps)[i]) = i - 1
<1> DEFINE S == DOMAIN snaps
           k == Cardinality(S)
           list == InOrder(S)
<1>1. /\ list \in [1 .. k -> S] /\ k \in Nat
      /\ \A a, b \in 1 .. k : a < b => list[a] < list[b]
  BY ListIsInOrder, FS_CardinalityType
<1> HIDE DEF list, k, S
<1>2. S \subseteq Nat /\ IsFiniteSet(S) /\ i \in 1 .. k
  BY DEF S, k
<1>3. \A a, b \in 1 .. k : list[a] < list[b] => a < b
  <2> SUFFICES ASSUME NEW a \in 1 .. k, NEW b \in 1 .. k, list[a] < list[b]
               PROVE  a < b
    OBVIOUS
  <2>1. list[a] \in Nat /\ list[b] \in Nat
    BY <1>1, <1>2
  <2>2. a # b /\ ~ (b < a)
    BY <1>1, <2>1
  <2>3. QED
    BY <1>1, <2>2
<1>4. list \in Surjection(1 .. k, S)
  <2>1. \A a, b \in 1 .. k : list[a] = list[b] => a = b
    <3> SUFFICES ASSUME NEW a \in 1 .. k, NEW b \in 1 .. k, list[a] = list[b]
                 PROVE  a = b
      OBVIOUS
    <3>1. list[a] \in Nat
      BY <1>1, <1>2
    <3>2. ~ (a < b) /\ ~ (b < a)
      BY <1>1, <3>1
    <3>3. QED
      BY <1>1, <3>2
  <2>2. list \in Injection(1 .. k, S)
    BY <1>1, <2>1 DEF Injection, IsInjective
  <2>3. IsFiniteSet(1 .. k) /\ Cardinality(1 .. k) = k
    BY <1>1, CountingTo
  <2>4. QED
    BY <1>2, <2>2, <2>3, FS_Injection DEF k
<1> DEFINE below == {m \in S : m < list[i]}
           before == [a \in 1 .. i - 1 |-> list[a]]
<1>5. before \in Bijection(1 .. i - 1, below)
  <2>1. \A a \in 1 .. i - 1 : list[a] \in below
    BY <1>1, <1>2
  <2>2. \A m \in below : \E a \in 1 .. i - 1 : list[a] = m
    <3> SUFFICES ASSUME NEW m \in below
                 PROVE  \E a \in 1 .. i - 1 : list[a] = m
      OBVIOUS
    <3>1. PICK a \in 1 .. k : list[a] = m
      BY <1>4 DEF Surjection
    <3>2. a < i
      BY <1>2, <1>3, <3>1
    <3>3. a \in 1 .. i - 1
      BY <1>2, <3>2
    <3>4. QED
      BY <3>1, <3>3
  <2>3. \A a, b \in 1 .. i - 1 : list[a] = list[b] => a = b
    <3> SUFFICES ASSUME NEW a \in 1 .. i - 1, NEW b \in 1 .. i - 1, list[a] = list[b]
                 PROVE  a = b
      OBVIOUS
    <3>1. a \in 1 .. k /\ b \in 1 .. k
      BY <1>1, <1>2
    <3>2. list[a] \in Nat
      BY <1>1, <1>2, <3>1
    <3>3. ~ (a < b) /\ ~ (b < a)
      BY <1>1, <3>1, <3>2
    <3>4. QED
      BY <3>1, <3>3
  <2> HIDE DEF below
  <2>4. QED
    BY <2>1, <2>2, <2>3 DEF Bijection, Injection, Surjection, IsInjective
<1>6. Cardinality(below) = i - 1
  <2>1. i - 1 \in Nat
    BY <1>1, <1>2
  <2> PICK h \in Nat : h = i - 1
    BY <2>1
  <2>2. IsFiniteSet(1 .. h) /\ Cardinality(1 .. h) = h
    BY CountingTo
  <2> HIDE DEF below, before
  <2>3. before \in Bijection(1 .. h, below)
    BY <1>5
  <2>4. QED
    BY <2>2, <2>3, FS_Bijection DEF ExistsBijection
<1>7. Index(snaps, list[i]) = Cardinality(below)
  BY DEF Index, S
<1>8. list[i] \in S
  BY <1>1, <1>2
<1>9. QED
  BY <1>6, <1>7, <1>8 DEF list, S

\* What the loop inspects as number o is the node that is o nodes after the cursor.
LEMMA WalkInspectsInTurn ==
  ASSUME NEW snaps, IsFiniteSet(DOMAIN snaps), DOMAIN snaps \subseteq Nat,
         NEW start \in Nat, NEW o \in 0 .. Cardinality(DOMAIN snaps) - 1
  PROVE  LET n == InOrder(DOMAIN snaps)[((start + o) % Cardinality(DOMAIN snaps)) + 1] IN
         n \in DOMAIN snaps /\ Offset(snaps, start, n) = o
<1> DEFINE size == Cardinality(DOMAIN snaps)
           a == (start + o) % size
           n == InOrder(DOMAIN snaps)[a + 1]
           c == start % size
           b == (a - c) % size
<1>1. size \in Nat \ {0} /\ o \in 0 .. size - 1
  BY FS_CardinalityType
<1> HIDE DEF size
<1>2. a \in 0 .. size - 1 /\ c \in 0 .. size - 1 /\ b \in 0 .. size - 1
  BY <1>1
<1>3. a + 1 \in 1 .. size
  BY <1>1, <1>2
<1>4. n \in DOMAIN snaps /\ Index(snaps, n) = a
  <2>1. \A i \in 1 .. size : /\ InOrder(DOMAIN snaps)[i] \in DOMAIN snaps
                            /\ Index(snaps, InOrder(DOMAIN snaps)[i]) = i - 1
    BY ListKnowsTheIndex DEF size
  <2> HIDE DEF a
  <2>2. PICK i \in 1 .. size : i = a + 1
    BY <1>3
  <2>3. n \in DOMAIN snaps /\ Index(snaps, n) = i - 1
    BY <2>1, <2>2
  <2>4. i - 1 = a
    BY <1>1, <1>2, <2>2
  <2>5. QED
    BY <2>3, <2>4
<1>5. Offset(snaps, start, n) = b
  BY <1>4 DEF Offset, size
<1>6. PICK qa \in Int, qb \in Int, qc \in Int :
        /\ start + o = size * qa + a
        /\ a - c = size * qb + b
        /\ start = size * qc + c
  <2>1. \A v \in Int : v = size * (v \div size) + (v % size) /\ v \div size \in Int
    BY <1>1
  <2>2. start + o \in Int /\ a - c \in Int /\ start \in Int
    BY <1>1, <1>2
  <2>3. QED
    BY <2>1, <2>2
<1> HIDE DEF a, b, c, n
<1> DEFINE k == qa - qc + qb
<1>7. b - o = size * (0 - k) /\ 0 - k \in Int
  <2>1. size * (0 - k) = size * qc - size * qa - size * qb
    BY <1>1, <1>6
  <2>2. size * qa \in Int /\ size * qb \in Int /\ size * qc \in Int
    BY <1>1, <1>6
  <2>3. QED
    BY <1>1, <1>2, <1>6, <2>1, <2>2
<1>8. b = o
  <2> DEFINE d == 0 - k
  <2> HIDE DEF k
  <2>1. d \in Int /\ size * d < size /\ 0 - size < size * d
    BY <1>1, <1>2, <1>7
  <2>2. d = 0
    BY <1>1, <2>1, NoMultipleBetween
  <2>3. b - o = 0
    BY <1>1, <1>7, <2>2
  <2>4. QED
    BY <1>1, <1>2, <2>3
<1>9. QED
  BY <1>4, <1>5, <1>8 DEF n, a, size

\* The loop of round robin finds the node that is next in turn, or that none fits.
LEMMA WalkFinds ==
  ASSUME NEW snaps, IsFiniteSet(DOMAIN snaps), DOMAIN snaps \subseteq Nat,
         NEW start \in Nat, NEW proc
  PROVE  IF Fitting(snaps, proc) = {} THEN Walk(snaps, start, proc) = NoNode
         ELSE NextInTurn(snaps, start, proc, Walk(snaps, start, proc))
<1> DEFINE list == InOrder(DOMAIN snaps)
           size == Len(list)
           from[offset \in 0 .. size] ==
             IF offset = size THEN NoNode
             ELSE LET n == list[((start + offset) % size) + 1]
                  IN IF Fits(snaps[n], proc) THEN n ELSE from[offset + 1]
<1>1. Walk(snaps, start, proc) = from[0]
  BY DEF Walk
<1> DEFINE at(o) == list[((start + o) % size) + 1]
           good == {o \in 0 .. size : o = size \/ Fits(snaps[at(o)], proc)}
           answer == [o \in 0 .. size |-> IF o = size THEN NoNode ELSE at(o)]
<1>2. from = CHOOSE g : g = [o \in 0 .. size |->
                 IF o = size THEN NoNode
                 ELSE IF Fits(snaps[at(o)], proc) THEN at(o) ELSE g[o + 1]]
  BY DEF from
<1>3. size = Cardinality(DOMAIN snaps) /\ size \in Nat
  <2>1. list \in [1 .. Cardinality(DOMAIN snaps) -> DOMAIN snaps]
    BY ListIsInOrder
  <2>2. Cardinality(DOMAIN snaps) \in Nat
    BY FS_CardinalityType
  <2> HIDE DEF list
  <2>3. QED
    BY <2>1, <2>2
<1>4. \A o \in 0 .. size - 1 : at(o) \in DOMAIN snaps /\ Offset(snaps, start, at(o)) = o
  BY <1>3, WalkInspectsInTurn
<1> HIDE DEF size, from, at, list
<1>5. size \in good /\ \A o \in good \ {size} : o \in 0 .. size - 1 /\ Fits(snaps[at(o)], proc)
  BY <1>3
<1>6. \A o \in 0 .. size - 1 : Fits(snaps[at(o)], proc) => o \in good
  BY <1>3
<1>7. from = CHOOSE g : Searches(g, size, good, answer)
  <2>1. \A g : [o \in 0 .. size |->
                  IF o = size THEN NoNode
                  ELSE IF Fits(snaps[at(o)], proc) THEN at(o) ELSE g[o + 1]]
              = [o \in 0 .. size |-> IF o \in good THEN answer[o] ELSE g[o + 1]]
    BY <1>3
  <2>2. QED
    BY <1>2, <2>1 DEF Searches
<1> HIDE DEF good, answer
<1>8. Searches(from, size, good, answer)
  <2>1. \E g : Searches(g, size, good, answer)
    BY <1>3, <1>5, SearchIsDefined
  <2>2. QED
    BY <1>7, <2>1
<1>9. PICK stop \in good : \A o \in good : stop <= o
  <2> DEFINE R == {pq \in good \X good : pq[1] < pq[2]}
  <2>1. good \subseteq 0 .. size /\ IsFiniteSet(good)
    <3>1. good \subseteq 0 .. size
      BY DEF good
    <3>2. IsFiniteSet(0 .. size)
      BY <1>3, FS_Interval
    <3>3. QED
      BY <3>1, <3>2, FS_Subset
  <2>2. \A p, q \in good : <<p, q>> \in R <=> p < q
    OBVIOUS
  <2> HIDE DEF R
  <2>3. \A o \in good : o \in Nat
    BY <1>3, <2>1
  <2>4. \A o \in good : <<o, o>> \notin R
    BY <2>2, <2>3
  <2>5. \A p, q, t \in good : <<p, q>> \in R /\ <<q, t>> \in R => <<p, t>> \in R
    BY <2>2, <2>3
  <2>6. \E o \in good : \A p \in good : <<p, o>> \notin R
    BY <1>5, <2>1, <2>4, <2>5, LeastExists
  <2>7. PICK o \in good : \A p \in good : ~ (p < o)
    BY <2>2, <2>6
  <2>8. \A p \in good : o <= p
    BY <2>3, <2>7
  <2>9. QED
    BY <2>8
<1>10. stop \in 0 .. size
  BY DEF good
<1>11. from[0] = answer[stop]
  <2>1. \A o \in 0 .. stop - 1 : o \notin good
    BY <1>3, <1>9, <1>10
  <2>2. QED
    BY <1>3, <1>8, <1>9, <1>10, <2>1, SearchStops
<1>12. \A m \in Fitting(snaps, proc) :
         Offset(snaps, start, m) \in good \ {size} /\ stop <= Offset(snaps, start, m)
  <2> SUFFICES ASSUME NEW m \in Fitting(snaps, proc)
               PROVE  LET o == Offset(snaps, start, m) IN o \in good \ {size} /\ stop <= o
    OBVIOUS
  <2> DEFINE o == Offset(snaps, start, m)
  <2>1. m \in DOMAIN snaps /\ Fits(snaps[m], proc)
    BY DEF Fitting
  <2>2. o \in 0 .. size - 1
    BY <1>3, <2>1, OffsetOrder
  <2>3. at(o) = m
    <3>1. at(o) \in DOMAIN snaps /\ Offset(snaps, start, at(o)) = o
      BY <1>4, <2>2
    <3>2. QED
      BY <2>1, <3>1, OffsetOrder
  <2> HIDE DEF o
  <2>4. o \in good /\ o # size
    BY <1>3, <1>6, <2>1, <2>2, <2>3
  <2>5. QED
    BY <1>9, <2>4 DEF o
<1>13. CASE Fitting(snaps, proc) = {}
  <2>1. stop = size
    <3> SUFFICES ASSUME stop # size
                 PROVE  FALSE
      OBVIOUS
    <3>1. stop \in 0 .. size - 1 /\ Fits(snaps[at(stop)], proc)
      BY <1>5, <1>9
    <3>2. at(stop) \in Fitting(snaps, proc)
      BY <1>4, <3>1 DEF Fitting
    <3>3. QED
      BY <1>13, <3>2
  <2>2. answer[stop] = NoNode
    BY <1>3, <2>1 DEF answer
  <2>3. QED
    BY <1>1, <1>11, <1>13, <2>2
<1>14. CASE Fitting(snaps, proc) # {}
  <2>1. stop # size
    <3>1. PICK m \in Fitting(snaps, proc) : TRUE
      BY <1>14
    <3>2. /\ Offset(snaps, start, m) \in good \ {size}
          /\ stop <= Offset(snaps, start, m)
      BY <1>12
    <3>3. Offset(snaps, start, m) \in 0 .. size - 1
      BY <1>5, <3>2
    <3>4. QED
      BY <1>3, <1>10, <3>2, <3>3
  <2>2. stop \in 0 .. size - 1 /\ Fits(snaps[at(stop)], proc)
    BY <1>5, <1>9, <2>1
  <2>3. at(stop) \in Fitting(snaps, proc) /\ Offset(snaps, start, at(stop)) = stop
    BY <1>4, <2>2 DEF Fitting
  <2>4. answer[stop] = at(stop)
    BY <1>10, <2>1 DEF answer
  <2>5. NextInTurn(snaps, start, proc, at(stop))
    BY <1>12, <2>3 DEF NextInTurn
  <2>6. QED
    BY <1>1, <1>11, <1>14, <2>4, <2>5
<1>15. QED
  BY <1>13, <1>14

\* From every state round robin can be in, the loop around the list finds the node that
\* is next in turn, also when the cursor was left by a longer list, and none if none
\* fits (round_robin.go:41-49).
THEOREM WalkIsRight == RotationSpec => []WalkFindsTheNext
<1>1. RotInv => WalkFindsTheNext
  <2> SUFFICES ASSUME RotInv
               PROVE  WalkFindsTheNext
    OBVIOUS
  <2>1. cursor \in Nat /\ DOMAIN Snaps \subseteq Nat /\ IsFiniteSet(DOMAIN Snaps)
    BY SnapsAreFinite DEF RotInv, RotationTypes
  <2>2. QED
    BY <2>1, WalkFinds DEF WalkFindsTheNext
<1>2. QED
  BY <1>1, RotationInvariant, PTL

-----------------------------------------------------------------------------
(* The scan of the list *)

\* Of the nodes of T, b is the one that least loaded selects.
BestOf(snaps, proc, T, b) ==
  LET F == {n \in T : Fits(snaps[n], proc)} IN
  IF F = {} THEN b = NoNode ELSE b \in F /\ \A m \in F \ {b} : Ahead(snaps, b, m)

HaveScores(snaps, T) ==
  IsFiniteSet(T) /\ T \subseteq Nat \ {0} /\ \A n \in T : LoadScore(snaps[n]) \in Int

LEMMA OneIsBest ==
  ASSUME NEW snaps, NEW proc, NEW T, HaveScores(snaps, T)
  PROVE  \E b : BestOf(snaps, proc, T, b) /\ \A c : BestOf(snaps, proc, T, c) => c = b
<1> DEFINE F == {n \in T : Fits(snaps[n], proc)}
           L(n) == LoadScore(snaps[n])
           R == {mn \in F \X F : Ahead(snaps, mn[1], mn[2])}
<1>1. CASE F = {}
  BY <1>1 DEF BestOf
<1>2. CASE F # {}
  <2>1. IsFiniteSet(F) /\ \A n \in F : n \in Nat \ {0} /\ L(n) \in Int
    BY FS_Subset DEF HaveScores
  <2>2. \A m, n \in F : <<m, n>> \in R <=> (L(m) < L(n) \/ (L(m) = L(n) /\ m < n))
    BY DEF Ahead
  <2>3. \A m, n \in F : <<m, n>> \in R <=> Ahead(snaps, m, n)
    OBVIOUS
  <2> HIDE DEF L, R
  <2>4. \A n \in F : <<n, n>> \notin R
    BY <2>1, <2>2
  <2>5. \A m, n, o \in F : <<m, n>> \in R /\ <<n, o>> \in R => <<m, o>> \in R
    BY <2>1, <2>2
  <2>6. \A m, n \in F : m # n => <<m, n>> \in R \/ <<n, m>> \in R
    BY <2>1, <2>2
  <2> HIDE DEF F
  <2>7. PICK b \in F : \A m \in F : <<m, b>> \notin R
    BY <1>2, <2>1, <2>4, <2>5, LeastExists
  <2>8. \A m \in F \ {b} : Ahead(snaps, b, m)
    BY <2>3, <2>6, <2>7
  <2>9. BestOf(snaps, proc, T, b)
    BY <1>2, <2>8 DEF BestOf, F
  <2>10. ASSUME NEW c, BestOf(snaps, proc, T, c)
         PROVE  c = b
    <3>1. c \in F /\ \A m \in F \ {c} : Ahead(snaps, c, m)
      BY <1>2, <2>10 DEF BestOf, F
    <3>2. QED
      BY <2>3, <2>7, <3>1
  <2>11. QED
    BY <2>9, <2>10
<1>3. QED
  BY <1>1, <1>2

\* One more node is looked at.
LEMMA BetterIsBest ==
  ASSUME NEW snaps, NEW proc, NEW T, NEW n, HaveScores(snaps, T \cup {n}),
         NEW best, BestOf(snaps, proc, T, best)
  PROVE  BestOf(snaps, proc, T \cup {n}, Better(snaps, proc, best, n))
<1> DEFINE F == {m \in T : Fits(snaps[m], proc)}
           G == {m \in T \cup {n} : Fits(snaps[m], proc)}
           L(m) == LoadScore(snaps[m])
<1>1. \A m \in T \cup {n} : m \in Nat /\ m # NoNode /\ L(m) \in Int
  BY DEF HaveScores, NoNode
<1>2. \A a, m : Ahead(snaps, a, m) <=> (L(a) < L(m) \/ (L(a) = L(m) /\ a < m))
  BY DEF Ahead
<1>3. IF F = {} THEN best = NoNode
                ELSE best \in F /\ \A m \in F \ {best} : Ahead(snaps, best, m)
  BY DEF BestOf
<1>4. Better(snaps, proc, best, n)
        = IF Fits(snaps[n], proc) /\ (best = NoNode \/ Ahead(snaps, n, best))
            THEN n ELSE best
  BY DEF Better, Ahead
<1>5. F \subseteq T
  OBVIOUS
<1>6. CASE ~ Fits(snaps[n], proc)
  <2>1. G = F
    BY <1>6
  <2>2. QED
    BY <1>4, <1>6, <2>1 DEF BestOf
<1>7. CASE Fits(snaps[n], proc)
  <2>1. G = F \cup {n}
    BY <1>7
  <2> HIDE DEF F, L
  <2> SUFFICES LET b == Better(snaps, proc, best, n) IN
               b \in G /\ \A m \in G \ {b} : Ahead(snaps, b, m)
    BY <2>1 DEF BestOf
  <2> HIDE DEF G
  <2>2. CASE F = {}
    BY <1>3, <1>4, <1>7, <2>1, <2>2
  <2>3. CASE F # {} /\ Ahead(snaps, n, best)
    <3>1. best \in F /\ best \in T /\ Better(snaps, proc, best, n) = n
      BY <1>3, <1>4, <1>5, <1>7, <2>3
    <3>2. \A m \in F : Ahead(snaps, n, m)
      BY <1>1, <1>2, <1>3, <1>5, <2>3, <3>1
    <3>3. QED
      BY <2>1, <3>1, <3>2
  <2>4. CASE F # {} /\ ~ Ahead(snaps, n, best)
    <3>1. best \in F /\ best \in T /\ Better(snaps, proc, best, n) = best
      BY <1>1, <1>3, <1>4, <1>5, <1>7, <2>4
    <3>2. n # best => Ahead(snaps, best, n)
      BY <1>1, <1>2, <2>4, <3>1
    <3>3. QED
      BY <1>3, <2>1, <3>1, <3>2
  <2>5. QED
    BY <2>2, <2>3, <2>4
<1>8. QED
  BY <1>6, <1>7

\* Of finitely many numbers, the last belongs to them.
LEMMA LastBelongs ==
  ASSUME NEW S, IsFiniteSet(S), S # {}, S \subseteq Nat
  PROVE  Max(S) \in S
<1> DEFINE R == {mn \in S \X S : mn[1] > mn[2]}
<1>1. \A m, n \in S : <<m, n>> \in R <=> m > n
  OBVIOUS
<1> HIDE DEF R
<1>2. \E x \in S : \A y \in S : <<y, x>> \notin R
  <2>1. \A x \in S : <<x, x>> \notin R
    BY <1>1
  <2>2. \A x, y, z \in S : <<x, y>> \in R /\ <<y, z>> \in R => <<x, z>> \in R
    BY <1>1
  <2>3. QED
    BY <2>1, <2>2, LeastExists
<1>3. PICK x \in S : \A y \in S : ~ (y > x)
  BY <1>1, <1>2
<1>4. \A y \in S : x >= y
  BY <1>3
<1>5. QED
  BY <1>4 DEF Max

\* The nodes that are listed at the positions s.
At(list, s) == {list[i] : i \in s}

\* The function that the scan computes: what is found at some of the positions.
Finds(found, snaps, proc, list) ==
  found = [s \in SUBSET DOMAIN list |->
             IF s = {} THEN NoNode
             ELSE Better(snaps, proc, found[s \ {Max(s)}], list[Max(s)])]

\* To look at the last of some positions is to look at one node more.
LEMMA LastIsOneMore ==
  ASSUME NEW list, NEW s \in SUBSET DOMAIN list, s # {},
         IsFiniteSet(DOMAIN list), DOMAIN list \subseteq Nat
  PROVE  Max(s) \in s /\ At(list, s) = At(list, s \ {Max(s)}) \cup {list[Max(s)]}
<1>1. IsFiniteSet(s) /\ s \subseteq Nat
  BY FS_Subset
<1>2. Max(s) \in s
  BY <1>1, LastBelongs
<1>3. PICK x \in s : x = Max(s)
  BY <1>2
<1>4. At(list, s) = At(list, s \ {x}) \cup {list[x]}
  BY DEF At
<1>5. QED
  BY <1>3, <1>4

ScansWell(snaps, list) ==
  /\ IsFiniteSet(DOMAIN list) /\ DOMAIN list \subseteq Nat
  /\ \A s \in SUBSET DOMAIN list : HaveScores(snaps, At(list, s))

LEMMA FindsTheBest ==
  ASSUME NEW snaps, NEW proc, NEW list, ScansWell(snaps, list),
         NEW found, Finds(found, snaps, proc, list)
  PROVE  \A s \in SUBSET DOMAIN list : BestOf(snaps, proc, At(list, s), found[s])
<1> DEFINE D == DOMAIN list
           Bad == {s \in SUBSET D : ~ BestOf(snaps, proc, At(list, s), found[s])}
<1>1. SUFFICES ASSUME Bad # {}
               PROVE  FALSE
  OBVIOUS
<1>2. IsFiniteSet(D) /\ D \subseteq Nat /\ \A s \in SUBSET D : HaveScores(snaps, At(list, s))
  BY DEF ScansWell
<1>3. PICK s \in Bad : \A t \in Bad : <<t, s>> \notin StrictSubsetOrdering(D)
  <2>1. IsWellFoundedOn(StrictSubsetOrdering(D), FiniteSubsetsOf(D))
    BY FS_StrictSubsetOrderingWellFounded
  <2>2. Bad \subseteq FiniteSubsetsOf(D)
    BY <1>2, FS_FiniteSubsetsOfFinite
  <2> HIDE DEF Bad
  <2>3. QED
    BY <1>1, <2>1, <2>2, WFMin
<1>4. s \in SUBSET D /\ ~ BestOf(snaps, proc, At(list, s), found[s])
  OBVIOUS
<1>5. s # {}
  <2> SUFFICES ASSUME s = {}
               PROVE  FALSE
    OBVIOUS
  <2>1. At(list, s) = {} /\ found[s] = NoNode
    BY DEF At, Finds
  <2>2. BestOf(snaps, proc, At(list, s), found[s])
    BY <2>1 DEF BestOf
  <2>3. QED
    BY <1>4, <2>2
<1> DEFINE x == Max(s)
           t == s \ {x}
<1>6. x \in s /\ At(list, s) = At(list, t) \cup {list[x]}
  BY <1>2, <1>4, <1>5, LastIsOneMore
<1>7. found[s] = Better(snaps, proc, found[t], list[x])
  BY <1>4, <1>5 DEF Finds
<1> HIDE DEF x
<1>8. t \in SUBSET D /\ <<t, s>> \in StrictSubsetOrdering(D)
  BY <1>4, <1>6 DEF StrictSubsetOrdering
<1>9. BestOf(snaps, proc, At(list, t), found[t])
  BY <1>3, <1>8
<1>10. HaveScores(snaps, At(list, t) \cup {list[x]})
  BY <1>2, <1>4, <1>6
<1>11. BestOf(snaps, proc, At(list, s), found[s])
  <2> HIDE DEF t, Bad
  <2> QED BY <1>6, <1>7, <1>9, <1>10, BetterIsBest
<1>12. QED
  BY <1>4, <1>11

LEMMA ScanIsDefined ==
  ASSUME NEW snaps, NEW proc, NEW list, ScansWell(snaps, list)
  PROVE  \E found : Finds(found, snaps, proc, list)
<1> DEFINE D == DOMAIN list
           found == [s \in SUBSET D |-> CHOOSE b : BestOf(snaps, proc, At(list, s), b)]
           next(s) == IF s = {} THEN NoNode
                      ELSE Better(snaps, proc, found[s \ {Max(s)}], list[Max(s)])
<1>1. IsFiniteSet(D) /\ D \subseteq Nat /\ \A s \in SUBSET D : HaveScores(snaps, At(list, s))
  BY DEF ScansWell
<1>2. \A s \in SUBSET D :
        /\ BestOf(snaps, proc, At(list, s), found[s])
        /\ \A c : BestOf(snaps, proc, At(list, s), c) => c = found[s]
  <2> SUFFICES ASSUME NEW s \in SUBSET D
               PROVE  /\ BestOf(snaps, proc, At(list, s), found[s])
                      /\ \A c : BestOf(snaps, proc, At(list, s), c) => c = found[s]
    OBVIOUS
  <2>1. PICK b : /\ BestOf(snaps, proc, At(list, s), b)
                 /\ \A c : BestOf(snaps, proc, At(list, s), c) => c = b
    BY <1>1, OneIsBest
  <2>2. found[s] = CHOOSE c : BestOf(snaps, proc, At(list, s), c)
    OBVIOUS
  <2> HIDE DEF found
  <2>3. found[s] = b
    BY <2>1, <2>2
  <2>4. QED
    BY <2>1, <2>3
<1>3. ASSUME NEW s \in SUBSET D
      PROVE  found[s] = next(s)
  <2>1. CASE s = {}
    <3>1. At(list, s) = {}
      BY <2>1 DEF At
    <3>2. BestOf(snaps, proc, At(list, s), NoNode)
      BY <3>1 DEF BestOf
    <3> HIDE DEF found
    <3>3. QED
      BY <1>2, <2>1, <3>2
  <2>2. CASE s # {}
    <3> DEFINE x == Max(s)
               t == s \ {x}
    <3>1. x \in s /\ At(list, s) = At(list, t) \cup {list[x]}
      BY <1>1, <2>2, LastIsOneMore
    <3>2. t \in SUBSET D
      OBVIOUS
    <3> HIDE DEF found
    <3>3. BestOf(snaps, proc, At(list, t), found[t])
      BY <1>2, <3>2
    <3>4. HaveScores(snaps, At(list, t) \cup {list[x]})
      BY <1>1, <3>1
    <3>5. next(s) = Better(snaps, proc, found[t], list[x])
      BY <2>2
    <3> HIDE DEF x, t, next
    <3>6. BestOf(snaps, proc, At(list, s), next(s))
      BY <3>1, <3>3, <3>4, <3>5, BetterIsBest
    <3>7. QED
      BY <1>2, <3>6
  <2>3. QED
    BY <2>1, <2>2
<1>4. DOMAIN found = SUBSET D /\ found = [s \in SUBSET D |-> found[s]]
  OBVIOUS
<1>5. [s \in SUBSET D |-> found[s]] = [s \in SUBSET D |-> next(s)]
  <2> HIDE DEF found, next
  <2> QED BY <1>3
<1>6. Finds(found, snaps, proc, list)
  <2>1. found = [s \in SUBSET D |-> next(s)]
    BY <1>4, <1>5
  <2> HIDE DEF found
  <2>2. QED
    BY <2>1 DEF Finds
<1>7. QED
  BY <1>6

\* The scan finds the best of the nodes of the list, in whatever order they are.
LEMMA ScanFinds ==
  ASSUME NEW snaps, NEW proc, NEW list, ScansWell(snaps, list)
  PROVE  BestOf(snaps, proc, At(list, DOMAIN list), Scan(snaps, list, proc))
<1> DEFINE iter[s \in SUBSET DOMAIN list] ==
             IF s = {} THEN NoNode
             ELSE LET x == Max(s)
                  IN Better(snaps, proc, iter[s \ {x}], list[x])
<1>1. Scan(snaps, list, proc) = iter[DOMAIN list]
  BY DEF Scan, FoldLeft, MapThenFoldSet
<1>2. iter = CHOOSE g : Finds(g, snaps, proc, list)
  BY DEF iter, Finds
<1> HIDE DEF iter
<1>3. Finds(iter, snaps, proc, list)
  BY <1>2, ScanIsDefined
<1>4. QED
  BY <1>1, <1>3, FindsTheBest

-----------------------------------------------------------------------------
(* How much the rounding can do *)

LEMMA Scales ==
  ASSUME NEW k \in Nat, NEW x \in Int, NEW y \in Int, x <= y
  PROVE  k * x <= k * y /\ k * x \in Int /\ k * y \in Int
  OBVIOUS

LEMMA Unscales ==
  ASSUME NEW k \in Nat \ {0}, NEW x \in Int, NEW y \in Int, k * x <= k * y
  PROVE  x <= y
<1>1. ASSUME y + 1 <= x
      PROVE  FALSE
  <2>1. k * (y + 1) <= k * x /\ k * (y + 1) = k * y + k
    BY <1>1
  <2>2. k * y \in Int /\ k * x \in Int
    OBVIOUS
  <2>3. QED
    BY <2>1, <2>2
<1>2. QED
  BY <1>1

LEMMA Distributes ==
  ASSUME NEW k \in Int, NEW x \in Int, NEW y \in Int
  PROVE  k * (x + y) = k * x + k * y /\ k * (x - y) = k * x - k * y
  OBVIOUS

\* x is q * d, or off by at most half of e on either side.
Near(q, d, x, e) == 2 * (d * q - x) <= e /\ 2 * (x - d * q) <= e

LEMMA NearestIsNear ==
  ASSUME NEW num \in Int, NEW den \in Nat \ {0}
  PROVE  Nearest(num, den) \in Int /\ Near(Nearest(num, den), den, num, den)
<1> PICK q \in Int, r \in 0 .. den - 1 :
       q = num \div den /\ r = num % den /\ num = den * q + r
  OBVIOUS
<1>1. Nearest(num, den) = IF 2 * r > den \/ (2 * r = den /\ q % 2 = 1) THEN q + 1 ELSE q
  BY DEF Nearest
<1>2. den * (q + 1) = den * q + den
  OBVIOUS
<1> PICK z \in Int : z = den * q
  OBVIOUS
<1>3. CASE Nearest(num, den) = q
  <2>1. 2 * r <= den
    BY <1>1, <1>3
  <2>2. QED
    BY <1>3, <2>1 DEF Near
<1>4. CASE Nearest(num, den) = q + 1
  <2>1. 2 * r >= den
    BY <1>1, <1>4
  <2>2. den * (q + 1) = z + den /\ num = z + r
    BY <1>2
  <2>3. 2 * (z + den - num) <= den /\ 2 * (num - (z + den)) <= den
    BY <2>1, <2>2
  <2>4. QED
    BY <1>4, <2>2, <2>3 DEF Near
<1>5. QED
  BY <1>1, <1>3, <1>4

\* A fraction of no more than limit is off by at most limit / (2 * Steps).
LEMMA RoundedIsNear ==
  ASSUME NEW num \in Int, NEW den \in Nat \ {0}, NEW limit \in Nat,
         Steps <= limit, num <= den * limit
  PROVE  \E q \in Int : /\ q = Rounded(num, den)
                        /\ 2 * (Steps * (den * q - num)) <= den * limit
                        /\ 2 * (Steps * (num - den * q)) <= den * limit
<1> PICK x \in Int, r \in 0 .. den - 1 : x = num \div den /\ num = den * x + r
  OBVIOUS
<1> PICK u \in Nat \ {0} : u = Ulp(x) /\ (u = 1 \/ u * Steps <= x)
  BY UlpFits
<1>1. u * Steps \in Int /\ u * Steps <= limit /\ Steps \in Nat \ {0}
  <2>1. den * x <= den * limit
    <3>1. den * x \in Int /\ den * limit \in Int
      OBVIOUS
    <3>2. QED
      BY <3>1
  <2>2. x <= limit
    BY <2>1, Unscales
  <2>3. QED
    BY <2>2, FloatAssumption
<1> PICK d \in Nat \ {0} : d = den * u
  OBVIOUS
<1> PICK k \in Int : k = Nearest(num, d) /\ Near(k, d, num, d)
  BY NearestIsNear
<1> PICK q \in Int : q = u * k
  OBVIOUS
<1>2. q = Rounded(num, den)
  BY DEF Rounded
<1>3. den * q = d * k
  <2>1. den * (u * k) = (den * u) * k
    OBVIOUS
  <2>2. QED
    BY <2>1
<1> PICK y \in Int : y = den * q
  OBVIOUS
<1>4. 2 * (y - num) <= d /\ 2 * (num - y) <= d
  BY <1>3 DEF Near
<1>5. d * Steps <= den * limit
  <2>1. (den * u) * Steps = den * (u * Steps)
    BY <1>1
  <2>2. den * (u * Steps) <= den * limit
    BY <1>1, Scales
  <2>3. QED
    BY <2>1, <2>2
<1>6. ASSUME NEW e \in Int, 2 * e <= d
      PROVE  2 * (Steps * e) <= den * limit
  <2>1. Steps * (2 * e) <= Steps * d
    BY <1>1, <1>6, Scales
  <2>2. Steps * (2 * e) = 2 * (Steps * e) /\ Steps * d = d * Steps
    BY <1>1
  <2>3. Steps * e \in Int /\ d * Steps \in Int /\ den * limit \in Int
    BY <1>1
  <2>4. QED
    BY <1>5, <2>1, <2>2, <2>3
<1>7. QED
  BY <1>2, <1>4, <1>6

\* A snapshot of a node that hosts no more than it has.
Measured(a) ==
  \A r \in Resources : /\ a.allocated[r] \in Nat /\ a.capacity[r] \in Nat \ {0}
                       /\ a.allocated[r] <= a.capacity[r]

\* Taking one part of a fraction of One.
LEMMA PartIsNear ==
  ASSUME NEW c \in Nat, NEW cap \in Nat \ {0}, c <= cap
  PROVE  \E x \in Int : /\ x = Rounded(c * One, cap)
                        /\ 2 * (Steps * (cap * x - c * One)) <= cap * One
                        /\ 2 * (Steps * (c * One - cap * x)) <= cap * One
                        /\ 2 * x <= 3 * One
<1>1. One \in Nat /\ Steps \in Nat \ {0} /\ Steps <= One
  BY FloatAssumption
<1> PICK n \in Int : n = c * One /\ n <= cap * One
  <2>1. One * c <= One * cap /\ c * One \in Int
    BY <1>1, Scales
  <2>2. QED
    BY <1>1, <2>1
<1> PICK x \in Int : /\ x = Rounded(n, cap)
                     /\ 2 * (Steps * (cap * x - n)) <= cap * One
                     /\ 2 * (Steps * (n - cap * x)) <= cap * One
  BY <1>1, RoundedIsNear
<1>2. 2 * x <= 3 * One
  <2> PICK z \in Int, t \in Nat : z = cap * x /\ t = cap * One
    BY <1>1
  <2>1. 2 * (Steps * (z - n)) <= t /\ n <= t
    OBVIOUS
  <2>2. 2 * (z - n) <= t
    <3>1. CASE z - n <= 0
      BY <3>1
    <3>2. CASE z - n > 0
      <4>1. (z - n) * 1 <= (z - n) * Steps
        BY <1>1, <3>2, Scales
      <4>2. (z - n) * Steps = Steps * (z - n) /\ Steps * (z - n) \in Int
        BY <1>1
      <4>3. QED
        BY <2>1, <4>1, <4>2
    <3>3. QED
      BY <3>1, <3>2
  <2>3. 2 * z <= 3 * t
    BY <2>1, <2>2
  <2>4. cap * (2 * x) = 2 * z /\ cap * (3 * One) = 3 * t
    BY <1>1
  <2>5. QED
    BY <1>1, <2>3, <2>4, Unscales
<1>3. QED
  BY <1>2

\* The score is One times the load Weight / Volume, up to 5 / 2 in Steps.
LEMMA ScoreIsNear ==
  ASSUME NEW a, Measured(a)
  PROVE  /\ LoadScore(a) \in Int /\ Weight(a) \in Int /\ Volume(a) \in Nat \ {0}
         /\ 2 * (Steps * (Volume(a) * LoadScore(a) - One * Weight(a))) <= 5 * (Volume(a) * One)
         /\ 2 * (Steps * (One * Weight(a) - Volume(a) * LoadScore(a))) <= 5 * (Volume(a) * One)
<1> PICK c \in Nat, m \in Nat, cc \in Nat \ {0}, cm \in Nat \ {0} :
           /\ c = a.allocated["cpu"] /\ m = a.allocated["memory"]
           /\ cc = a.capacity["cpu"] /\ cm = a.capacity["memory"]
           /\ c <= cc /\ m <= cm
  BY DEF Measured, Resources
<1> PICK o \in Nat, s \in Nat \ {0} : o = One /\ s = Steps /\ s <= o
  BY FloatAssumption
<1> PICK x \in Int : /\ x = Rounded(c * One, cc)
                     /\ 2 * (s * (cc * x - c * o)) <= cc * o
                     /\ 2 * (s * (c * o - cc * x)) <= cc * o
                     /\ 2 * x <= 3 * o
  BY PartIsNear
<1> PICK y \in Int : /\ y = Rounded(m * One, cm)
                     /\ 2 * (s * (cm * y - m * o)) <= cm * o
                     /\ 2 * (s * (m * o - cm * y)) <= cm * o
                     /\ 2 * y <= 3 * o
  BY PartIsNear
<1> PICK l \in Int : /\ l = Rounded(x + y, 1)
                     /\ 2 * (s * (l - (x + y))) <= 3 * o
                     /\ 2 * (s * ((x + y) - l)) <= 3 * o
  <2>1. x + y \in Int /\ 3 * o \in Nat /\ s <= 3 * o /\ x + y <= 1 * (3 * o) /\ 1 \in Nat \ {0}
    OBVIOUS
  <2>2. \E q \in Int : /\ q = Rounded(x + y, 1)
                       /\ 2 * (Steps * (1 * q - (x + y))) <= 1 * (3 * o)
                       /\ 2 * (Steps * ((x + y) - 1 * q)) <= 1 * (3 * o)
    BY <2>1, RoundedIsNear
  <2>3. QED
    BY <2>2
<1>1. l = LoadScore(a)
  BY DEF LoadScore
<1> PICK w \in Int, v \in Nat \ {0} :
      /\ w = Weight(a) /\ v = Volume(a) /\ w = c * cm + m * cc /\ v = cc * cm
  <2>1. c * cm + m * cc \in Int /\ cc * cm \in Nat \ {0}
    <3>1. \A i, j \in Nat : i * j \in Nat
      OBVIOUS
    <3>2. \A i, j \in Nat \ {0} : i * j \in Nat \ {0}
      OBVIOUS
    <3>3. QED
      BY <3>1, <3>2
  <2>2. Weight(a) = c * cm + m * cc /\ Volume(a) = cc * cm
    BY DEF Weight, Volume
  <2>3. QED
    BY <2>1, <2>2
<1> DEFINE dx == cc * x - c * o
           dy == cm * y - m * o
           dl == l - (x + y)
<1>2. dx \in Int /\ dy \in Int /\ dl \in Int
  OBVIOUS
<1>3. v * l - o * w = v * dl + (cm * dx + cc * dy)
  <2>1. v * dl = v * l - v * x - v * y
    OBVIOUS
  <2>2. cm * dx = v * x - (cm * c) * o
    <3>1. cm * (cc * x) = (cc * cm) * x /\ cm * (c * o) = (cm * c) * o
      OBVIOUS
    <3>2. cm * (cc * x - c * o) = cm * (cc * x) - cm * (c * o)
      <4>1. cc * x \in Int /\ c * o \in Int
        OBVIOUS
      <4>2. QED
        BY ONLY <4>1, Distributes, cc \in Int, cm \in Int
    <3>3. QED
      BY <3>1, <3>2
  <2>3. cc * dy = v * y - (cc * m) * o
    <3>1. cc * (cm * y) = (cc * cm) * y /\ cc * (m * o) = (cc * m) * o
      OBVIOUS
    <3>2. cc * (cm * y - m * o) = cc * (cm * y) - cc * (m * o)
      <4>1. cm * y \in Int /\ m * o \in Int
        OBVIOUS
      <4>2. QED
        BY ONLY <4>1, Distributes, cc \in Int, cm \in Int
    <3>3. QED
      BY <3>1, <3>2
  <2>4. o * w = (cm * c) * o + (cc * m) * o
    OBVIOUS
  <2>5. /\ v * l \in Int /\ v * x \in Int /\ v * y \in Int
        /\ (cm * c) * o \in Int /\ (cc * m) * o \in Int
    OBVIOUS
  <2> PICK vl \in Int, vx \in Int, vy \in Int, co \in Int, mo \in Int :
        /\ vl = v * l /\ vx = v * x /\ vy = v * y
        /\ co = (cm * c) * o /\ mo = (cc * m) * o
    BY <2>5
  <2> HIDE DEF dx, dy, dl
  <2>6. v * l - o * w = vl - (co + mo)
    BY <2>4
  <2>7. v * dl + (cm * dx + cc * dy) = (vl - vx - vy) + ((vx - co) + (vy - mo))
    BY <2>1, <2>2, <2>3
  <2>8. QED
    BY <2>6, <2>7
<1>4. ASSUME NEW k \in Nat, NEW d \in Int, NEW e \in Int, 2 * (s * d) <= e
      PROVE  2 * (s * (k * d)) <= k * e
  <2>1. k * (2 * (s * d)) <= k * e
    <3>1. 2 * (s * d) \in Int
      OBVIOUS
    <3>2. QED
      BY <3>1, <1>4, Scales
  <2>2. k * (2 * (s * d)) = 2 * (s * (k * d))
    OBVIOUS
  <2>3. QED
    BY <2>1, <2>2
<1>5. cm * (cc * o) = v * o /\ cc * (cm * o) = v * o /\ v * (3 * o) = 3 * (v * o) /\ v * o \in Int
  OBVIOUS
<1> HIDE DEF dx, dy, dl
<1>6. ASSUME NEW ex \in Int, NEW ey \in Int, NEW el \in Int,
             2 * (s * ex) <= cc * o, 2 * (s * ey) <= cm * o, 2 * (s * el) <= 3 * o
      PROVE  2 * (s * (v * el + (cm * ex + cc * ey))) <= 5 * (v * o)
  <2>1. /\ 2 * (s * (v * el)) <= v * (3 * o)
        /\ 2 * (s * (cm * ex)) <= cm * (cc * o)
        /\ 2 * (s * (cc * ey)) <= cc * (cm * o)
    <3>1. cc * o \in Int /\ cm * o \in Int /\ 3 * o \in Int
      OBVIOUS
    <3>2. QED
      BY <3>1, <1>4, <1>6
  <2> PICK p \in Int, q \in Int, r \in Int : p = v * el /\ q = cm * ex /\ r = cc * ey
    <3>1. \A i, j \in Int : i * j \in Int
      OBVIOUS
    <3>2. v * el \in Int /\ cm * ex \in Int /\ cc * ey \in Int
      BY <3>1
    <3>3. QED
      BY <3>2
  <2>2. s * (p + (q + r)) = s * p + (s * q + s * r)
    <3>1. s * (p + (q + r)) = s * p + s * (q + r)
      BY Distributes
    <3>2. s * (q + r) = s * q + s * r
      BY Distributes
    <3>3. QED
      BY <3>1, <3>2
  <2>3. s * p \in Int /\ s * q \in Int /\ s * r \in Int
    OBVIOUS
  <2>4. QED
    BY <1>5, <2>1, <2>2, <2>3
<1>7. 2 * (s * (v * l - o * w)) <= 5 * (v * o)
  <2>1. 2 * (s * dx) <= cc * o /\ 2 * (s * dy) <= cm * o /\ 2 * (s * dl) <= 3 * o
    BY DEF dx, dy, dl
  <2>2. 2 * (s * (v * dl + (cm * dx + cc * dy))) <= 5 * (v * o)
    BY <1>2, <1>6, <2>1
  <2>3. QED
    BY <1>3, <2>2
<1>8. 2 * (s * (o * w - v * l)) <= 5 * (v * o)
  <2>1. /\ 2 * (s * (0 - dx)) <= cc * o /\ 2 * (s * (0 - dy)) <= cm * o
        /\ 2 * (s * (0 - dl)) <= 3 * o
    <3>1. /\ 0 - dx = c * o - cc * x /\ 0 - dy = m * o - cm * y /\ 0 - dl = (x + y) - l
      <4>1. c * o \in Int /\ cc * x \in Int /\ m * o \in Int /\ cm * y \in Int
        OBVIOUS
      <4>2. QED
        BY <4>1 DEF dx, dy, dl
    <3>2. QED
      BY <3>1
  <2>2. 0 - dx \in Int /\ 0 - dy \in Int /\ 0 - dl \in Int
    BY <1>2
  <2>3. 2 * (s * (v * (0 - dl) + (cm * (0 - dx) + cc * (0 - dy)))) <= 5 * (v * o)
    BY <1>6, <2>1, <2>2
  <2>4. v * (0 - dl) + (cm * (0 - dx) + cc * (0 - dy)) = 0 - (v * dl + (cm * dx + cc * dy))
    BY <1>2
  <2>5. 0 - (v * l - o * w) = o * w - v * l
    <3>1. v * l \in Int /\ o * w \in Int
      OBVIOUS
    <3>2. QED
      BY <3>1
  <2>6. QED
    BY <1>3, <2>3, <2>4, <2>5
<1>9. QED
  BY <1>1, <1>7, <1>8

\* Of two nodes, that with the lower score is not loaded more than the other by more
\* than the rounding can do.
LEMMA LowerScoreLessLoaded ==
  ASSUME NEW a, NEW b, Measured(a), Measured(b), LoadScore(a) <= LoadScore(b)
  PROVE  Steps * (Weight(a) * Volume(b) - Weight(b) * Volume(a)) <= 5 * (Volume(a) * Volume(b))
<1> PICK o \in Nat \ {0}, s \in Nat \ {0} : o = One /\ s = Steps
  BY FloatAssumption
<1> PICK la \in Int, wa \in Int, va \in Nat \ {0} :
      /\ la = LoadScore(a) /\ wa = Weight(a) /\ va = Volume(a)
      /\ 2 * (s * (o * wa - va * la)) <= 5 * (va * o)
  BY ScoreIsNear
<1> PICK lb \in Int, wb \in Int, vb \in Nat \ {0} :
      /\ lb = LoadScore(b) /\ wb = Weight(b) /\ vb = Volume(b)
      /\ 2 * (s * (vb * lb - o * wb)) <= 5 * (vb * o)
  BY ScoreIsNear
<1>1. \A i, j \in Int : i * j \in Int
  OBVIOUS
<1> PICK v \in Nat \ {0}, x \in Int, y \in Int : v = va * vb /\ x = wa * vb /\ y = wb * va
  <2>1. va * vb \in Nat \ {0} /\ wa * vb \in Int /\ wb * va \in Int
    BY <1>1
  <2>2. QED
    BY <2>1
<1>2. ASSUME NEW k \in Nat, NEW d \in Int, NEW e \in Int, 2 * (s * d) <= e
      PROVE  2 * (s * (k * d)) <= k * e
  <2>1. k * (2 * (s * d)) <= k * e
    <3>1. 2 * (s * d) \in Int
      OBVIOUS
    <3>2. QED
      BY <3>1, <1>2, Scales
  <2>2. k * (2 * (s * d)) = 2 * (s * (k * d))
    OBVIOUS
  <2>3. QED
    BY <2>1, <2>2
<1> PICK p \in Int, q \in Int, r \in Int, t \in Int :
      p = o * x /\ q = o * y /\ r = v * la /\ t = v * lb
  <2>1. o * x \in Int /\ o * y \in Int /\ v * la \in Int /\ v * lb \in Int
    BY <1>1
  <2>2. QED
    BY <2>1
<1>3. 2 * (s * (p - r)) <= 5 * (v * o)
  <2>1. o * wa - va * la \in Int /\ 5 * (va * o) \in Int
    BY <1>1
  <2>2. 2 * (s * (vb * (o * wa - va * la))) <= vb * (5 * (va * o))
    BY <1>2, <2>1
  <2>3. vb * (o * wa - va * la) = p - r
    <3>1. vb * (o * wa) = o * (wa * vb) /\ vb * (va * la) = (va * vb) * la
      OBVIOUS
    <3>2. o * wa \in Int /\ va * la \in Int
      BY <1>1
    <3>3. QED
      BY <3>1, <3>2, Distributes
  <2>4. vb * (5 * (va * o)) = 5 * ((va * vb) * o)
    OBVIOUS
  <2>5. QED
    BY <2>2, <2>3, <2>4
<1>4. 2 * (s * (t - q)) <= 5 * (v * o)
  <2>1. vb * lb - o * wb \in Int /\ 5 * (vb * o) \in Int
    BY <1>1
  <2>2. 2 * (s * (va * (vb * lb - o * wb))) <= va * (5 * (vb * o))
    BY <1>2, <2>1
  <2>3. va * (vb * lb - o * wb) = t - q
    <3>1. va * (vb * lb) = (va * vb) * lb /\ va * (o * wb) = o * (wb * va)
      OBVIOUS
    <3>2. vb * lb \in Int /\ o * wb \in Int
      BY <1>1
    <3>3. QED
      BY <3>1, <3>2, Distributes
  <2>4. va * (5 * (vb * o)) = 5 * ((va * vb) * o)
    OBVIOUS
  <2>5. QED
    BY <2>2, <2>3, <2>4
<1>5. r <= t
  BY Scales
<1>6. 2 * (s * (p - q)) <= 10 * (v * o)
  <2>1. s * (p - q) <= s * ((p - r) + (t - q))
    <3>1. p - q <= (p - r) + (t - q)
      BY <1>5
    <3>2. QED
      BY <3>1, Scales
  <2>2. s * ((p - r) + (t - q)) = s * (p - r) + s * (t - q)
    BY Distributes
  <2>3. /\ s * (p - q) \in Int /\ s * (p - r) \in Int /\ s * (t - q) \in Int
        /\ v * o \in Int
    BY <1>1
  <2>4. QED
    BY ONLY <1>3, <1>4, <2>1, <2>2, <2>3
<1>7. o * (s * (x - y)) <= o * (5 * v)
  <2>1. p - q = o * (x - y)
    BY Distributes
  <2>2. s * (o * (x - y)) = o * (s * (x - y)) /\ 10 * (v * o) = 2 * (o * (5 * v))
    OBVIOUS
  <2>3. o * (s * (x - y)) \in Int /\ o * (5 * v) \in Int
    BY <1>1
  <2>4. QED
    BY ONLY <1>6, <2>1, <2>2, <2>3
<1>8. s * (x - y) <= 5 * v
  <2>1. s * (x - y) \in Int /\ 5 * v \in Int
    BY <1>1
  <2>2. QED
    BY <1>7, <2>1, Unscales
<1>9. QED
  BY <1>8

\* The least loaded, and the best of the nodes of a list that has them all.
LEMMA BestIsLeastLoaded ==
  ASSUME NEW snaps, NEW proc, NEW b
  PROVE  BestOf(snaps, proc, DOMAIN snaps, b)
           <=> IF Fitting(snaps, proc) = {} THEN b = NoNode ELSE LeastLoaded(snaps, proc, b)
  BY DEF BestOf, LeastLoaded, Fitting

\* From every state, and in whatever order the nodes come out of the map, the scan finds
\* the node with the least score of those that fit, the first by its ID if several have
\* it, and none if none fits (least_loaded.go:21-32).  Its load, the sum of its two
\* fractions, is the least up to what rounding can do, whatever the precision
\* (least_loaded.go:39-43).
THEOREM ScanIsRight == RotationSpec => []ScanFindsTheLeast
<1>1. RotInv => ScanFindsTheLeast
  <2> SUFFICES ASSUME RotInv, NEW proc \in Requests, NEW order \in SetToSeqs(DOMAIN nodes)
               PROVE  LET found == Scan(Snaps, order, proc) IN
                      IF Fitting(Snaps, proc) = {} THEN found = NoNode
                      ELSE /\ LeastLoaded(Snaps, proc, found)
                           /\ \A m \in Fitting(Snaps, proc) :
                                Steps * (Weight(Snaps[found]) * Volume(Snaps[m])
                                           - Weight(Snaps[m]) * Volume(Snaps[found]))
                                  <= 5 * (Volume(Snaps[found]) * Volume(Snaps[m]))
    BY DEF ScanFindsTheLeast
  <2> DEFINE D == DOMAIN nodes
             k == Cardinality(D)
  <2>1. /\ DOMAIN Snaps = D /\ D \subseteq Nat \ {0} /\ IsFiniteSet(D) /\ k \in Nat
    BY SnapsAreFinite, IdsAssumption DEF RotInv, RotationTypes
  <2>2. \A n \in D : \A r \in Resources :
          Snaps[n].allocated[r] \in Nat /\ Snaps[n].capacity[r] \in Nat \ {0}
    BY RotationAssumption DEF RotInv, NodesAreReal, Snaps, Snapshot
  <2> HIDE DEF k
  <2>3. order \in [1 .. k -> D] /\ \A i, j \in 1 .. k : i # j => order[i] # order[j]
    BY DEF SetToSeqs, k
  <2>4. IsFiniteSet(1 .. k) /\ Cardinality(1 .. k) = k
    BY <2>1, CountingTo
  <2> HIDE DEF D
  <2>5. At(order, 1 .. k) = D
    <3>1. order \in Injection(1 .. k, D)
      BY <2>3 DEF Injection, IsInjective
    <3>2. order \in Surjection(1 .. k, D)
      BY <2>1, <2>4, <3>1, FS_Injection DEF k
    <3>3. \A n \in D : \E i \in 1 .. k : order[i] = n
      BY <3>2 DEF Surjection
    <3>4. QED
      BY <2>3, <3>3 DEF At
  <2>6. ScansWell(Snaps, order)
    <3>1. DOMAIN order = 1 .. k /\ 1 .. k \subseteq Nat
      BY <2>1, <2>3
    <3>2. ASSUME NEW s \in SUBSET (1 .. k)
          PROVE  HaveScores(Snaps, At(order, s))
      <4>1. At(order, s) \subseteq D
        BY <2>3 DEF At
      <4>2. IsFiniteSet(At(order, s))
        BY <2>1, <4>1, FS_Subset
      <4>3. \A n \in At(order, s) : LoadScore(Snaps[n]) \in Int
        BY <2>2, <4>1, ScoreType
      <4>4. QED
        BY <2>1, <4>1, <4>2, <4>3 DEF HaveScores
    <3>3. QED
      BY <2>4, <3>1, <3>2 DEF ScansWell
  <2>7. BestOf(Snaps, proc, D, Scan(Snaps, order, proc))
    <3>1. DOMAIN order = 1 .. k
      BY <2>3
    <3>2. BestOf(Snaps, proc, At(order, DOMAIN order), Scan(Snaps, order, proc))
      BY <2>6, ScanFinds
    <3>3. QED
      BY <2>5, <3>1, <3>2
  <2>8. \A m \in Fitting(Snaps, proc) : Measured(Snaps[m])
    <3> SUFFICES ASSUME NEW m \in Fitting(Snaps, proc), NEW r \in Resources
                 PROVE  /\ Snaps[m].allocated[r] \in Nat /\ Snaps[m].capacity[r] \in Nat \ {0}
                        /\ Snaps[m].allocated[r] <= Snaps[m].capacity[r]
      BY DEF Measured
    <3>1. /\ Snaps[m].allocated[r] \in Nat /\ Snaps[m].capacity[r] \in Nat \ {0}
          /\ proc.request[r] \in Nat
          /\ Snaps[m].capacity[r] - Snaps[m].allocated[r] >= proc.request[r]
      BY <2>1, <2>2, RotationAssumption DEF Fitting, Fits
    <3>2. QED
      BY <3>1
  <2> DEFINE found == Scan(Snaps, order, proc)
             F == Fitting(Snaps, proc)
  <2>9. IF F = {} THEN found = NoNode ELSE LeastLoaded(Snaps, proc, found)
    BY <2>1, <2>7, BestIsLeastLoaded
  <2>10. ASSUME F # {}, NEW m \in F
         PROVE  found \in F /\ LoadScore(Snaps[found]) <= LoadScore(Snaps[m])
    <3>1. found \in F /\ \A n \in F \ {found} : Ahead(Snaps, found, n)
      BY <2>9, <2>10 DEF LeastLoaded
    <3>2. LoadScore(Snaps[found]) \in Int /\ LoadScore(Snaps[m]) \in Int
      BY <2>8, <3>1, ScoreIsNear
    <3>3. QED
      BY <3>1, <3>2 DEF Ahead
  <2> HIDE DEF found, F
  <2>11. ASSUME F # {}, NEW m \in F
         PROVE  Steps * (Weight(Snaps[found]) * Volume(Snaps[m])
                           - Weight(Snaps[m]) * Volume(Snaps[found]))
                  <= 5 * (Volume(Snaps[found]) * Volume(Snaps[m]))
    BY <2>8, <2>10, <2>11, LowerScoreLessLoaded DEF F
  <2>12. QED
    BY <2>9, <2>11 DEF found, F
<1>2. QED
  BY <1>1, RotationInvariant, PTL
=============================================================================
