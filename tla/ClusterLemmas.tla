------------------------------ MODULE ClusterLemmas ------------------------------
(***************************************************************************)
(* Facts about the operators of ClusterState and Schedulers: how the       *)
(* demand of a set of processes changes when one joins or leaves it (the   *)
(* sum is a cardinality, so they come from the laws of finite sets), that  *)
(* each order a scheduler chooses by has one first element, and how sums   *)
(* that are written as a number of units are split and put together.       *)
(***************************************************************************)
EXTENDS Schedulers, FiniteSetTheorems, TLAPS

\* There are k numbers from 1 to k.
LEMMA CountingTo ==
  ASSUME NEW k \in Nat
  PROVE  IsFiniteSet(1 .. k) /\ Cardinality(1 .. k) = k
<1>1. 1 \in Int /\ k \in Int
  OBVIOUS
<1>2. /\ IsFiniteSet(1 .. k)
      /\ Cardinality(1 .. k) = IF 1 > k THEN 0 ELSE k - 1 + 1
  BY <1>1, FS_Interval, Zenon
<1>3. (IF 1 > k THEN 0 ELSE k - 1 + 1) = k
  OBVIOUS
<1>4. QED
  BY ONLY <1>2, <1>3

\* The units one process asks for are finitely many, as many as it requests.
LEMMA UnitsCount ==
  ASSUME NEW ps, NEW p, NEW r, ps[p].request[r] \in Nat
  PROVE  /\ IsFiniteSet(Units(ps, p, r))
         /\ Cardinality(Units(ps, p, r)) = ps[p].request[r]
<1>1. IsFiniteSet({p}) /\ Cardinality({p}) = 1
  BY FS_Singleton
<1> PICK k \in Nat : k = ps[p].request[r]
  OBVIOUS
<1>2. IsFiniteSet(1 .. k) /\ Cardinality(1 .. k) = k
  BY CountingTo
<1>3. IsFiniteSet({p} \X (1 .. k)) /\ Cardinality({p} \X (1 .. k)) = 1 * k
  <2> DEFINE A == {p}
             B == 1 .. k
  <2>1. IsFiniteSet(A) /\ Cardinality(A) = 1 /\ IsFiniteSet(B) /\ Cardinality(B) = k
    BY <1>1, <1>2
  <2> HIDE DEF A, B
  <2>2. /\ IsFiniteSet(A \X B)
        /\ Cardinality(A \X B) = Cardinality(A) * Cardinality(B)
    BY <2>1, FS_Product
  <2>3. Cardinality(A \X B) = 1 * k
    BY <2>1, <2>2
  <2> QED BY <2>2, <2>3 DEF A, B
<1>4. QED
  BY <1>3 DEF Units

\* The units of finitely many processes are finitely many.
LEMMA UnitsFinite ==
  ASSUME NEW ps, NEW S, IsFiniteSet(S), NEW r,
         \A p \in S : ps[p].request[r] \in Nat
  PROVE  IsFiniteSet(UNION {Units(ps, p, r) : p \in S})
<1> DEFINE all == {Units(ps, p, r) : p \in S}
           f == [p \in S |-> Units(ps, p, r)]
<1>1. f \in Surjection(S, all)
  BY DEF Surjection
<1>2. IsFiniteSet(all)
  <2> HIDE DEF all, f
  <2> QED BY <1>1, FS_Surjection
<1>3. \A T \in all : IsFiniteSet(T)
  BY UnitsCount
<1>4. QED
  <2> HIDE DEF all
  <2>1. IsFiniteSet(UNION all) BY <1>2, <1>3, FS_UNION
  <2> QED BY <2>1 DEF all

\* Nobody asks for nothing.
LEMMA DemandOfNobody ==
  ASSUME NEW ps, NEW r
  PROVE  Demand(ps, {}, r) = 0
<1>1. UNION {Units(ps, p, r) : p \in {}} = {}
  OBVIOUS
<1>2. QED
  BY <1>1, FS_EmptySet DEF Demand

\* Demand depends on the requests of the members only.
LEMMA DemandCongruence ==
  ASSUME NEW ps, NEW qs, NEW S, NEW r,
         \A p \in S : qs[p].request = ps[p].request
  PROVE  Demand(qs, S, r) = Demand(ps, S, r)
<1>1. \A p \in S : Units(qs, p, r) = Units(ps, p, r)
  BY DEF Units
<1>2. {Units(qs, p, r) : p \in S} = {Units(ps, p, r) : p \in S}
  BY <1>1
<1>3. QED
  BY <1>2 DEF Demand

\* A process that joins a set adds its request to the demand of the set.
LEMMA DemandJoins ==
  ASSUME NEW ps, NEW S, IsFiniteSet(S), NEW p, p \notin S, NEW r,
         \A q \in S \cup {p} : ps[q].request[r] \in Nat
  PROVE  /\ Demand(ps, S \cup {p}, r) = Demand(ps, S, r) + ps[p].request[r]
         /\ Demand(ps, S, r) \in Nat
<1> DEFINE old == UNION {Units(ps, q, r) : q \in S}
           new == Units(ps, p, r)
<1>1. UNION {Units(ps, q, r) : q \in S \cup {p}} = old \cup new
  OBVIOUS
<1>2. old \cap new = {}
  BY DEF Units
<1>3. IsFiniteSet(old)
  BY UnitsFinite
<1>4. IsFiniteSet(new) /\ Cardinality(new) = ps[p].request[r]
  BY UnitsCount
<1> HIDE DEF old, new
<1>5. Cardinality(old) \in Nat /\ Cardinality(new) \in Nat
  BY <1>3, <1>4, FS_CardinalityType
<1>6. Cardinality(old \cup new) = Cardinality(old) + Cardinality(new)
  <2>1. Cardinality(old \cap new) = 0 BY <1>2, FS_EmptySet
  <2>2. Cardinality(old \cup new)
          = Cardinality(old) + Cardinality(new) - Cardinality(old \cap new)
    BY <1>3, <1>4, FS_Union
  <2> QED BY <2>1, <2>2, <1>5
<1>7. QED
  BY <1>1, <1>4, <1>5, <1>6 DEF Demand, old

\* A process that leaves a set takes its request from the demand of the set.
LEMMA DemandLeaves ==
  ASSUME NEW ps, NEW S, IsFiniteSet(S), NEW p \in S, NEW r,
         \A q \in S : ps[q].request[r] \in Nat
  PROVE  /\ Demand(ps, S \ {p}, r) = Demand(ps, S, r) - ps[p].request[r]
         /\ Demand(ps, S \ {p}, r) \in Nat
<1> DEFINE rest == S \ {p}
<1>1. IsFiniteSet(rest)
  BY FS_RemoveElement
<1>2. S = rest \cup {p} /\ p \notin rest
  OBVIOUS
<1> HIDE DEF rest
<1>3. /\ Demand(ps, rest \cup {p}, r) = Demand(ps, rest, r) + ps[p].request[r]
      /\ Demand(ps, rest, r) \in Nat
  BY <1>1, <1>2, DemandJoins
<1>4. Demand(ps, rest \cup {p}, r) = Demand(ps, S, r)
  BY <1>2
<1>5. /\ Demand(ps, rest, r) = Demand(ps, S, r) - ps[p].request[r]
      /\ Demand(ps, rest, r) \in Nat
  <2>1. ps[p].request[r] \in Nat
    OBVIOUS
  <2> QED BY <1>3, <1>4, <2>1
<1>6. QED
  BY <1>5 DEF rest

-----------------------------------------------------------------------------
(* One element of a finite set comes first in a strict order *)

\* Were there nonempty subsets without a least element, a smallest of them would
\* have one: that of the set without any one of its elements, or the element.
LEMMA LeastExists ==
  ASSUME NEW S, IsFiniteSet(S), S # {}, NEW R,
         \A x \in S : <<x, x>> \notin R,
         \A x, y, z \in S : <<x, y>> \in R /\ <<y, z>> \in R => <<x, z>> \in R
  PROVE  \E x \in S : \A y \in S : <<y, x>> \notin R
<1> DEFINE Least(A) == \E x \in A : \A y \in A : <<y, x>> \notin R
           Bad == {A \in SUBSET S : A # {} /\ ~ Least(A)}
<1>1. SUFFICES ASSUME Bad # {}
               PROVE  FALSE
  <2>1. S \notin Bad => Least(S)
    OBVIOUS
  <2>2. QED
    BY <2>1
<1>2. PICK A \in Bad : \A B \in Bad : <<B, A>> \notin StrictSubsetOrdering(S)
  <2>1. IsWellFoundedOn(StrictSubsetOrdering(S), FiniteSubsetsOf(S))
    BY FS_StrictSubsetOrderingWellFounded
  <2>2. Bad \subseteq FiniteSubsetsOf(S)
    BY FS_FiniteSubsetsOfFinite
  <2> HIDE DEF Bad
  <2>3. QED
    BY <1>1, <2>1, <2>2, WFMin
<1>3. PICK a \in A : TRUE
  BY <1>2
<1> DEFINE B == A \ {a}
<1>4. <<B, A>> \in StrictSubsetOrdering(S)
  BY <1>3 DEF StrictSubsetOrdering
<1>5. B \notin Bad
  BY <1>2, <1>4
<1>6. CASE B = {}
  <2>1. A = {a}
    BY <1>3, <1>6
  <2>2. Least(A)
    BY <1>2, <2>1
  <2>3. QED
    BY <1>2, <2>2
<1>7. CASE B # {}
  <2>1. PICK b \in B : \A y \in B : <<y, b>> \notin R
    BY <1>2, <1>5, <1>7
  <2>2. CASE <<a, b>> \in R
    <3>1. \A y \in A : <<y, a>> \notin R
      BY <1>2, <1>3, <2>1, <2>2
    <3>2. QED
      BY <1>2, <1>3, <3>1
  <2>3. CASE <<a, b>> \notin R
    <3>1. \A y \in A : <<y, b>> \notin R
      BY <2>1, <2>3
    <3>2. QED
      BY <1>2, <2>1, <3>1
  <2>4. QED
    BY <2>2, <2>3
<1>8. QED
  BY <1>6, <1>7

\* What holds at 0 and with a number at the next one holds up to the last.
LEMMA UpToTheLast ==
  ASSUME NEW last \in Nat, NEW S, 0 \in S, \A i \in 1 .. last : i - 1 \in S => i \in S
  PROVE  \A i \in 0 .. last : i \in S
<1> DEFINE Bad == (0 .. last) \ S
           R == {xy \in Bad \X Bad : xy[1] < xy[2]}
<1>1. SUFFICES ASSUME Bad # {}
               PROVE  FALSE
  OBVIOUS
<1>2. IsFiniteSet(Bad)
  <2>1. IsFiniteSet(0 .. last) /\ Bad \subseteq 0 .. last
    BY FS_Interval
  <2>2. QED
    BY <2>1, FS_Subset
<1>3. \A x, y \in Bad : <<x, y>> \in R <=> x < y
  OBVIOUS
<1>4. Bad \subseteq Nat
  OBVIOUS
<1>5. PICK x \in Bad : \A y \in Bad : ~ (y < x)
  <2> HIDE DEF Bad, R
  <2>1. \A y \in Bad : <<y, y>> \notin R
    BY <1>3, <1>4
  <2>2. \A u, v, w \in Bad : <<u, v>> \in R /\ <<v, w>> \in R => <<u, w>> \in R
    BY <1>3, <1>4
  <2>3. \E v \in Bad : \A y \in Bad : <<y, v>> \notin R
    BY <1>1, <1>2, <2>1, <2>2, LeastExists
  <2>4. QED
    BY <1>3, <2>3
<1>6. x \in 1 .. last /\ x - 1 \in 0 .. last /\ x - 1 \notin Bad
  BY <1>5
<1>7. QED
  BY <1>5, <1>6

\* If any two elements are comparable, exactly one precedes all others.
LEMMA OneComesFirst ==
  ASSUME NEW S, IsFiniteSet(S), S # {}, NEW R,
         \A x \in S : <<x, x>> \notin R,
         \A x, y, z \in S : <<x, y>> \in R /\ <<y, z>> \in R => <<x, z>> \in R,
         \A x, y \in S : x # y => <<x, y>> \in R \/ <<y, x>> \in R
  PROVE  Cardinality({x \in S : \A y \in S \ {x} : <<x, y>> \in R}) = 1
<1>1. PICK x \in S : \A y \in S : <<y, x>> \notin R
  BY LeastExists
<1>2. \A y \in S \ {x} : <<x, y>> \in R
  BY <1>1
<1>3. {z \in S : \A y \in S \ {z} : <<z, y>> \in R} = {x}
  BY <1>1, <1>2
<1>4. QED
  BY <1>3, FS_Singleton

-----------------------------------------------------------------------------
(* The ready queue *)

\* Priorities and dates are numbers, so any two processes can be compared.
LEMMA PriorityType ==
  ASSUME NEW proc \in Process, NEW now \in Nat
  PROVE  EffectivePriority(proc, now) \in Int
<1>1. proc.priority \in Int /\ proc.lastReady \in Nat
  BY DEF Process
<1>2. (IF now < proc.lastReady THEN 0 ELSE now - proc.lastReady) \div AgingInterval \in Int
  BY <1>1, AgingAssumption
<1>3. QED
  BY <1>1, <1>2 DEF EffectivePriority

\* Whatever the algorithm, one process of a nonempty ready list is the first.
LEMMA OneIsNext ==
  ASSUME NEW ps, NEW S, IsFiniteSet(S), S # {}, S \subseteq ProcIds,
         \A p \in S : ps[p] \in Process, NEW now \in Nat, NEW a
  PROVE  Cardinality({p \in S : \A q \in S \ {p} : Before(a, ps, now, p, q)}) = 1
<1> DEFINE ep(p) == EffectivePriority(ps[p], now)
           R == {pq \in S \X S : Before(a, ps, now, pq[1], pq[2])}
<1>1. \A p \in S : p \in Nat /\ ps[p].submitted \in Nat /\ ep(p) \in Int
  BY PriorityType, IdsAssumption DEF Process
<1>2. \A p, q \in S :
        Before(a, ps, now, p, q)
          <=> IF a = "priority-aware"
                THEN ep(p) > ep(q) \/ (ep(p) = ep(q) /\ Older(ps, p, q))
                ELSE Older(ps, p, q)
  BY DEF Before
<1> HIDE DEF ep
<1>3. \A p \in S : ~ Before(a, ps, now, p, p)
  BY <1>1, <1>2 DEF Older
<1>4. \A p, q, r \in S : Before(a, ps, now, p, q) /\ Before(a, ps, now, q, r)
                           => Before(a, ps, now, p, r)
  BY <1>1, <1>2 DEF Older
<1>5. \A p, q \in S : p # q => Before(a, ps, now, p, q) \/ Before(a, ps, now, q, p)
  BY <1>1, <1>2 DEF Older
<1>6. \A p, q \in S : <<p, q>> \in R <=> Before(a, ps, now, p, q)
  OBVIOUS
<1> HIDE DEF R
<1>7. Cardinality({p \in S : \A q \in S \ {p} : <<p, q>> \in R}) = 1
  BY <1>3, <1>4, <1>5, <1>6, OneComesFirst
<1>8. {p \in S : \A q \in S \ {p} : <<p, q>> \in R}
        = {p \in S : \A q \in S \ {p} : Before(a, ps, now, p, q)}
  BY <1>6
<1>9. QED
  BY <1>7, <1>8

-----------------------------------------------------------------------------
(* The least loaded node *)

\* Of the distances between floats, one is that of the floats about x.
LEMMA UlpFits ==
  ASSUME NEW x \in Int
  PROVE  /\ Ulp(x) \in Ulps /\ Ulp(x) \in Nat \ {0}
         /\ Ulp(x) = 1 \/ Ulp(x) * Steps <= x
<1> DEFINE S == {v \in Ulps : v * Steps <= x}
           R == {vw \in S \X S : vw[1] > vw[2]}
           Good(u) == /\ u = 1 \/ u * Steps <= x
                      /\ \A v \in Ulps : v * Steps <= x => v <= u
<1>1. \E u \in Ulps : Good(u)
  <2>1. CASE S = {}
    BY <2>1, FloatAssumption
  <2>2. CASE S # {}
    <3>1. \A v \in S : v \in 1 .. x
      <4> SUFFICES ASSUME NEW v \in S
                   PROVE  v \in 1 .. x
        OBVIOUS
      <4>1. v \in Nat \ {0} /\ Steps \in Nat \ {0} /\ v * Steps <= x
        BY FloatAssumption
      <4>2. v * 1 <= v * Steps
        BY <4>1
      <4>3. QED
        BY <4>1, <4>2
    <3>2. IsFiniteSet(S)
      BY <3>1, FS_Interval, FS_Subset, 1 \in Int
    <3>3. \A v, w \in S : <<v, w>> \in R <=> v > w
      OBVIOUS
    <3> HIDE DEF S, R
    <3>4. \A v \in S : <<v, v>> \notin R
      BY <3>1, <3>3
    <3>5. \A u, v, w \in S : <<u, v>> \in R /\ <<v, w>> \in R => <<u, w>> \in R
      BY <3>1, <3>3
    <3>6. PICK u \in S : \A v \in S : <<v, u>> \notin R
      BY <2>2, <3>2, <3>4, <3>5, LeastExists
    <3>7. ASSUME NEW v \in S
          PROVE  v <= u
      <4>1. v \in Int /\ u \in Int
        BY <3>1
      <4>2. ~ (v > u)
        BY <3>3, <3>6
      <4>3. QED
        BY <4>1, <4>2
    <3>8. u \in Ulps /\ Good(u)
      BY <3>7 DEF S
    <3>9. QED
      BY <3>8
  <2>3. QED
    BY <2>1, <2>2
<1>2. Ulp(x) \in Ulps /\ Good(Ulp(x))
  BY <1>1, Zenon DEF Ulp
<1>3. QED
  BY <1>2, FloatAssumption

LEMMA RoundedType ==
  ASSUME NEW num \in Int, NEW den \in Nat \ {0}
  PROVE  Rounded(num, den) \in Int
<1> PICK x \in Int : x = num \div den
  OBVIOUS
<1> PICK u \in Nat \ {0} : u = Ulp(x)
  BY UlpFits
<1> PICK d \in Nat \ {0} : d = den * u
  OBVIOUS
<1>1. Nearest(num, d) \in Int
  BY DEF Nearest
<1>2. QED
  BY <1>1 DEF Rounded

\* A snapshot, or a node, has a score.
LEMMA ScoreType ==
  ASSUME NEW a,
         \A r \in Resources : a.allocated[r] \in Int /\ a.capacity[r] \in Nat \ {0}
  PROVE  LoadScore(a) \in Int
<1>1. /\ a.allocated["cpu"] * One \in Int /\ a.allocated["memory"] * One \in Int
      /\ a.capacity["cpu"] \in Nat \ {0} /\ a.capacity["memory"] \in Nat \ {0}
  BY FloatAssumption DEF Resources
<1>2. PICK x \in Int, y \in Int :
        /\ x = Rounded(a.allocated["cpu"] * One, a.capacity["cpu"])
        /\ y = Rounded(a.allocated["memory"] * One, a.capacity["memory"])
  BY <1>1, RoundedType
<1>3. QED
  BY <1>2, RoundedType DEF LoadScore

\* Of the nodes that fit, one is the least loaded and the first of its like.
LEMMA OneIsLeastLoaded ==
  ASSUME NEW ns, IsFiniteSet(DOMAIN ns), DOMAIN ns \subseteq NodeIds,
         \A n \in DOMAIN ns : ns[n] \in Node,
         NEW snaps, snaps = [n \in DOMAIN ns |-> Snapshot(ns[n])],
         NEW proc, Fitting(snaps, proc) # {}
  PROVE  Cardinality({n \in Fitting(snaps, proc) : LeastLoaded(snaps, proc, n)}) = 1
<1> DEFINE F == Fitting(snaps, proc)
           L(n) == LoadScore(snaps[n])
           R == {mn \in F \X F : Ahead(snaps, mn[1], mn[2])}
<1>1. F \subseteq DOMAIN ns /\ IsFiniteSet(F)
  BY FS_Subset DEF Fitting
<1>2. \A n \in F : n \in Nat /\ L(n) \in Int
  <2> SUFFICES ASSUME NEW n \in F
               PROVE  n \in Nat /\ L(n) \in Int
    OBVIOUS
  <2>1. n \in Nat /\ ns[n] \in Node
    BY <1>1, IdsAssumption
  <2>2. \A r \in Resources :
          snaps[n].allocated[r] \in Int /\ snaps[n].capacity[r] \in Nat \ {0}
    BY <1>1, <2>1 DEF Node, Snapshot
  <2>3. QED
    BY <2>1, <2>2, ScoreType
<1>3. \A m, n \in F : <<m, n>> \in R <=> (L(m) < L(n) \/ (L(m) = L(n) /\ m < n))
  BY DEF Ahead
<1>4. \A m, n \in F : <<m, n>> \in R <=> Ahead(snaps, m, n)
  OBVIOUS
<1> HIDE DEF L, R
<1>5. \A n \in F : <<n, n>> \notin R
  BY <1>2, <1>3
<1>6. \A l, m, n \in F : <<l, m>> \in R /\ <<m, n>> \in R => <<l, n>> \in R
  BY <1>2, <1>3
<1>7. \A m, n \in F : m # n => <<m, n>> \in R \/ <<n, m>> \in R
  BY <1>2, <1>3
<1> HIDE DEF F
<1>8. Cardinality({n \in F : \A m \in F \ {n} : <<n, m>> \in R}) = 1
  <2>1. F # {}
    BY DEF F
  <2>2. QED
    BY <1>1, <1>5, <1>6, <1>7, <2>1, OneComesFirst
<1>9. {n \in F : LeastLoaded(snaps, proc, n)}
        = {n \in F : \A m \in F \ {n} : <<n, m>> \in R}
  BY <1>4 DEF LeastLoaded, F
<1>10. QED
  BY <1>8, <1>9 DEF F

-----------------------------------------------------------------------------
(* The next node in turn *)

LEMMA SameResidue ==
  ASSUME NEW x \in Int, NEW y \in Int, NEW s \in Nat \ {0},
         x % s = y % s, x - y < s, y - x < s
  PROVE  x = y
<1> DEFINE d == (x \div s) - (y \div s)
<1>1. /\ x = s * (x \div s) + (x % s) /\ y = s * (y \div s) + (y % s)
      /\ x \div s \in Int /\ y \div s \in Int /\ x % s \in Int
  OBVIOUS
<1>2. x - y = s * d /\ d \in Int
  BY <1>1
<1> HIDE DEF d
<1>3. d = 0
  BY <1>2
<1>4. QED
  BY <1>2, <1>3

\* The index of a node in the sorted list is one of the positions of the list,
\* and the list keeps the order of the nodes.
LEMMA IndexOrder ==
  ASSUME NEW snaps, IsFiniteSet(DOMAIN snaps), DOMAIN snaps \subseteq Nat,
         NEW n \in DOMAIN snaps
  PROVE  /\ Index(snaps, n) \in 0 .. Cardinality(DOMAIN snaps) - 1
         /\ \A m \in DOMAIN snaps : m < n => Index(snaps, m) < Index(snaps, n)
<1> DEFINE D == DOMAIN snaps
           Below(k) == {m \in D : m < k}
<1>1. \A k : Below(k) \subseteq D /\ IsFiniteSet(Below(k)) /\ Cardinality(Below(k)) \in Nat
  BY FS_Subset, FS_CardinalityType
<1>2. Cardinality(D) \in Nat
  BY FS_CardinalityType
<1>3. Cardinality(Below(n)) < Cardinality(D)
  <2>1. Below(n) # D
    OBVIOUS
  <2>2. /\ Cardinality(Below(n)) <= Cardinality(D)
        /\ Cardinality(D) = Cardinality(Below(n)) => D = Below(n)
    BY <1>1, FS_Subset
  <2> HIDE DEF D, Below
  <2>3. QED
    BY <1>1, <1>2, <2>1, <2>2
<1>4. ASSUME NEW m \in D, m < n
      PROVE  Cardinality(Below(m)) < Cardinality(Below(n))
  <2>1. Below(m) \subseteq Below(n) /\ Below(m) # Below(n)
    BY <1>4
  <2>2. /\ Cardinality(Below(m)) <= Cardinality(Below(n))
        /\ Cardinality(Below(n)) = Cardinality(Below(m)) => Below(n) = Below(m)
    BY <1>1, <2>1, FS_Subset
  <2> HIDE DEF D, Below
  <2>3. QED
    BY <1>1, <2>1, <2>2
<1>5. QED
  BY <1>1, <1>2, <1>3, <1>4 DEF Index

\* Finitely many numbers can be listed in order.
LEMMA ListIsInOrder ==
  ASSUME NEW S, IsFiniteSet(S), S \subseteq Nat
  PROVE  /\ InOrder(S) \in [1 .. Cardinality(S) -> S]
         /\ \A i, j \in 1 .. Cardinality(S) : i < j => InOrder(S)[i] < InOrder(S)[j]
<1> DEFINE k == Cardinality(S)
           snaps == [n \in S |-> 0]
           place == [n \in S |-> Index(snaps, n) + 1]
           list == [i \in 1 .. k |-> CHOOSE n \in S : place[n] = i]
<1>1. k \in Nat
  BY FS_CardinalityType
<1>2. \A n \in S : /\ Index(snaps, n) \in 0 .. k - 1
                   /\ \A m \in S : m < n => Index(snaps, m) < Index(snaps, n)
  <2>1. DOMAIN snaps = S
    OBVIOUS
  <2> HIDE DEF snaps
  <2>2. QED
    BY <2>1, IndexOrder
<1> HIDE DEF k, snaps
<1>3. place \in [S -> 1 .. k]
  BY <1>1, <1>2
<1>4. \A m, n \in S : m < n => place[m] < place[n]
  BY <1>1, <1>2
<1> HIDE DEF place
<1>5. place \in Injection(S, 1 .. k)
  <2>1. \A m, n \in S : place[m] = place[n] => m = n
    <3> SUFFICES ASSUME NEW m \in S, NEW n \in S, place[m] = place[n]
                 PROVE  m = n
      OBVIOUS
    <3>1. place[m] \in Int /\ place[n] \in Int /\ m \in Nat /\ n \in Nat
      BY <1>3
    <3>2. ~ (m < n) /\ ~ (n < m)
      BY <1>4, <3>1
    <3>3. QED
      BY <3>1, <3>2
  <2>2. QED
    BY <1>3, <2>1 DEF Injection, IsInjective
<1>6. IsFiniteSet(1 .. k) /\ Cardinality(1 .. k) = k
  BY <1>1, CountingTo
<1>7. \A i \in 1 .. k : \E n \in S : place[n] = i
  <2>1. place \in Surjection(S, 1 .. k)
    BY <1>5, <1>6, FS_Injection DEF k
  <2>2. QED
    BY <2>1 DEF Surjection
<1>8. \A i \in 1 .. k : list[i] \in S /\ place[list[i]] = i
  BY <1>7
<1>9. list \in [1 .. k -> S]
  BY <1>8
<1>10. \A i, j \in 1 .. k : i < j => list[i] < list[j]
  <2> HIDE DEF list
  <2> SUFFICES ASSUME NEW i \in 1 .. k, NEW j \in 1 .. k, i < j
               PROVE  list[i] < list[j]
    OBVIOUS
  <2>1. list[i] \in S /\ list[j] \in S /\ place[list[i]] = i /\ place[list[j]] = j
    BY <1>8
  <2>2. list[i] \in Nat /\ list[j] \in Nat
    BY <2>1
  <2>3. list[i] # list[j]
    BY <2>1
  <2>4. ~ (list[j] < list[i])
    <3> SUFFICES ASSUME list[j] < list[i]
                 PROVE  FALSE
      OBVIOUS
    <3>1. place[list[j]] < place[list[i]]
      BY <1>4, <2>1
    <3>2. j < i
      BY <2>1, <3>1
    <3>3. QED
      BY <1>1, <3>2
  <2>5. QED
    BY <2>2, <2>3, <2>4
<1>11. QED
  <2> HIDE DEF list
  <2> QED BY <1>9, <1>10 DEF InOrder, k

\* Round robin inspects one node after the other.
LEMMA OffsetOrder ==
  ASSUME NEW snaps, IsFiniteSet(DOMAIN snaps), DOMAIN snaps \subseteq Nat,
         NEW cursor \in Nat, NEW n \in DOMAIN snaps
  PROVE  /\ Offset(snaps, cursor, n) \in 0 .. Cardinality(DOMAIN snaps) - 1
         /\ \A m \in DOMAIN snaps :
              Offset(snaps, cursor, m) = Offset(snaps, cursor, n) => m = n
<1> DEFINE size == Cardinality(DOMAIN snaps)
           c == cursor % size
<1>1. \A m \in DOMAIN snaps : Index(snaps, m) \in 0 .. size - 1
  BY IndexOrder
<1>2. size \in Nat \ {0}
  BY <1>1, FS_CardinalityType
<1> HIDE DEF size
<1>3. c \in Int
  BY <1>2
<1> HIDE DEF c
<1>4. \A m \in DOMAIN snaps : Offset(snaps, cursor, m) = (Index(snaps, m) - c) % size
  BY DEF Offset, size, c
<1>5. Offset(snaps, cursor, n) \in 0 .. size - 1
  BY <1>1, <1>2, <1>3, <1>4
<1>6. ASSUME NEW m \in DOMAIN snaps, Offset(snaps, cursor, m) = Offset(snaps, cursor, n)
      PROVE  m = n
  <2> DEFINE x == Index(snaps, m) - c
             y == Index(snaps, n) - c
  <2>1. x \in Int /\ y \in Int /\ x - y < size /\ y - x < size
    BY <1>1, <1>2, <1>3
  <2>2. x % size = y % size
    BY <1>4, <1>6
  <2>3. x = y
    <3> HIDE DEF x, y
    <3> QED BY <1>2, <2>1, <2>2, SameResidue
  <2>4. Index(snaps, m) = Index(snaps, n)
    BY <1>1, <1>3, <2>3
  <2>5. ~ (m < n) /\ ~ (n < m)
    BY <1>1, <2>4, IndexOrder
  <2>6. QED
    BY <2>5
<1>7. QED
  BY <1>5, <1>6 DEF size

\* Of the nodes that fit, one is the next in turn.
LEMMA OneIsNextInTurn ==
  ASSUME NEW snaps, IsFiniteSet(DOMAIN snaps), DOMAIN snaps \subseteq Nat,
         NEW cursor \in Nat, NEW proc, Fitting(snaps, proc) # {}
  PROVE  Cardinality({n \in Fitting(snaps, proc) : NextInTurn(snaps, cursor, proc, n)}) = 1
<1> DEFINE F == Fitting(snaps, proc)
           O(n) == Offset(snaps, cursor, n)
           R == {mn \in F \X F : O(mn[1]) < O(mn[2])}
<1>1. F \subseteq DOMAIN snaps /\ IsFiniteSet(F)
  BY FS_Subset DEF Fitting
<1>2. \A m \in F : O(m) \in Int
  BY <1>1, OffsetOrder
<1>3. \A m, n \in F : O(m) = O(n) => m = n
  BY <1>1, OffsetOrder
<1>4. \A m, n \in F : <<m, n>> \in R <=> O(m) < O(n)
  OBVIOUS
<1>5. F # {}
  OBVIOUS
<1>6. \A n \in F : NextInTurn(snaps, cursor, proc, n) <=> \A m \in F : O(n) <= O(m)
  BY DEF NextInTurn
<1> HIDE DEF F, O, R
<1>7. Cardinality({n \in F : \A m \in F \ {n} : <<n, m>> \in R}) = 1
  <2>1. \A m \in F : <<m, m>> \notin R
    BY <1>2, <1>4
  <2>2. \A l, m, n \in F : <<l, m>> \in R /\ <<m, n>> \in R => <<l, n>> \in R
    BY <1>2, <1>4
  <2>3. \A m, n \in F : m # n => <<m, n>> \in R \/ <<n, m>> \in R
    BY <1>2, <1>3, <1>4
  <2>4. QED
    BY <1>1, <1>5, <2>1, <2>2, <2>3, OneComesFirst
<1>8. \A n \in F : NextInTurn(snaps, cursor, proc, n) <=> \A m \in F \ {n} : <<n, m>> \in R
  <2>1. \A m, n \in F : m # n => (<<n, m>> \in R <=> O(n) <= O(m))
    BY <1>2, <1>3, <1>4
  <2>2. \A n \in F : O(n) <= O(n)
    BY <1>2
  <2>3. QED
    BY <1>6, <2>1, <2>2
<1>9. {n \in F : NextInTurn(snaps, cursor, proc, n)}
        = {n \in F : \A m \in F \ {n} : <<n, m>> \in R}
  BY <1>8
<1>10. QED
  BY <1>7, <1>9 DEF F

-----------------------------------------------------------------------------
(* Sums, written as the number of units *)

LEMMA BlocksFinite ==
  ASSUME NEW S, IsFiniteSet(S), NEW f, NEW g, \A d \in S : g[d] \in Int
  PROVE  IsFiniteSet(UNION {{f[d]} \X (1 .. g[d]) : d \in S})
<1> DEFINE block == [d \in S |-> {f[d]} \X (1 .. g[d])]
           all == {block[d] : d \in S}
<1>1. all = {{f[d]} \X (1 .. g[d]) : d \in S}
  OBVIOUS
<1>2. \A T \in all : IsFiniteSet(T)
  <2>1. ASSUME NEW d \in S
        PROVE  IsFiniteSet({f[d]} \X (1 .. g[d]))
    <3>1. IsFiniteSet({f[d]})
      BY FS_Singleton
    <3>2. IsFiniteSet(1 .. g[d])
      BY FS_Interval
    <3>3. QED
      BY <3>1, <3>2, FS_Product
  <2>2. QED
    BY <2>1, <1>1
<1>3. block \in Surjection(S, all)
  BY DEF Surjection
<1> HIDE DEF block
<1>4. IsFiniteSet(all)
  <2> HIDE DEF all
  <2>1. QED
    BY <1>3, FS_Surjection
<1>5. IsFiniteSet(UNION all)
  <2> HIDE DEF all
  <2>1. QED
    BY <1>2, <1>4, FS_UNION
<1>6. QED
  BY <1>1, <1>5

Pieces(k, I) == UNION {{i} \X (1 .. k[i]) : i \in I}
Together(U, I) == UNION {U[i] : i \in I}

\* Where each of the pieces has as many members as its summand says, and they have
\* none in common, the pieces together have as many as the sum.
LEMMA SumOfPieces ==
  ASSUME NEW I, IsFiniteSet(I), NEW k, \A i \in I : k[i] \in Nat,
         NEW U, \A i \in I : IsFiniteSet(U[i]) /\ Cardinality(U[i]) = k[i],
         \A i, j \in I : i # j => U[i] \cap U[j] = {}
  PROVE  IsFiniteSet(Pieces(k, I)) /\ Cardinality(Pieces(k, I)) = Cardinality(Together(U, I))
<1> DEFINE A == Pieces(k, I)
           B == Together(U, I)
<1>1. IsFiniteSet(A)
  <2> DEFINE f == [i \in I |-> i]
  <2>1. {{f[i]} \X (1 .. k[i]) : i \in I} = {{i} \X (1 .. k[i]) : i \in I}
    OBVIOUS
  <2> HIDE DEF f
  <2>2. IsFiniteSet(UNION {{f[i]} \X (1 .. k[i]) : i \in I})
    BY BlocksFinite
  <2>3. QED
    BY <2>1, <2>2 DEF Pieces
<1>2. ASSUME NEW i \in I
      PROVE  \E f : f \in Bijection(1 .. k[i], U[i])
  BY FS_CardinalityType DEF ExistsBijection
<1> DEFINE b == [i \in I |-> CHOOSE f : f \in Bijection(1 .. k[i], U[i])]
<1>3. ASSUME NEW i \in I
      PROVE  b[i] \in Bijection(1 .. k[i], U[i])
  BY <1>2
<1> HIDE DEF b
<1>4. ASSUME NEW x
      PROVE  x \in A <=> \E i \in I : x \in {i} \X (1 .. k[i])
  BY DEF Pieces
<1>5. ASSUME NEW y
      PROVE  y \in B <=> \E i \in I : y \in U[i]
  BY DEF Together
<1> HIDE DEF A, B
<1>6. ASSUME NEW x \in A
      PROVE  /\ x[1] \in I /\ x[2] \in 1 .. k[x[1]] /\ x = <<x[1], x[2]>>
             /\ b[x[1]][x[2]] \in U[x[1]]
  <2>1. PICK i \in I : x \in {i} \X (1 .. k[i])
    BY <1>4
  <2>2. x[1] = i /\ x[2] \in 1 .. k[i] /\ x = <<x[1], x[2]>>
    BY <2>1
  <2>3. b[i] \in [1 .. k[i] -> U[i]]
    BY <1>3 DEF Bijection, Injection
  <2>4. QED
    BY <2>2, <2>3
<1> DEFINE g == [x \in A |-> b[x[1]][x[2]]]
<1>7. g \in [A -> B]
  BY <1>5, <1>6
<1>8. ASSUME NEW x \in A, NEW y \in A, g[x] = g[y]
      PROVE  x = y
  <2>1. b[x[1]][x[2]] = b[y[1]][y[2]]
    BY <1>8
  <2>2. x[1] = y[1]
    BY <1>6, <2>1
  <2>3. b[x[1]] \in Injection(1 .. k[x[1]], U[x[1]])
    BY <1>3, <1>6 DEF Bijection
  <2>4. x[2] = y[2]
    BY <1>6, <2>1, <2>2, <2>3 DEF Injection, IsInjective
  <2>5. QED
    BY <1>6, <2>2, <2>4
<1>9. ASSUME NEW y \in B
      PROVE  \E x \in A : g[x] = y
  <2>1. PICK i \in I : y \in U[i]
    BY <1>5
  <2>2. PICK j \in 1 .. k[i] : b[i][j] = y
    BY <1>3, <2>1 DEF Bijection, Surjection
  <2>3. <<i, j>> \in A
    BY <1>4, <2>2
  <2>4. g[<<i, j>>] = y
    BY <2>2, <2>3
  <2>5. QED
    BY <2>3, <2>4
<1>10. g \in Bijection(A, B)
  BY <1>7, <1>8, <1>9 DEF Bijection, Injection, IsInjective, Surjection
<1>11. Cardinality(B) = Cardinality(A)
  <2> HIDE DEF g
  <2>1. QED
    BY <1>1, <1>10, FS_Bijection DEF ExistsBijection
<1>12. QED
  BY <1>1, <1>11 DEF A, B
=============================================================================
