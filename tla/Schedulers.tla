------------------------------- MODULE Schedulers -------------------------------
(***************************************************************************)
(* Package internal/scheduler: the order in which the ready processes are  *)
(* offered a node, and the node each of the three algorithms selects.      *)
(*                                                                         *)
(* Everything here is a relation between the snapshots the controller      *)
(* passes in and the answer: Selects holds of at most one node, and of one *)
(* exactly when some node fits.                                            *)
(***************************************************************************)
EXTENDS ClusterState

CONSTANTS
  AgingInterval,   \* ticks in READY worth one point of priority (5)
  One,             \* a float64 is a whole number of smallest units: what 1 has (2^1074)
  Steps,           \* how many floats there are from a power of two to the next (2^52)
  Ulps             \* the distances between neighbouring floats (powers of two)

ASSUME AgingAssumption == AgingInterval \in Nat \ {0}

ASSUME FloatAssumption ==
  /\ One \in Nat \ {0} /\ Steps \in Nat \ {0} /\ One >= Steps
  /\ Ulps \subseteq Nat \ {0} /\ 1 \in Ulps

Algorithms == {"round-robin", "least-loaded", "priority-aware"}

-----------------------------------------------------------------------------
(* Ordering the ready queue *)

\* Fault: processes submitted at the same tick are not told apart ...
OlderOrSame(ps, p, q) == ps[p].submitted <= ps[q].submitted

\* ... or neither of them comes first.
OlderOnly(ps, p, q) == ps[p].submitted < ps[q].submitted

\* The order scheduleReadyLocked sorts by, whatever the algorithm.
Older(ps, p, q) ==
  \/ ps[p].submitted < ps[q].submitted
  \/ ps[p].submitted = ps[q].submitted /\ p < q

EffectivePriority(proc, now) ==
  LET waited == IF now < proc.lastReady THEN 0 ELSE now - proc.lastReady
  IN  proc.priority + waited \div AgingInterval

\* Process p is offered a node before process q.
Before(algorithm, ps, now, p, q) ==
  LET ep == EffectivePriority(ps[p], now)
      eq == EffectivePriority(ps[q], now)
  IN  IF algorithm = "priority-aware"
        THEN ep > eq \/ (ep = eq /\ Older(ps, p, q))
        ELSE Older(ps, p, q)

-----------------------------------------------------------------------------
(* Selecting a node *)

Fitting(snaps, proc) == {n \in DOMAIN snaps : Fits(snaps[n], proc)}

\* The index of node n in the list of snapshots sorted by ID.
Index(snaps, n) == Cardinality({m \in DOMAIN snaps : m < n})

\* How many nodes round robin inspects before it comes to n.
Offset(snaps, cursor, n) ==
  LET size == Cardinality(DOMAIN snaps)
  IN  (Index(snaps, n) - (cursor % size)) % size

\* Fault: the search begins at the first node every time.
FirstInList(snaps, cursor, proc, n) ==
  n \in Fitting(snaps, proc) /\ \A m \in Fitting(snaps, proc) : n <= m

NextInTurn(snaps, cursor, proc, n) ==
  /\ n \in Fitting(snaps, proc)
  /\ \A m \in Fitting(snaps, proc) :
       Offset(snaps, cursor, n) <= Offset(snaps, cursor, m)

\* The distance between the floats about x.
Ulp(x) == CHOOSE u \in Ulps : /\ u = 1 \/ u * Steps <= x
                              /\ \A v \in Ulps : v * Steps <= x => v <= u

\* The whole number nearest to num / den, of two the even one.
Nearest(num, den) ==
  LET below == num \div den
      twice == 2 * (num % den)
  IN  IF twice > den \/ (twice = den /\ below % 2 = 1) THEN below + 1 ELSE below

\* The float nearest to num / den.
Rounded(num, den) == LET u == Ulp(num \div den) IN u * Nearest(num, den * u)

\* Fault: what is allocated counts, not the part of the capacity.
AmountAllocated(a) == a.allocated["cpu"] + a.allocated["memory"]

\* Two quotients and their sum, each rounded.  It is twice the score of the code, which
\* halves both quotients: that changes no order.
LoadScore(a) ==
  Rounded(  Rounded(a.allocated["cpu"] * One, a.capacity["cpu"])
          + Rounded(a.allocated["memory"] * One, a.capacity["memory"]), 1)

\* Of two nodes that both fit, least loaded selects m before n.
Ahead(snaps, m, n) ==
  \/ LoadScore(snaps[m]) < LoadScore(snaps[n])
  \/ LoadScore(snaps[m]) = LoadScore(snaps[n]) /\ m < n

LeastLoaded(snaps, proc, n) ==
  /\ n \in Fitting(snaps, proc)
  /\ \A m \in Fitting(snaps, proc) \ {n} : Ahead(snaps, n, m)

Selects(algorithm, snaps, cursor, proc, n) ==
  IF algorithm = "round-robin" THEN NextInTurn(snaps, cursor, proc, n)
                               ELSE LeastLoaded(snaps, proc, n)

\* Fault: the cursor stays at the node that was selected.
NextCursorStays(algorithm, snaps, cursor, n) ==
  IF algorithm = "round-robin" THEN Index(snaps, n) ELSE cursor

\* Only round robin keeps a cursor, and moves it past the node it selected.
NextCursor(algorithm, snaps, cursor, n) ==
  IF algorithm = "round-robin"
    THEN (Index(snaps, n) + 1) % Cardinality(DOMAIN snaps)
    ELSE cursor
=============================================================================
