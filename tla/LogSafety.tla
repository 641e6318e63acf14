-------------------------------- MODULE LogSafety --------------------------------
(***************************************************************************)
(* The log is right: it is numbered, its counters are those of its events, *)
(* and it tells the state and the holdings of every process.               *)
(*                                                                         *)
(* A log s \o t is right about a cluster if s was right about the one      *)
(* before and t reports what changed (ReportedIsRight).  So for each       *)
(* action it is shown that its events describe what it does to every       *)
(* process, account for what every node gives and gets back, and are       *)
(* counted (Told); loading and reset begin a new log.  A tick that fails   *)
(* goes back to the copy and cuts the log, so the invariant also says that *)
(* the part of the log that is kept is right about the copy.               *)
(***************************************************************************)
EXTENDS EventLog, ControllerSafety, SequenceTheorems

-----------------------------------------------------------------------------
(* Sequences of sequences *)

\* flat[k] is the first k of them, one after the other.
Flattens(flat, seqs) ==
  flat = [k \in 1 .. Len(seqs) |-> IF k = 1 THEN seqs[k] ELSE flat[k - 1] \o seqs[k]]

\* The recursive function by which FlattenSeq is defined exists.
LEMMA FlatteningExists ==
  ASSUME NEW E, NEW seqs \in Seq(Seq(E))
  PROVE  \E flat : Flattens(flat, seqs)
<1> DEFINE Upto(g, k) == g = [i \in 1 .. k |-> IF i = 1 THEN seqs[i] ELSE g[i - 1] \o seqs[i]]
           S == {k \in Nat : \E g : Upto(g, k)}
<1>1. 0 \in S
  <2>1. Upto(<<>>, 0)
    OBVIOUS
  <2>2. QED
    BY <2>1
<1>2. ASSUME NEW k \in 1 .. Len(seqs), k - 1 \in S
      PROVE  k \in S
  <2>1. PICK g : Upto(g, k - 1)
    BY <1>2
  <2> DEFINE h == [i \in 1 .. k |->
                     IF i < k THEN g[i]
                     ELSE IF k = 1 THEN seqs[k] ELSE g[k - 1] \o seqs[k]]
  <2>2. \A i \in 1 .. k : h[i] = IF i = 1 THEN seqs[i] ELSE h[i - 1] \o seqs[i]
    <3> SUFFICES ASSUME NEW i \in 1 .. k
                 PROVE  h[i] = IF i = 1 THEN seqs[i] ELSE h[i - 1] \o seqs[i]
      OBVIOUS
    <3>1. CASE i < k
      <4>1. i \in 1 .. k - 1
        BY <3>1
      <4>2. g[i] = IF i = 1 THEN seqs[i] ELSE g[i - 1] \o seqs[i]
        BY <2>1, <4>1
      <4>3. h[i] = g[i] /\ (i # 1 => h[i - 1] = g[i - 1])
        BY <3>1
      <4>4. QED
        BY <4>2, <4>3
    <3>2. CASE i = k
      <4>1. h[k] = IF k = 1 THEN seqs[k] ELSE g[k - 1] \o seqs[k]
        OBVIOUS
      <4>2. k # 1 => h[k - 1] = g[k - 1]
        OBVIOUS
      <4>3. QED
        BY <3>2, <4>1, <4>2
    <3>3. QED
      BY <3>1, <3>2
  <2>3. h = [i \in 1 .. k |-> h[i]]
    OBVIOUS
  <2>4. Upto(h, k)
    <3> HIDE DEF h
    <3> QED BY <2>2, <2>3
  <2>5. k \in Nat
    OBVIOUS
  <2> HIDE DEF Upto
  <2>6. QED
    BY <2>4, <2>5
<1>3. Len(seqs) \in S
  <2> DEFINE last == Len(seqs)
  <2>1. last \in Nat
    OBVIOUS
  <2> HIDE DEF S, last
  <2>2. \A k \in 1 .. last : k - 1 \in S => k \in S
    BY <1>2 DEF last
  <2>3. \A k \in 0 .. last : k \in S
    BY <1>1, <2>1, <2>2, UpToTheLast
  <2>4. QED
    BY <2>1, <2>3 DEF last
<1>4. QED
  BY <1>3 DEF Flattens

\* What FlattenSeq computes, one sequence at a time.
LEMMA FlattenUnrolls ==
  ASSUME NEW E, NEW seqs \in Seq(Seq(E))
  PROVE  \E flat \in [0 .. Len(seqs) -> Seq(E)] :
           /\ flat[0] = <<>>
           /\ \A k \in 1 .. Len(seqs) : flat[k] = flat[k - 1] \o seqs[k]
           /\ FlattenSeq(seqs) = flat[Len(seqs)]
<1>1. CASE Len(seqs) = 0
  <2>1. seqs = <<>> /\ FlattenSeq(seqs) = <<>>
    BY <1>1 DEF FlattenSeq
  <2> DEFINE flat == [k \in 0 .. 0 |-> <<>>]
  <2>2. flat \in [0 .. Len(seqs) -> Seq(E)] /\ flat[0] = <<>>
    BY <1>1
  <2>3. FlattenSeq(seqs) = flat[Len(seqs)]
    BY <1>1, <2>1, <2>2
  <2> HIDE DEF flat
  <2>4. QED
    BY <1>1, <2>2, <2>3
<1>2. CASE Len(seqs) # 0
  <2> DEFINE flatten[i \in 1 .. Len(seqs)] ==
               IF i = 1 THEN seqs[i] ELSE flatten[i - 1] \o seqs[i]
  <2>1. FlattenSeq(seqs) = flatten[Len(seqs)]
    BY <1>2 DEF FlattenSeq
  <2>2. flatten = CHOOSE g : g = [i \in 1 .. Len(seqs) |->
                                    IF i = 1 THEN seqs[i] ELSE g[i - 1] \o seqs[i]]
    BY DEF flatten
  <2> HIDE DEF flatten
  <2>3. Flattens(flatten, seqs)
    BY <2>2, FlatteningExists DEF Flattens
  <2> DEFINE flat == [k \in 0 .. Len(seqs) |-> IF k = 0 THEN <<>> ELSE flatten[k]]
             S == {k \in 0 .. Len(seqs) : flat[k] \in Seq(E)}
  <2>4. flat[0] = <<>> /\ FlattenSeq(seqs) = flat[Len(seqs)]
    BY <1>2, <2>1
  <2>5. \A k \in 1 .. Len(seqs) : flat[k] = flat[k - 1] \o seqs[k]
    <3> SUFFICES ASSUME NEW k \in 1 .. Len(seqs)
                 PROVE  flat[k] = flat[k - 1] \o seqs[k]
      OBVIOUS
    <3>1. flatten[k] = IF k = 1 THEN seqs[k] ELSE flatten[k - 1] \o seqs[k]
      BY <2>3 DEF Flattens
    <3>2. CASE k = 1
      <4>1. flat[k] = seqs[k] /\ flat[k - 1] = <<>>
        BY <3>1, <3>2
      <4>2. seqs[k] \in Seq(E)
        OBVIOUS
      <4> HIDE DEF flat
      <4>3. QED
        BY <4>1, <4>2
    <3>3. CASE k # 1
      <4>1. flat[k] = flatten[k] /\ flat[k - 1] = flatten[k - 1]
        BY <3>3
      <4> HIDE DEF flat
      <4>2. QED
        BY <3>1, <3>3, <4>1
    <3>4. QED
      BY <3>2, <3>3
  <2>6. \A k \in 0 .. Len(seqs) : k \in S
    <3>1. 0 \in S
      BY <2>4
    <3>2. ASSUME NEW k \in 1 .. Len(seqs), k - 1 \in S
          PROVE  k \in S
      <4>1. flat[k - 1] \in Seq(E) /\ seqs[k] \in Seq(E)
        BY <3>2
      <4>2. flat[k] = flat[k - 1] \o seqs[k]
        BY <2>5
      <4> HIDE DEF flat
      <4>3. flat[k] \in Seq(E)
        BY <4>1, <4>2, ConcatProperties
      <4>4. QED
        BY <4>3
    <3>3. Len(seqs) \in Nat
      OBVIOUS
    <3> HIDE DEF S
    <3>4. QED
      BY <3>1, <3>2, <3>3, UpToTheLast
  <2>7. flat \in [0 .. Len(seqs) -> Seq(E)]
    BY <2>6
  <2>8. QED
    <3> HIDE DEF flat
    <3> QED BY <2>4, <2>5, <2>7
<1>3. QED
  BY <1>1, <1>2

\* The elements of two sequences, one after the other.
LEMMA ConcatHolds ==
  ASSUME NEW E, NEW s \in Seq(E), NEW t \in Seq(E)
  PROVE  /\ s \o t \in Seq(E) /\ Len(s) \in Nat /\ Len(t) \in Nat
         /\ Len(s \o t) = Len(s) + Len(t)
         /\ \A i \in 1 .. Len(s) : (s \o t)[i] = s[i]
         /\ \A j \in 1 .. Len(t) : (s \o t)[Len(s) + j] = t[j]
         /\ \A i \in 1 .. Len(s \o t) :
              i \in 1 .. Len(s) \/ \E j \in 1 .. Len(t) : i = Len(s) + j
<1> DEFINE m == Len(s)
           n == Len(t)
           r == s \o t
<1>1. m \in Nat /\ n \in Nat
  BY LenProperties
<1>2. /\ r \in Seq(E) /\ Len(r) = m + n
      /\ \A i \in 1 .. m + n : r[i] = IF i <= m THEN s[i] ELSE t[i - m]
  BY ConcatProperties
<1> HIDE DEF m, n, r
<1>3. ASSUME NEW i \in 1 .. m
      PROVE  r[i] = s[i]
  BY <1>1, <1>2
<1>4. ASSUME NEW j \in 1 .. n
      PROVE  r[m + j] = t[j]
  <2>1. m + j \in 1 .. m + n /\ ~ (m + j <= m) /\ (m + j) - m = j
    BY <1>1
  <2>2. QED
    BY <1>2, <2>1
<1>5. ASSUME NEW i \in 1 .. m + n, i \notin 1 .. m
      PROVE  \E j \in 1 .. n : i = m + j
  <2>1. i - m \in 1 .. n /\ i = m + (i - m)
    BY <1>1, <1>5
  <2>2. QED
    BY <2>1
<1>6. QED
  BY <1>1, <1>2, <1>3, <1>4, <1>5 DEF m, n, r

\* Every element of r comes from one of the parts, and each of them stands in r as a
\* block around which all is from others.
MadeOf(r, E, X, parts) ==
  /\ r \in Seq(E)
  /\ \A i \in 1 .. Len(r) :
       \E x \in X : \E j \in 1 .. Len(parts[x]) : r[i] = parts[x][j]
  /\ \A x \in X : \E base \in Nat :
       /\ base + Len(parts[x]) <= Len(r)
       /\ \A j \in 1 .. Len(parts[x]) : r[base + j] = parts[x][j]
       /\ \A i \in 1 .. Len(r) :
            \/ i \in base + 1 .. base + Len(parts[x])
            \/ \E y \in X \ {x} :
                 \E j \in 1 .. Len(parts[y]) : r[i] = parts[y][j]

\* A flattened sequence is made of the sequences it flattens.
LEMMA FlattenHolds ==
  ASSUME NEW E, NEW seqs \in Seq(Seq(E))
  PROVE  MadeOf(FlattenSeq(seqs), E, 1 .. Len(seqs), seqs)
<1> DEFINE size == Len(seqs)
<1>1. size \in Nat /\ \A m \in 1 .. size : seqs[m] \in Seq(E) /\ Len(seqs[m]) \in Nat
  OBVIOUS
<1>2. PICK flat \in [0 .. size -> Seq(E)] :
        /\ flat[0] = <<>>
        /\ \A k \in 1 .. size : flat[k] = flat[k - 1] \o seqs[k]
        /\ FlattenSeq(seqs) = flat[size]
  BY FlattenUnrolls
<1> HIDE DEF size
<1> DEFINE len == [k \in 0 .. size |-> Len(flat[k])]
           width == [m \in 1 .. size |-> Len(seqs[m])]
<1>3. ASSUME NEW k \in 1 .. size
      PROVE  /\ k - 1 \in 0 .. size /\ k \in 0 .. size
             /\ width[k] \in Nat /\ len[k - 1] \in Nat /\ len[k] = len[k - 1] + width[k]
             /\ \A i \in 1 .. len[k - 1] : flat[k][i] = flat[k - 1][i]
             /\ \A j \in 1 .. width[k] : flat[k][len[k - 1] + j] = seqs[k][j]
             /\ \A i \in 1 .. len[k] :
                  i \in 1 .. len[k - 1] \/ \E j \in 1 .. width[k] : i = len[k - 1] + j
  <2>1. k - 1 \in 0 .. size /\ k \in 0 .. size
    BY <1>1
  <2>2. flat[k - 1] \in Seq(E) /\ seqs[k] \in Seq(E)
    BY <1>1, <1>2, <2>1
  <2>3. flat[k] = flat[k - 1] \o seqs[k]
    BY <1>2
  <2>4. width[k] = Len(seqs[k]) /\ len[k - 1] = Len(flat[k - 1]) /\ len[k] = Len(flat[k])
    BY <2>1
  <2> DEFINE s == flat[k - 1]
             t == seqs[k]
  <2>5. /\ Len(s) \in Nat /\ Len(t) \in Nat /\ Len(s \o t) = Len(s) + Len(t)
        /\ \A i \in 1 .. Len(s) : (s \o t)[i] = s[i]
        /\ \A j \in 1 .. Len(t) : (s \o t)[Len(s) + j] = t[j]
        /\ \A i \in 1 .. Len(s \o t) :
             i \in 1 .. Len(s) \/ \E j \in 1 .. Len(t) : i = Len(s) + j
    <3>1. s \in Seq(E) /\ t \in Seq(E)
      BY <2>2
    <3> HIDE DEF s, t
    <3>2. QED
      BY <3>1, ConcatHolds
  <2> HIDE DEF len, width
  <2>6. QED
    BY ONLY <2>1, <2>3, <2>4, <2>5
<1>4. len[0] = 0 /\ \A k \in 0 .. size : len[k] = Len(flat[k])
  BY <1>1, <1>2
<1>5. \A m \in 1 .. size : width[m] = Len(seqs[m]) /\ width[m] \in Nat
  BY <1>1
<1> HIDE DEF len, width
<1> DEFINE From(k, i, others) ==
             \E o \in others : o <= k /\ \E j \in 1 .. width[o] : flat[k][i] = seqs[o][j]
           Come == {k \in 0 .. size : \A i \in 1 .. len[k] : From(k, i, 1 .. size)}
<1>6. \A k \in 0 .. size : k \in Come
  <2>1. 0 \in Come
    BY <1>1, <1>4
  <2>2. ASSUME NEW k \in 1 .. size, k - 1 \in Come
        PROVE  k \in Come
    <3>1. ASSUME NEW i \in 1 .. len[k]
          PROVE  From(k, i, 1 .. size)
      <4>1. CASE i \in 1 .. len[k - 1]
        <5>1. PICK o \in 1 .. size :
                o <= k - 1 /\ \E j \in 1 .. width[o] : flat[k - 1][i] = seqs[o][j]
          BY <2>2, <4>1
        <5>2. flat[k][i] = flat[k - 1][i]
          BY <1>3, <4>1
        <5>3. o <= k
          BY <5>1
        <5>4. QED
          BY <5>1, <5>2, <5>3
      <4>2. ASSUME NEW j \in 1 .. width[k], i = len[k - 1] + j
            PROVE  From(k, i, 1 .. size)
        <5>1. flat[k][i] = seqs[k][j]
          BY <1>3, <4>2
        <5>2. k <= k
          OBVIOUS
        <5>3. QED
          BY <5>1, <5>2
      <4>3. QED
        BY <1>3, <4>1, <4>2
    <3>2. k \in 0 .. size
      BY <1>3
    <3>3. QED
      BY <3>1, <3>2
  <2> HIDE DEF Come
  <2>3. QED
    BY <1>1, <2>1, <2>2, UpToTheLast
<1>7. ASSUME NEW m \in 1 .. size
      PROVE  \E base \in Nat :
               /\ base + width[m] <= len[size]
               /\ \A j \in 1 .. width[m] : flat[size][base + j] = seqs[m][j]
               /\ \A i \in 1 .. len[size] :
                    \/ i \in base + 1 .. base + width[m]
                    \/ From(size, i, (1 .. size) \ {m})
  <2> DEFINE base == len[m - 1]
             Block(k) ==
               /\ base + width[m] <= len[k]
               /\ \A j \in 1 .. width[m] : flat[k][base + j] = seqs[m][j]
               /\ \A i \in 1 .. len[k] :
                    \/ i \in base + 1 .. base + width[m]
                    \/ From(k, i, (1 .. size) \ {m})
             S == {k \in 0 .. size : k < m \/ Block(k)}
  <2>1. base \in Nat /\ width[m] \in Nat
    BY <1>3
  <2> HIDE DEF base
  <2>2. 0 \in S
    BY <1>1
  <2>3. ASSUME NEW k \in 1 .. size, k - 1 \in S
        PROVE  k \in S
    <3>1. k \in 0 .. size /\ width[k] \in Nat
      BY <1>3
    <3>2. CASE k < m
      BY <3>1, <3>2
    <3>3. CASE k = m
      <4>1. base + width[m] <= len[k]
        BY <1>3, <2>1, <3>3 DEF base
      <4>2. \A j \in 1 .. width[m] : flat[k][base + j] = seqs[m][j]
        BY <1>3, <3>3 DEF base
      <4>3. ASSUME NEW i \in 1 .. len[k], i \notin base + 1 .. base + width[m]
            PROVE  From(k, i, (1 .. size) \ {m})
        <5>1. i \in 1 .. len[k - 1] /\ flat[k][i] = flat[k - 1][i]
          <6>1. len[k - 1] = base /\ len[k] = base + width[m]
            BY <1>3, <3>3 DEF base
          <6>2. i \in 1 .. len[k - 1]
            BY <2>1, <4>3, <6>1
          <6>3. QED
            BY <1>3, <6>2
        <5>2. k - 1 \in Come
          BY <1>3, <1>6
        <5>3. PICK o \in 1 .. size :
                o <= k - 1 /\ \E j \in 1 .. width[o] : flat[k - 1][i] = seqs[o][j]
          BY <5>1, <5>2
        <5>4. o # m /\ o <= k
          BY <3>3, <5>3
        <5>5. QED
          BY <5>1, <5>3, <5>4
      <4>4. QED
        <5> HIDE DEF From
        <5> QED BY <3>1, <4>1, <4>2, <4>3
    <3>4. CASE k > m
      <4>1. Block(k - 1)
        <5>1. ~ (k - 1 < m)
          BY <3>4
        <5> HIDE DEF Block
        <5>2. QED
          BY <2>3, <5>1
      <4>2. base + width[m] <= len[k - 1] /\ base + width[m] <= len[k]
        <5>1. base + width[m] <= len[k - 1]
          BY <4>1
        <5>2. len[k - 1] \in Nat /\ len[k] = len[k - 1] + width[k]
          BY <1>3
        <5>3. QED
          BY <2>1, <3>1, <5>1, <5>2
      <4>3. ASSUME NEW j \in 1 .. width[m]
            PROVE  flat[k][base + j] = seqs[m][j]
        <5>1. len[k - 1] \in Nat
          BY <1>3
        <5>2. base + j \in 1 .. len[k - 1]
          BY <2>1, <4>2, <5>1
        <5>3. flat[k - 1][base + j] = seqs[m][j]
          BY <4>1
        <5>4. QED
          BY <1>3, <5>2, <5>3
      <4>4. ASSUME NEW i \in 1 .. len[k], i \notin base + 1 .. base + width[m]
            PROVE  From(k, i, (1 .. size) \ {m})
        <5>1. CASE i \in 1 .. len[k - 1]
          <6>1. PICK o \in (1 .. size) \ {m} :
                  o <= k - 1 /\ \E j \in 1 .. width[o] : flat[k - 1][i] = seqs[o][j]
            BY <4>1, <4>4, <5>1
          <6>2. flat[k][i] = flat[k - 1][i]
            BY <1>3, <5>1
          <6>3. o <= k
            BY <6>1
          <6>4. QED
            BY <6>1, <6>2, <6>3
        <5>2. ASSUME NEW j \in 1 .. width[k], i = len[k - 1] + j
              PROVE  From(k, i, (1 .. size) \ {m})
          <6>1. flat[k][i] = seqs[k][j]
            BY <1>3, <5>2
          <6>2. k \in (1 .. size) \ {m} /\ k <= k
            BY <3>4
          <6>3. QED
            BY <6>1, <6>2
        <5>3. QED
          BY <1>3, <5>1, <5>2
      <4>5. QED
        <5> HIDE DEF From
        <5> QED BY <3>1, <4>2, <4>3, <4>4
    <3>5. QED
      <4> HIDE DEF S
      <4>1. k < m \/ k = m \/ k > m
        OBVIOUS
      <4>2. QED
        BY <3>2, <3>3, <3>4, <4>1
  <2>4. \A k \in 0 .. size : k \in S
    <3> HIDE DEF S
    <3> QED BY <1>1, <2>2, <2>3, UpToTheLast
  <2>5. Block(size)
    <3>1. size \in 0 .. size /\ ~ (size < m)
      BY <1>1
    <3> HIDE DEF Block
    <3>2. QED
      BY <2>4, <3>1
  <2>6. QED
    <3> HIDE DEF From
    <3> QED BY <2>1, <2>5
<1>8. size \in 0 .. size /\ flat[size] \in Seq(E) /\ len[size] = Len(flat[size])
  BY <1>1, <1>2, <1>4
<1>9. \A i \in 1 .. len[size] :
        \E m \in 1 .. size : \E j \in 1 .. width[m] : flat[size][i] = seqs[m][j]
  BY <1>6, <1>8
<1>10. ASSUME NEW m \in 1 .. size
       PROVE  \E base \in Nat :
                /\ base + Len(seqs[m]) <= Len(flat[size])
                /\ \A j \in 1 .. Len(seqs[m]) : flat[size][base + j] = seqs[m][j]
                /\ \A i \in 1 .. Len(flat[size]) :
                     \/ i \in base + 1 .. base + Len(seqs[m])
                     \/ \E o \in (1 .. size) \ {m} :
                          \E j \in 1 .. Len(seqs[o]) : flat[size][i] = seqs[o][j]
  <2>1. PICK base \in Nat :
               /\ base + width[m] <= len[size]
               /\ \A j \in 1 .. width[m] : flat[size][base + j] = seqs[m][j]
               /\ \A i \in 1 .. len[size] :
                    \/ i \in base + 1 .. base + width[m]
                    \/ From(size, i, (1 .. size) \ {m})
    <3> HIDE DEF From
    <3> QED BY <1>7
  <2>2. \A i \in 1 .. len[size] :
          \/ i \in base + 1 .. base + width[m]
          \/ \E o \in (1 .. size) \ {m} :
               \E j \in 1 .. Len(seqs[o]) : flat[size][i] = seqs[o][j]
    BY <1>5, <2>1
  <2>3. width[m] = Len(seqs[m]) /\ len[size] = Len(flat[size])
    BY <1>5, <1>8
  <2>4. QED
    BY ONLY <2>1, <2>2, <2>3
<1>11. \A i \in 1 .. Len(flat[size]) :
         \E m \in 1 .. size : \E j \in 1 .. Len(seqs[m]) : flat[size][i] = seqs[m][j]
  BY <1>5, <1>8, <1>9
<1>12. FlattenSeq(seqs) = flat[size]
  BY <1>2
<1>13. MadeOf(flat[size], E, 1 .. size, seqs)
  BY ONLY <1>8, <1>10, <1>11 DEF MadeOf
<1>14. QED
  BY <1>12, <1>13 DEF size

\* A list in order holds each member once.
LEMMA EveryoneIsListed ==
  ASSUME NEW S, IsFiniteSet(S), S \subseteq Nat
  PROVE  /\ Cardinality(S) \in Nat /\ DOMAIN InOrder(S) = 1 .. Cardinality(S)
         /\ \A i \in 1 .. Cardinality(S) : InOrder(S)[i] \in S
         /\ \A i, j \in 1 .. Cardinality(S) : InOrder(S)[i] = InOrder(S)[j] => i = j
         /\ \A x \in S : \E i \in 1 .. Cardinality(S) : InOrder(S)[i] = x
<1> DEFINE k == Cardinality(S)
           list == InOrder(S)
<1>1. k \in Nat
  BY FS_CardinalityType
<1>2. list \in [1 .. k -> S] /\ \A i, j \in 1 .. k : i < j => list[i] < list[j]
  BY ListIsInOrder
<1>3. IsFiniteSet(1 .. k) /\ Cardinality(1 .. k) = k
  BY <1>1, CountingTo
<1> HIDE DEF list
<1>4. \A i, j \in 1 .. k : list[i] = list[j] => i = j
  <2> SUFFICES ASSUME NEW i \in 1 .. k, NEW j \in 1 .. k, list[i] = list[j]
               PROVE  i = j
    OBVIOUS
  <2>1. list[i] \in Nat /\ list[j] \in Nat
    BY <1>2
  <2>2. ~ (i < j) /\ ~ (j < i)
    BY <1>2, <2>1
  <2>3. QED
    BY <2>2
<1>5. list \in Surjection(1 .. k, S)
  <2>1. list \in Injection(1 .. k, S)
    BY <1>2, <1>4 DEF Injection, IsInjective
  <2>2. QED
    BY <1>3, <2>1, FS_Injection
<1>6. \A x \in S : \E i \in 1 .. k : list[i] = x
  BY <1>5 DEF Surjection
<1>7. QED
  BY <1>1, <1>2, <1>4, <1>6 DEF list

\* The entries of every process or node form a block, in some order of the blocks.
LEMMA ForEachHolds ==
  ASSUME NEW E, NEW S, IsFiniteSet(S), S \subseteq Nat, NEW entries \in [S -> Seq(E)]
  PROVE  MadeOf(ForEach(entries), E, S, entries)
<1> DEFINE k == Cardinality(S)
           ids == InOrder(S)
           seqs == [i \in 1 .. k |-> entries[ids[i]]]
           r == FlattenSeq(seqs)
<1>1. /\ k \in Nat /\ DOMAIN ids = 1 .. k
      /\ \A i \in 1 .. k : ids[i] \in S
      /\ \A i, j \in 1 .. k : ids[i] = ids[j] => i = j
      /\ \A x \in S : \E i \in 1 .. k : ids[i] = x
  BY EveryoneIsListed
<1>2. ForEach(entries) = r
  <2>1. DOMAIN entries = S
    OBVIOUS
  <2>2. ForEach(entries) = FlattenSeq([i \in DOMAIN ids |-> entries[ids[i]]])
    BY <2>1 DEF ForEach
  <2> HIDE DEF ids
  <2>3. QED
    BY <1>1, <2>2
<1> HIDE DEF k, ids
<1>3. seqs \in Seq(Seq(E)) /\ Len(seqs) = k /\ \A i \in 1 .. k : seqs[i] = entries[ids[i]]
  <2>1. \A i \in 1 .. k : seqs[i] = entries[ids[i]] /\ seqs[i] \in Seq(E)
    BY <1>1
  <2>2. DOMAIN seqs = 1 .. k
    OBVIOUS
  <2>3. seqs = [i \in 1 .. k |-> seqs[i]]
    OBVIOUS
  <2> HIDE DEF seqs
  <2>4. seqs \in [1 .. k -> Seq(E)]
    BY <2>1, <2>3
  <2>5. QED
    BY <1>1, <2>1, <2>4
<1> HIDE DEF seqs
<1>4. /\ r \in Seq(E)
      /\ \A i \in 1 .. Len(r) :
           \E m \in 1 .. k : \E j \in 1 .. Len(seqs[m]) : r[i] = seqs[m][j]
      /\ \A m \in 1 .. k : \E base \in Nat :
           /\ base + Len(seqs[m]) <= Len(r)
           /\ \A j \in 1 .. Len(seqs[m]) : r[base + j] = seqs[m][j]
           /\ \A i \in 1 .. Len(r) :
                \/ i \in base + 1 .. base + Len(seqs[m])
                \/ \E o \in (1 .. k) \ {m} : \E j \in 1 .. Len(seqs[o]) : r[i] = seqs[o][j]
  <2>1. MadeOf(r, E, 1 .. Len(seqs), seqs)
    BY <1>3, FlattenHolds
  <2>2. MadeOf(r, E, 1 .. k, seqs)
    BY <1>3, <2>1
  <2>3. QED
    BY ONLY <2>2 DEF MadeOf
<1> HIDE DEF r
<1>5. ASSUME NEW i \in 1 .. Len(r)
      PROVE  \E x \in S : \E j \in 1 .. Len(entries[x]) : r[i] = entries[x][j]
  <2>1. PICK m \in 1 .. k : \E j \in 1 .. Len(seqs[m]) : r[i] = seqs[m][j]
    BY <1>4
  <2>2. ids[m] \in S /\ seqs[m] = entries[ids[m]]
    BY <1>1, <1>3
  <2>3. QED
    BY <2>1, <2>2
<1>6. ASSUME NEW x \in S
      PROVE  \E base \in Nat :
               /\ base + Len(entries[x]) <= Len(r)
               /\ \A j \in 1 .. Len(entries[x]) : r[base + j] = entries[x][j]
               /\ \A i \in 1 .. Len(r) :
                    \/ i \in base + 1 .. base + Len(entries[x])
                    \/ \E y \in S \ {x} :
                         \E j \in 1 .. Len(entries[y]) : r[i] = entries[y][j]
  <2>1. PICK m \in 1 .. k : ids[m] = x
    BY <1>1
  <2>2. seqs[m] = entries[x]
    BY <1>3, <2>1
  <2>3. PICK base \in Nat :
           /\ base + Len(seqs[m]) <= Len(r)
           /\ \A j \in 1 .. Len(seqs[m]) : r[base + j] = seqs[m][j]
           /\ \A i \in 1 .. Len(r) :
                \/ i \in base + 1 .. base + Len(seqs[m])
                \/ \E o \in (1 .. k) \ {m} : \E j \in 1 .. Len(seqs[o]) : r[i] = seqs[o][j]
    BY <1>4
  <2>4. ASSUME NEW i \in 1 .. Len(r), NEW o \in (1 .. k) \ {m}, NEW j \in 1 .. Len(seqs[o]),
               r[i] = seqs[o][j]
        PROVE  \E y \in S \ {x} : \E l \in 1 .. Len(entries[y]) : r[i] = entries[y][l]
    <3>1. ids[o] \in S \ {x} /\ seqs[o] = entries[ids[o]]
      BY <1>1, <1>3, <2>1
    <3>2. QED
      BY <2>4, <3>1
  <2>5. \A i \in 1 .. Len(r) :
          \/ i \in base + 1 .. base + Len(seqs[m])
          \/ \E y \in S \ {x} : \E j \in 1 .. Len(entries[y]) : r[i] = entries[y][j]
    BY <2>3, <2>4
  <2>6. QED
    BY ONLY <2>2, <2>3, <2>5
<1>7. QED
  BY ONLY <1>2, <1>4, <1>5, <1>6 DEF MadeOf

-----------------------------------------------------------------------------
(* What a log tells *)

\* The types of the events.
Types ==
  DOMAIN StateAfter \cup
    {"PROCESS_STARTED", "RESOURCE_ALLOCATED", "RESOURCE_RELEASED", "SCHEDULING_DEFERRED",
     "NODE_REGISTERED", "NODE_REMOVED", "NODE_FAILED", "NODE_RECOVERED",
     "NODE_STATUS_CHANGED", "NODE_HEARTBEAT_MISSED", "SCHEDULER_CHANGED",
     "SIMULATION_STARTED", "SIMULATION_PAUSED", "SIMULATION_RESET",
     "SIMULATION_FINISHED", "SCENARIO_LOADED"}

\* Entries of some types about some processes.
EntriesOf(types, ids) ==
  [type : types, process : ids, node : NodeIds \cup {NoNode}]

\* What a step may report.
Entries == EntriesOf(Types, ProcIds \cup {NoProc})

\* What the log may hold: an entry with a number and a tick.
Events ==
  [id : Nat, tick : Nat, type : Types, process : ProcIds \cup {NoProc},
   node : NodeIds \cup {NoNode}]

\* Where the log says that p changed its state.
Moves(log, p) == {i \in 1 .. Len(log) : log[i].process = p /\ log[i].type \in DOMAIN StateAfter}

\* The last move of p leaves a process in the state proc is in.
MovesTo(log, p, proc) ==
  \E i \in Moves(log, p) :
    /\ \A j \in Moves(log, p) : j <= i
    /\ proc.state = StateAfter[log[i].type]
    /\ proc.state = "RUNNING" => proc.node = log[i].node

\* The log tells the state and the host of each process, and of no others.
TellsOf(log, ps) ==
  \A p \in ProcIds :
    IF p \in DOMAIN ps THEN MovesTo(log, p, ps[p]) ELSE Moves(log, p) = {}

\* p begins to hold resources of n.
Gives(e, p, n) == e.type = "RESOURCE_ALLOCATED" /\ e.process = p /\ e.node = n

\* By the log, p was given resources of n that it did not give back.
HeldIn(log, p, n) ==
  \E i \in 1 .. Len(log) :
    /\ Gives(log[i], p, n)
    /\ \A j \in i + 1 .. Len(log) : ~ Frees(log[j], p, n)

RunsOn(ns, p, n) == n \in DOMAIN ns /\ p \in ns[n].running

\* A process holds resources of the node it runs on, by the log as by the nodes.
HoldingsOf(log, ns) ==
  \A p \in ProcIds, n \in NodeIds : RunsOn(ns, p, n) <=> HeldIn(log, p, n)

Number(log, type) == Cardinality({i \in 1 .. Len(log) : log[i].type = type})

Stats == [deferred : Int, nodeFailures : Int, reschedulings : Int, samples : Int]

\* The counters are the numbers of the events they count.
CountsOf(log, st) ==
  /\ st \in Stats
  /\ st.nodeFailures = Number(log, "NODE_FAILED")
  /\ st.deferred = Number(log, "SCHEDULING_DEFERRED")
  /\ st.reschedulings = Number(log, "PROCESS_SCHEDULED") - Number(log, "PROCESS_STARTED")

\* The events are numbered from one and in the order of their ticks.
NumbersOf(log, now) ==
  /\ log \in Seq(Events)
  /\ \A i \in 1 .. Len(log) : log[i].id = i /\ log[i].tick <= now
  /\ \A i, j \in 1 .. Len(log) : i < j => log[i].tick <= log[j].tick

\* The log is right about a cluster with nodes ns and processes ps at tick now.
LogRight(log, st, ns, ps, now) ==
  NumbersOf(log, now) /\ TellsOf(log, ps) /\ HoldingsOf(log, ns) /\ CountsOf(log, st)

-----------------------------------------------------------------------------
(* The invariant *)

\* The log is right about the cluster, and what is kept of it about the copy.
LogInv ==
  /\ PInv
  /\ LogRight(events, stats, nodes, procs, tick) /\ sequence = Len(events)
  /\ stats.samples = IF phase \in {"apply", "beat", "place"} THEN tick - 1 ELSE tick
  /\ phase = "idle" => kept = NothingKept
  /\ phase # "idle" =>
       /\ kept.count \in 0 .. Len(events) /\ kept.sequence = kept.count
       /\ LogRight(SubSeq(events, 1, kept.count), kept.stats, saved.nodes, saved.procs,
                   saved.tick)
       /\ kept.stats.samples = saved.tick

-----------------------------------------------------------------------------
(* One log after another *)

\* The last move of a process is in the later log, if that has one.
LEMMA MovesConcat ==
  ASSUME NEW E, NEW s \in Seq(E), NEW t \in Seq(E), NEW p, NEW proc
  PROVE  /\ MovesTo(t, p, proc) => MovesTo(s \o t, p, proc)
         /\ Moves(t, p) = {} =>
              /\ MovesTo(s, p, proc) => MovesTo(s \o t, p, proc)
              /\ Moves(s, p) = {} => Moves(s \o t, p) = {}
<1> DEFINE m == Len(s)
           n == Len(t)
           r == s \o t
<1>1. /\ m \in Nat /\ n \in Nat /\ Len(r) = m + n
      /\ \A i \in 1 .. m : r[i] = s[i]
      /\ \A j \in 1 .. n : r[m + j] = t[j]
      /\ \A i \in 1 .. m + n : i \in 1 .. m \/ \E j \in 1 .. n : i = m + j
  <2>1. /\ m \in Nat /\ n \in Nat /\ Len(r) = m + n
        /\ \A i \in 1 .. m : r[i] = s[i]
        /\ \A j \in 1 .. n : r[m + j] = t[j]
        /\ \A i \in 1 .. Len(r) : i \in 1 .. m \/ \E j \in 1 .. n : i = m + j
    BY ConcatHolds
  <2>2. QED
    BY <2>1
<1> HIDE DEF r
<1>2. /\ Moves(s, p) = {i \in 1 .. m : s[i].process = p /\ s[i].type \in DOMAIN StateAfter}
      /\ Moves(t, p) = {i \in 1 .. n : t[i].process = p /\ t[i].type \in DOMAIN StateAfter}
      /\ Moves(r, p) = {i \in 1 .. m + n : r[i].process = p /\ r[i].type \in DOMAIN StateAfter}
  BY <1>1 DEF Moves
<1> HIDE DEF m, n
<1> DEFINE D == DOMAIN StateAfter
<1> HIDE DEF D
<1>3. /\ Moves(s, p) = {i \in 1 .. m : s[i].process = p /\ s[i].type \in D}
      /\ Moves(t, p) = {i \in 1 .. n : t[i].process = p /\ t[i].type \in D}
      /\ Moves(r, p) = {i \in 1 .. m + n : r[i].process = p /\ r[i].type \in D}
  BY <1>2 DEF D
<1>4. ASSUME MovesTo(t, p, proc)
      PROVE  MovesTo(r, p, proc)
  <2>1. PICK i \in Moves(t, p) :
          /\ \A j \in Moves(t, p) : j <= i
          /\ proc.state = StateAfter[t[i].type]
          /\ proc.state = "RUNNING" => proc.node = t[i].node
    BY <1>4 DEF MovesTo
  <2>2. i \in 1 .. n /\ m + i \in 1 .. m + n /\ r[m + i] = t[i] /\ m + i \in Moves(r, p)
    <3>1. i \in 1 .. n /\ m + i \in 1 .. m + n
      BY <1>1, <1>3
    <3>2. QED
      BY <1>1, <1>3, <3>1
  <2>3. ASSUME NEW k \in Moves(r, p)
        PROVE  k <= m + i
    <3>1. k \in 1 .. m + n
      BY <1>3
    <3>2. CASE k \in 1 .. m
      BY <1>1, <2>2, <3>2
    <3>3. ASSUME NEW j \in 1 .. n, k = m + j
          PROVE  k <= m + i
      <4>1. j \in Moves(t, p)
        BY <1>1, <1>3, <3>3
      <4>2. QED
        BY <1>1, <2>1, <2>2, <3>3, <4>1
    <3>4. QED
      BY <1>1, <3>1, <3>2, <3>3
  <2>4. QED
    BY <2>1, <2>2, <2>3 DEF MovesTo
<1>5. ASSUME Moves(t, p) = {}
      PROVE  Moves(r, p) = Moves(s, p) /\ \A i \in Moves(s, p) : r[i] = s[i]
  <2>1. ASSUME NEW k \in Moves(r, p)
        PROVE  k \in Moves(s, p)
    <3>1. k \in 1 .. m + n
      BY <1>3
    <3>2. ASSUME NEW j \in 1 .. n, k = m + j
          PROVE  FALSE
      <4>1. j \in Moves(t, p)
        BY <1>1, <1>3, <3>2
      <4>2. QED
        BY <1>5, <4>1
    <3>3. QED
      BY <1>1, <1>3, <3>1, <3>2
  <2>2. ASSUME NEW k \in Moves(s, p)
        PROVE  k \in Moves(r, p) /\ r[k] = s[k]
    BY <1>1, <1>3
  <2>3. QED
    BY <2>1, <2>2
<1>6. ASSUME Moves(t, p) = {}, MovesTo(s, p, proc)
      PROVE  MovesTo(r, p, proc)
  BY <1>5, <1>6 DEF MovesTo
<1>7. QED
  BY <1>4, <1>5, <1>6 DEF r

\* What the later log says of a process and a node is what holds, if it says anything.
LEMMA HeldConcat ==
  ASSUME NEW E, NEW s \in Seq(E), NEW t \in Seq(E), NEW p, NEW n
  PROVE  /\ HeldIn(t, p, n) => HeldIn(s \o t, p, n)
         /\ (\E j \in 1 .. Len(t) : Frees(t[j], p, n)) /\ ~ HeldIn(t, p, n)
              => ~ HeldIn(s \o t, p, n)
         /\ (\A j \in 1 .. Len(t) : ~ Frees(t[j], p, n) /\ ~ Gives(t[j], p, n))
              => (HeldIn(s \o t, p, n) <=> HeldIn(s, p, n))
<1> DEFINE a == Len(s)
           b == Len(t)
           r == s \o t
<1>1. /\ a \in Nat /\ b \in Nat /\ Len(r) = a + b
      /\ \A i \in 1 .. a : r[i] = s[i]
      /\ \A j \in 1 .. b : r[a + j] = t[j]
      /\ \A i \in 1 .. a + b : i \in 1 .. a \/ \E j \in 1 .. b : i = a + j
  <2>1. /\ a \in Nat /\ b \in Nat /\ Len(r) = a + b
        /\ \A i \in 1 .. a : r[i] = s[i]
        /\ \A j \in 1 .. b : r[a + j] = t[j]
        /\ \A i \in 1 .. Len(r) : i \in 1 .. a \/ \E j \in 1 .. b : i = a + j
    BY ConcatHolds
  <2>2. QED
    BY <2>1
<1> HIDE DEF r
<1> DEFINE Held(log, len, i) ==
             i \in 1 .. len /\ Gives(log[i], p, n) /\ \A j \in i + 1 .. len : ~ Frees(log[j], p, n)
<1>2. /\ HeldIn(s, p, n) <=> \E i : Held(s, a, i)
      /\ HeldIn(t, p, n) <=> \E i : Held(t, b, i)
      /\ HeldIn(r, p, n) <=> \E i : Held(r, a + b, i)
  BY <1>1 DEF HeldIn
<1>3. ASSUME NEW i \in 1 .. b
      PROVE  Held(t, b, i) <=> Held(r, a + b, a + i)
  <2>1. a + i \in 1 .. a + b /\ r[a + i] = t[i]
    BY <1>1
  <2>2. ASSUME NEW j \in i + 1 .. b
        PROVE  a + j \in (a + i) + 1 .. a + b /\ r[a + j] = t[j]
    <3>1. j \in 1 .. b /\ a + j \in (a + i) + 1 .. a + b
      BY <1>1
    <3>2. QED
      BY <1>1, <3>1
  <2>3. ASSUME NEW k \in (a + i) + 1 .. a + b
        PROVE  \E j \in i + 1 .. b : r[k] = t[j]
    <3>1. k - a \in i + 1 .. b /\ k - a \in 1 .. b /\ a + (k - a) = k
      BY <1>1
    <3>2. r[k] = t[k - a]
      BY <1>1, <3>1
    <3>3. QED
      BY <3>1, <3>2
  <2>4. QED
    BY <2>1, <2>2, <2>3
<1>4. ASSUME \E j \in 1 .. b : Frees(t[j], p, n), NEW i \in 1 .. a
      PROVE  ~ Held(r, a + b, i)
  <2>1. PICK j \in 1 .. b : Frees(t[j], p, n)
    BY <1>4
  <2>2. a + j \in i + 1 .. a + b /\ r[a + j] = t[j]
    BY <1>1
  <2>3. QED
    BY <2>1, <2>2
<1>5. ASSUME \A j \in 1 .. b : ~ Frees(t[j], p, n), NEW i \in 1 .. a
      PROVE  Held(s, a, i) <=> Held(r, a + b, i)
  <2>1. i \in 1 .. a + b /\ r[i] = s[i]
    BY <1>1
  <2>2. ASSUME NEW j \in i + 1 .. a
        PROVE  j \in i + 1 .. a + b /\ r[j] = s[j]
    <3>1. j \in 1 .. a /\ j \in i + 1 .. a + b
      BY <1>1
    <3>2. QED
      BY <1>1, <3>1
  <2>3. ASSUME NEW k \in i + 1 .. a + b, k \notin i + 1 .. a
        PROVE  ~ Frees(r[k], p, n)
    <3>1. k \in 1 .. a + b /\ k \notin 1 .. a
      BY <1>1, <2>3
    <3>2. PICK j \in 1 .. b : k = a + j
      BY <1>1, <3>1
    <3>3. QED
      BY <1>1, <1>5, <3>2
  <2>4. QED
    BY <2>1, <2>2, <2>3
<1>6. ASSUME NEW k \in 1 .. a + b
      PROVE  k \in 1 .. a \/ \E j \in 1 .. b : k = a + j
  BY <1>1
<1>7. \A i : (Held(s, a, i) => i \in 1 .. a) /\ (Held(t, b, i) => i \in 1 .. b)
             /\ (Held(r, a + b, i) => i \in 1 .. a + b)
  OBVIOUS
<1>8. (\A j \in 1 .. b : ~ Gives(t[j], p, n)) => \A i : ~ Held(t, b, i)
  OBVIOUS

<1> HIDE DEF Held
<1>9. HeldIn(t, p, n) => HeldIn(r, p, n)
  BY <1>2, <1>3, <1>7
<1>10. (\E j \in 1 .. b : Frees(t[j], p, n)) /\ ~ HeldIn(t, p, n) => ~ HeldIn(r, p, n)
  BY <1>2, <1>3, <1>4, <1>6, <1>7
<1>11. (\A j \in 1 .. b : ~ Frees(t[j], p, n) /\ ~ Gives(t[j], p, n))
         => (HeldIn(r, p, n) <=> HeldIn(s, p, n))
  BY <1>2, <1>3, <1>5, <1>6, <1>7, <1>8
<1>12. QED
  BY <1>9, <1>10, <1>11 DEF r

\* Events of one type are counted log by log.
LEMMA NumberConcat ==
  ASSUME NEW E, NEW s \in Seq(E), NEW t \in Seq(E), NEW type
  PROVE  /\ Number(s, type) \in Nat /\ Number(t, type) \in Nat
         /\ Number(s \o t, type) = Number(s, type) + Number(t, type)
<1> DEFINE a == Len(s)
           b == Len(t)
           r == s \o t
<1>1. /\ a \in Nat /\ b \in Nat /\ Len(r) = a + b
      /\ \A i \in 1 .. a : r[i] = s[i]
      /\ \A j \in 1 .. b : r[a + j] = t[j]
      /\ \A i \in 1 .. a + b : i \in 1 .. a \/ \E j \in 1 .. b : i = a + j
  <2>1. /\ a \in Nat /\ b \in Nat /\ Len(r) = a + b
        /\ \A i \in 1 .. a : r[i] = s[i]
        /\ \A j \in 1 .. b : r[a + j] = t[j]
        /\ \A i \in 1 .. Len(r) : i \in 1 .. a \/ \E j \in 1 .. b : i = a + j
    BY ConcatHolds
  <2>2. QED
    BY <2>1
<1> HIDE DEF r
<1> DEFINE A == {i \in 1 .. a : s[i].type = type}
           B == {j \in 1 .. b : t[j].type = type}
           C == {k \in 1 .. a + b : r[k].type = type}
           shift == [j \in B |-> a + j]
<1>2. Number(s, type) = Cardinality(A) /\ Number(t, type) = Cardinality(B)
      /\ Number(r, type) = Cardinality(C)
  BY <1>1 DEF Number
<1> HIDE DEF a, b
<1>3. IsFiniteSet(A) /\ IsFiniteSet(B) /\ Cardinality(A) \in Nat /\ Cardinality(B) \in Nat
  <2>1. IsFiniteSet(1 .. a) /\ IsFiniteSet(1 .. b)
    BY <1>1, FS_Interval
  <2>2. A \subseteq 1 .. a /\ B \subseteq 1 .. b
    OBVIOUS
  <2>3. QED
    BY <2>1, <2>2, FS_Subset, FS_CardinalityType
<1>4. shift \in Bijection(B, C \ A)
  <2>1. \A j \in B : shift[j] = a + j /\ shift[j] \in C \ A
    <3> SUFFICES ASSUME NEW j \in B
                 PROVE  a + j \in C \ A
      OBVIOUS
    <3>1. j \in 1 .. b /\ a + j \in 1 .. a + b /\ a + j \notin 1 .. a
      BY <1>1
    <3>2. QED
      BY <1>1, <3>1
  <2>2. \A i, j \in B : shift[i] = shift[j] => i = j
    <3> SUFFICES ASSUME NEW i \in B, NEW j \in B, shift[i] = shift[j]
                 PROVE  i = j
      OBVIOUS
    <3>1. a + i = a + j /\ i \in Int /\ j \in Int
      OBVIOUS
    <3>2. QED
      BY ONLY <1>1, <3>1
  <2>3. \A k \in C \ A : \E j \in B : shift[j] = k
    <3> SUFFICES ASSUME NEW k \in C \ A
                 PROVE  \E j \in B : shift[j] = k
      OBVIOUS
    <3>1. k \notin 1 .. a
      BY <1>1
    <3>2. PICK j \in 1 .. b : k = a + j
      BY <1>1, <3>1
    <3>3. j \in B
      BY <1>1, <3>2
    <3>4. QED
      BY <3>2, <3>3
  <2>4. shift \in [B -> C \ A]
    BY <2>1
  <2> HIDE DEF shift, A, B, C
  <2>5. shift \in Injection(B, C \ A)
    BY <2>2, <2>4 DEF Injection, IsInjective
  <2>6. shift \in Surjection(B, C \ A)
    BY <2>3, <2>4 DEF Surjection
  <2>7. QED
    BY <2>5, <2>6 DEF Bijection
<1>5. C = A \cup (C \ A)
  BY <1>1
<1> HIDE DEF A, B, C, shift
<1>6. IsFiniteSet(C \ A) /\ Cardinality(C \ A) = Cardinality(B)
  <2> DEFINE D == C \ A
  <2>1. shift \in Bijection(B, D)
    BY <1>4
  <2> HIDE DEF D
  <2>2. IsFiniteSet(D) /\ Cardinality(D) = Cardinality(B)
    BY <1>3, <2>1, FS_Bijection DEF ExistsBijection
  <2>3. QED
    BY <2>2 DEF D
<1>7. Cardinality(A \cup (C \ A)) = Cardinality(A) + Cardinality(C \ A) - Cardinality(A \cap (C \ A))
  BY <1>3, <1>6, FS_Union
<1>8. Cardinality(A \cap (C \ A)) = 0
  <2>1. A \cap (C \ A) = {}
    OBVIOUS
  <2>2. QED
    BY <2>1, FS_EmptySet
<1>9. Cardinality(C) = Cardinality(A) + Cardinality(B)
  <2>1. Cardinality(C) = Cardinality(A) + Cardinality(B) - 0
    BY <1>5, <1>6, <1>7, <1>8
  <2>2. QED
    BY ONLY <1>3, <2>1
<1>10. QED
  BY <1>2, <1>3, <1>9 DEF r

LEMMA NumberOfNone ==
  ASSUME NEW types, NEW ids, NEW s \in Seq(EntriesOf(types, ids)), NEW type,
         type \notin types
  PROVE  Number(s, type) = 0
<1>1. \A i \in 1 .. Len(s) : s[i] \in EntriesOf(types, ids)
  BY ElementOfSeq
<1>2. {i \in 1 .. Len(s) : s[i].type = type} = {}
  BY <1>1 DEF EntriesOf
<1>3. QED
  BY <1>2, FS_EmptySet DEF Number

LEMMA NumberOfOne ==
  ASSUME NEW e, NEW type
  PROVE  Number(<<e>>, type) = IF e.type = type THEN 1 ELSE 0
<1>1. {i \in 1 .. Len(<<e>>) : <<e>>[i].type = type} = IF e.type = type THEN {1} ELSE {}
  OBVIOUS
<1>2. Cardinality({1}) = 1 /\ Cardinality({}) = 0
  BY FS_Singleton, FS_EmptySet
<1>3. QED
  BY <1>1, <1>2 DEF Number

\* What is stamped is the same otherwise.
LEMMA StampedHolds ==
  ASSUME NEW entries \in Seq(Entries), NEW last \in Nat, NEW now \in Nat
  PROVE  LET new == Stamped(entries, last, now) IN
           /\ new \in Seq(Events) /\ Len(new) = Len(entries)
           /\ \A i \in 1 .. Len(entries) :
                /\ new[i].id = last + i /\ new[i].tick = now
                /\ new[i].type = entries[i].type
                /\ new[i].process = entries[i].process /\ new[i].node = entries[i].node
<1> DEFINE len == Len(entries)
           new == Stamped(entries, last, now)
<1>1. len \in Nat /\ DOMAIN entries = 1 .. len /\ \A i \in 1 .. len : entries[i] \in Entries
  BY LenProperties, ElementOfSeq
<1>2. new = [i \in 1 .. len |->
               [id |-> last + i, tick |-> now, type |-> entries[i].type,
                process |-> entries[i].process, node |-> entries[i].node]]
  BY <1>1 DEF Stamped
<1>3. ASSUME NEW i \in 1 .. len
      PROVE  new[i] \in Events
  <2>1. entries[i].type \in Types /\ entries[i].process \in ProcIds \cup {NoProc}
        /\ entries[i].node \in NodeIds \cup {NoNode}
    BY <1>1 DEF Entries, EntriesOf
  <2>2. last + i \in Nat
    OBVIOUS
  <2>3. QED
    BY <1>2, <2>1, <2>2 DEF Events
<1> HIDE DEF len, new
<1>4. new \in [1 .. len -> Events]
  BY <1>2, <1>3
<1>5. new \in Seq(Events) /\ Len(new) = len
  BY <1>1, <1>4
<1>6. QED
  BY <1>2, <1>5 DEF len, new

\* An event says what the entry says that it was made of.
LEMMA StampedTells ==
  ASSUME NEW entries \in Seq(Entries), NEW last \in Nat, NEW now \in Nat
  PROVE  LET new == Stamped(entries, last, now) IN
           /\ \A p : Moves(new, p) = Moves(entries, p)
           /\ \A p, proc : MovesTo(new, p, proc) <=> MovesTo(entries, p, proc)
           /\ \A p, n : HeldIn(new, p, n) <=> HeldIn(entries, p, n)
           /\ \A i \in 1 .. Len(entries) : \A p, n :
                /\ Frees(new[i], p, n) <=> Frees(entries[i], p, n)
                /\ Gives(new[i], p, n) <=> Gives(entries[i], p, n)
           /\ \A type : Number(new, type) = Number(entries, type)
<1> DEFINE new == Stamped(entries, last, now)
<1>1. /\ Len(new) = Len(entries)
      /\ \A i \in 1 .. Len(entries) :
           /\ new[i].type = entries[i].type
           /\ new[i].process = entries[i].process /\ new[i].node = entries[i].node
  BY StampedHolds
<1> HIDE DEF new
<1>2. \A p : Moves(new, p) = Moves(entries, p)
  BY <1>1 DEF Moves
<1>3. ASSUME NEW p, NEW proc
      PROVE  MovesTo(new, p, proc) <=> MovesTo(entries, p, proc)
  <2>1. \A i \in Moves(entries, p) : new[i].type = entries[i].type /\ new[i].node = entries[i].node
    BY <1>1 DEF Moves
  <2>2. QED
    BY <1>2, <2>1 DEF MovesTo
<1>4. \A i \in 1 .. Len(entries) : \A p, n :
        /\ Frees(new[i], p, n) <=> Frees(entries[i], p, n)
        /\ Gives(new[i], p, n) <=> Gives(entries[i], p, n)
  BY <1>1 DEF Frees, Gives
<1>5. ASSUME NEW p, NEW n
      PROVE  HeldIn(new, p, n) <=> HeldIn(entries, p, n)
  <2>1. \A i \in 1 .. Len(entries) : \A j \in i + 1 .. Len(entries) : j \in 1 .. Len(entries)
    BY LenProperties
  <2>2. QED
    BY <1>1, <1>4, <2>1 DEF HeldIn
<1>6. \A type : Number(new, type) = Number(entries, type)
  <2> SUFFICES ASSUME NEW type
               PROVE  Number(new, type) = Number(entries, type)
    OBVIOUS
  <2>1. {i \in 1 .. Len(new) : new[i].type = type}
          = {i \in 1 .. Len(entries) : entries[i].type = type}
    BY <1>1
  <2>2. QED
    BY <2>1 DEF Number
<1>7. QED
  BY <1>2, <1>3, <1>4, <1>5, <1>6 DEF new

-----------------------------------------------------------------------------
(* What a step has to report *)

\* Of every process that changed, the last entry about it says to what.
Describes(entries, ps, ps2) ==
  \A p \in ProcIds :
    \/ p \in DOMAIN ps2 /\ MovesTo(entries, p, ps2[p])
    \/ /\ Moves(entries, p) = {}
       /\ p \in DOMAIN ps <=> p \in DOMAIN ps2
       /\ p \in DOMAIN ps => /\ ps2[p].state = ps[p].state
                             /\ ps2[p].state = "RUNNING" => ps2[p].node = ps[p].node

\* Of every process and node, whether it begins, ends or goes on to run there.
Accounts(entries, ns, ns2) ==
  \A p \in ProcIds, n \in NodeIds :
    \/ HeldIn(entries, p, n) /\ RunsOn(ns2, p, n)
    \/ /\ \E j \in 1 .. Len(entries) : Frees(entries[j], p, n)
       /\ ~ HeldIn(entries, p, n) /\ ~ RunsOn(ns2, p, n)
    \/ /\ \A j \in 1 .. Len(entries) : ~ Frees(entries[j], p, n) /\ ~ Gives(entries[j], p, n)
       /\ RunsOn(ns, p, n) <=> RunsOn(ns2, p, n)

\* What is counted is what is reported.
Counts(entries, st, st2) ==
  /\ st2 \in Stats
  /\ st2.nodeFailures = st.nodeFailures + Number(entries, "NODE_FAILED")
  /\ st2.deferred = st.deferred + Number(entries, "SCHEDULING_DEFERRED")
  /\ st2.reschedulings = st.reschedulings + Number(entries, "PROCESS_SCHEDULED")
                                          - Number(entries, "PROCESS_STARTED")

\* A log that was right is right with what the step has to report.
LEMMA ReportedIsRight ==
  ASSUME NEW log, NEW st, NEW ns, NEW ps, NEW now \in Nat,
         LogRight(log, st, ns, ps, now),
         NEW entries \in Seq(Entries), NEW st2, NEW ns2, NEW ps2,
         Describes(entries, ps, ps2), Accounts(entries, ns, ns2), Counts(entries, st, st2)
  PROVE  LET more == log \o Stamped(entries, Len(log), now) IN
           /\ LogRight(more, st2, ns2, ps2, now)
           /\ Len(more) = Len(log) + Len(entries)
<1> DEFINE new == Stamped(entries, Len(log), now)
           more == log \o new
<1>1. log \in Seq(Events) /\ Len(log) \in Nat
  BY LenProperties DEF LogRight, NumbersOf
<1>2. /\ new \in Seq(Events) /\ Len(new) = Len(entries) /\ Len(entries) \in Nat
      /\ \A j \in 1 .. Len(entries) : new[j].id = Len(log) + j /\ new[j].tick = now
  BY <1>1, StampedHolds
<1>3. /\ \A p : Moves(new, p) = Moves(entries, p)
      /\ \A p, proc : MovesTo(new, p, proc) <=> MovesTo(entries, p, proc)
      /\ \A p, n : HeldIn(new, p, n) <=> HeldIn(entries, p, n)
      /\ \A i \in 1 .. Len(entries) : \A p, n :
           /\ Frees(new[i], p, n) <=> Frees(entries[i], p, n)
           /\ Gives(new[i], p, n) <=> Gives(entries[i], p, n)
      /\ \A type : Number(new, type) = Number(entries, type)
  BY <1>1, StampedTells
<1> HIDE DEF new
<1>4. NumbersOf(more, now) /\ Len(more) = Len(log) + Len(entries)
  <2> DEFINE a == Len(log)
             b == Len(entries)
  <2>1. /\ more \in Seq(Events) /\ Len(more) = a + b
        /\ \A i \in 1 .. a : more[i] = log[i]
        /\ \A j \in 1 .. b : more[a + j] = new[j]
        /\ \A i \in 1 .. a + b : i \in 1 .. a \/ \E j \in 1 .. b : i = a + j
    <3>1. /\ more \in Seq(Events) /\ Len(more) = Len(log) + Len(new)
          /\ \A i \in 1 .. Len(log) : more[i] = log[i]
          /\ \A j \in 1 .. Len(new) : more[Len(log) + j] = new[j]
          /\ \A i \in 1 .. Len(more) :
               i \in 1 .. Len(log) \/ \E j \in 1 .. Len(new) : i = Len(log) + j
      <4>1. log \in Seq(Events) /\ new \in Seq(Events)
        BY <1>1, <1>2
      <4>2. QED
        BY ONLY <4>1, ConcatHolds
    <3>2. QED
      BY <1>2, <3>1
  <2>2. /\ \A i \in 1 .. a : log[i].id = i /\ log[i].tick <= now
        /\ \A i, j \in 1 .. a : i < j => log[i].tick <= log[j].tick
    BY DEF LogRight, NumbersOf
  <2>3. a \in Nat /\ b \in Nat /\ \A j \in 1 .. b : new[j].id = a + j /\ new[j].tick = now
    BY <1>1, <1>2
  <2> HIDE DEF more, a, b
  <2>4. ASSUME NEW i \in 1 .. a + b
        PROVE  more[i].id = i /\ more[i].tick <= now /\ (i \notin 1 .. a => more[i].tick = now)
    <3>1. CASE i \in 1 .. a
      BY <2>1, <2>2, <3>1
    <3>2. ASSUME NEW j \in 1 .. b, i = a + j
          PROVE  more[i].id = i /\ more[i].tick = now
      <4>1. more[i] = new[j]
        BY <2>1, <3>2
      <4>2. QED
        BY <2>3, <3>2, <4>1
    <3>3. now <= now
      OBVIOUS
    <3>4. QED
      BY <2>1, <3>1, <3>2, <3>3
  <2>5. ASSUME NEW i \in 1 .. a + b, NEW j \in 1 .. a + b, i < j
        PROVE  more[i].tick <= more[j].tick
    <3>1. CASE j \in 1 .. a
      <4>1. i \in 1 .. a
        BY <2>3, <2>5, <3>1
      <4>2. QED
        BY <2>1, <2>2, <2>5, <3>1, <4>1
    <3>2. CASE j \notin 1 .. a
      <4>1. more[j].tick = now /\ more[i].tick <= now
        BY <2>4, <3>2
      <4>2. QED
        BY <4>1
    <3>3. QED
      BY <3>1, <3>2
  <2>6. QED
    BY <2>1, <2>4, <2>5 DEF NumbersOf, a, b
<1>5. TellsOf(more, ps2)
  <2> SUFFICES ASSUME NEW p \in ProcIds
               PROVE  IF p \in DOMAIN ps2 THEN MovesTo(more, p, ps2[p]) ELSE Moves(more, p) = {}
    BY DEF TellsOf
  <2>1. \A proc : /\ MovesTo(new, p, proc) => MovesTo(more, p, proc)
                  /\ Moves(new, p) = {} =>
                       /\ MovesTo(log, p, proc) => MovesTo(more, p, proc)
                       /\ Moves(log, p) = {} => Moves(more, p) = {}
    BY <1>1, <1>2, MovesConcat
  <2>2. IF p \in DOMAIN ps THEN MovesTo(log, p, ps[p]) ELSE Moves(log, p) = {}
    BY DEF LogRight, TellsOf
  <2>3. CASE p \in DOMAIN ps2 /\ MovesTo(entries, p, ps2[p])
    BY <1>3, <2>1, <2>3
  <2>4. CASE /\ Moves(entries, p) = {}
             /\ p \in DOMAIN ps <=> p \in DOMAIN ps2
             /\ p \in DOMAIN ps => /\ ps2[p].state = ps[p].state
                                   /\ ps2[p].state = "RUNNING" => ps2[p].node = ps[p].node
    <3>1. CASE p \in DOMAIN ps
      <4>1. MovesTo(log, p, ps2[p])
        BY <2>2, <2>4, <3>1 DEF MovesTo
      <4> HIDE DEF more
      <4>2. QED
        BY <1>3, <2>1, <2>4, <3>1, <4>1
    <3>2. CASE p \notin DOMAIN ps
      <4> HIDE DEF more
      <4>1. QED
        BY <1>3, <2>1, <2>2, <2>4, <3>2
    <3>3. QED
      BY <3>1, <3>2
  <2>5. QED
    BY <2>3, <2>4 DEF Describes
<1>6. HoldingsOf(more, ns2)
  <2> SUFFICES ASSUME NEW p \in ProcIds, NEW n \in NodeIds
               PROVE  RunsOn(ns2, p, n) <=> HeldIn(more, p, n)
    BY DEF HoldingsOf
  <2>1. /\ HeldIn(new, p, n) => HeldIn(more, p, n)
        /\ (\E j \in 1 .. Len(new) : Frees(new[j], p, n)) /\ ~ HeldIn(new, p, n)
             => ~ HeldIn(more, p, n)
        /\ (\A j \in 1 .. Len(new) : ~ Frees(new[j], p, n) /\ ~ Gives(new[j], p, n))
             => (HeldIn(more, p, n) <=> HeldIn(log, p, n))
    BY <1>1, <1>2, HeldConcat
  <2>2. RunsOn(ns, p, n) <=> HeldIn(log, p, n)
    BY DEF LogRight, HoldingsOf
  <2> HIDE DEF more
  <2>3. QED
    BY <1>2, <1>3, <2>1, <2>2 DEF Accounts
<1>7. CountsOf(more, st2)
  <2>1. \A type : /\ Number(log, type) \in Nat /\ Number(entries, type) \in Nat
                  /\ Number(more, type) = Number(log, type) + Number(entries, type)
    BY <1>1, <1>2, <1>3, NumberConcat
  <2>2. CountsOf(log, st)
    BY DEF LogRight
  <2> HIDE DEF more
  <2>3. QED
    BY <2>1, <2>2 DEF CountsOf, Counts
<1>8. QED
  BY <1>4, <1>5, <1>6, <1>7 DEF LogRight, new

\* The entries are what the step has to report.
Reported(entries) ==
  /\ entries \in Seq(Entries)
  /\ Describes(entries, procs, procs')
  /\ Accounts(entries, nodes, nodes')
  /\ Counts(entries, stats, stats')

\* A step that reports what it did, and counts what it reports.
Told ==
  \E s : Reported(s) /\ Emit(s) /\ kept' = kept /\ stats'.samples = stats.samples

-----------------------------------------------------------------------------
(* Reports in which no process moves *)

\* The types of events that are about no process, or change none.
Quiet ==
  {"NODE_REGISTERED", "NODE_REMOVED", "NODE_RECOVERED", "NODE_STATUS_CHANGED",
   "NODE_HEARTBEAT_MISSED", "SCHEDULER_CHANGED", "SIMULATION_STARTED",
   "SIMULATION_PAUSED", "SIMULATION_RESET", "SIMULATION_FINISHED", "SCENARIO_LOADED"}

QuietEntries == EntriesOf(Quiet, ProcIds \cup {NoProc})

\* In the types of a sequence one finds what it cannot report.
LEMMA QuietIsSilent ==
  ASSUME NEW s \in Seq(QuietEntries)
  PROVE  /\ s \in Seq(Entries)
         /\ \A p : Moves(s, p) = {}
         /\ \A j \in 1 .. Len(s) : \A p, n : ~ Frees(s[j], p, n) /\ ~ Gives(s[j], p, n)
         /\ \A type \in Types \ Quiet : Number(s, type) = 0
<1>1. \A j \in 1 .. Len(s) : s[j] \in QuietEntries
  BY ElementOfSeq
<1>2. QuietEntries \subseteq Entries
  BY DEF QuietEntries, Entries, EntriesOf, Quiet, Types
<1>3. \A j \in 1 .. Len(s) : s[j].type \in Quiet
  BY <1>1 DEF QuietEntries, EntriesOf
<1>4. Quiet \cap DOMAIN StateAfter = {}
  BY DEF Quiet, StateAfter
<1>5. \A p : Moves(s, p) = {}
  BY <1>3, <1>4 DEF Moves
<1>6. \A j \in 1 .. Len(s) : \A p, n : ~ Frees(s[j], p, n) /\ ~ Gives(s[j], p, n)
  BY <1>3 DEF Frees, Gives, Quiet
<1>7. \A type \in Types \ Quiet : Number(s, type) = 0
  BY NumberOfNone DEF QuietEntries
<1>8. QED
  BY <1>2, <1>5, <1>6, <1>7, SeqMonotonic

LEMMA CountedTypes ==
  {"NODE_FAILED", "SCHEDULING_DEFERRED", "PROCESS_SCHEDULED", "PROCESS_STARTED"}
    \subseteq Types \ Quiet
BY DEF Types, Quiet, StateAfter

\* No process changes its state or its node.
Calm ==
  /\ \A p \in ProcIds :
       /\ p \in DOMAIN procs <=> p \in DOMAIN procs'
       /\ p \in DOMAIN procs => /\ procs'[p].state = procs[p].state
                                /\ procs'[p].node = procs[p].node
  /\ \A p \in ProcIds, n \in NodeIds : RunsOn(nodes, p, n) <=> RunsOn(nodes', p, n)

\* None of the counters of the log changes.
SameCounts ==
  /\ stats' \in Stats
  /\ stats'.nodeFailures = stats.nodeFailures /\ stats'.deferred = stats.deferred
  /\ stats'.reschedulings = stats.reschedulings

\* A step that changes no process may report whatever is quiet.
LEMMA QuietReport ==
  ASSUME NEW s \in Seq(QuietEntries), Calm, stats \in Stats, SameCounts
  PROVE  Reported(s)
<1>1. /\ s \in Seq(Entries)
      /\ \A p : Moves(s, p) = {}
      /\ \A j \in 1 .. Len(s) : \A p, n : ~ Frees(s[j], p, n) /\ ~ Gives(s[j], p, n)
      /\ \A type \in Types \ Quiet : Number(s, type) = 0
  BY QuietIsSilent
<1>2. Describes(s, procs, procs')
  BY <1>1 DEF Describes, Calm
<1>3. Accounts(s, nodes, nodes')
  BY <1>1 DEF Accounts, Calm
<1>4. Counts(s, stats, stats')
  <2>1. /\ Number(s, "NODE_FAILED") = 0 /\ Number(s, "SCHEDULING_DEFERRED") = 0
        /\ Number(s, "PROCESS_SCHEDULED") = 0 /\ Number(s, "PROCESS_STARTED") = 0
    BY <1>1, CountedTypes
  <2>2. QED
    BY <2>1 DEF Counts, SameCounts, Stats
<1>5. QED
  BY <1>1, <1>2, <1>3, <1>4 DEF Reported

\* A report may begin with entries that nobody is moved or freed by.
Silent(s) ==
  /\ \A p : Moves(s, p) = {}
  /\ \A j \in 1 .. Len(s) : \A p, n : ~ Frees(s[j], p, n) /\ ~ Gives(s[j], p, n)

LEMMA SilentFirst ==
  ASSUME NEW s \in Seq(Entries), NEW t \in Seq(Entries), Silent(s),
         Describes(t, procs, procs'), Accounts(t, nodes, nodes')
  PROVE  Describes(s \o t, procs, procs') /\ Accounts(s \o t, nodes, nodes')
<1>1. /\ s \o t \in Seq(Entries) /\ Len(s) \in Nat /\ Len(t) \in Nat
      /\ Len(s \o t) = Len(s) + Len(t)
      /\ \A i \in 1 .. Len(s) : (s \o t)[i] = s[i]
      /\ \A j \in 1 .. Len(t) : (s \o t)[Len(s) + j] = t[j]
      /\ \A i \in 1 .. Len(s \o t) :
           i \in 1 .. Len(s) \/ \E j \in 1 .. Len(t) : i = Len(s) + j
  BY ConcatHolds
<1> DEFINE r == s \o t
<1>2. Describes(r, procs, procs')
  <2>1. ASSUME NEW p, NEW proc
        PROVE  /\ MovesTo(t, p, proc) => MovesTo(r, p, proc)
               /\ Moves(t, p) = {} => Moves(r, p) = {}
    BY MovesConcat DEF Silent
  <2> HIDE DEF r
  <2>2. QED
    BY <2>1 DEF Describes
<1>3. Accounts(r, nodes, nodes')
  <2>1. ASSUME NEW p, NEW n
        PROVE  /\ HeldIn(t, p, n) => HeldIn(r, p, n)
               /\ (\E j \in 1 .. Len(t) : Frees(t[j], p, n)) /\ ~ HeldIn(t, p, n)
                    => ~ HeldIn(r, p, n)
    BY HeldConcat
  <2>2. ASSUME NEW j \in 1 .. Len(t)
        PROVE  Len(s) + j \in 1 .. Len(r) /\ r[Len(s) + j] = t[j]
    BY <1>1
  <2>3. ASSUME NEW p, NEW n
        PROVE  /\ (\E j \in 1 .. Len(t) : Frees(t[j], p, n))
                    => \E i \in 1 .. Len(r) : Frees(r[i], p, n)
               /\ (\A j \in 1 .. Len(t) : ~ Frees(t[j], p, n) /\ ~ Gives(t[j], p, n))
                    => \A i \in 1 .. Len(r) : ~ Frees(r[i], p, n) /\ ~ Gives(r[i], p, n)
    <3> HIDE DEF r
    <3>1. (\E j \in 1 .. Len(t) : Frees(t[j], p, n))
             => \E i \in 1 .. Len(r) : Frees(r[i], p, n)
      BY <2>2
    <3>2. ASSUME \A j \in 1 .. Len(t) : ~ Frees(t[j], p, n) /\ ~ Gives(t[j], p, n),
                 NEW i \in 1 .. Len(r)
          PROVE  ~ Frees(r[i], p, n) /\ ~ Gives(r[i], p, n)
      BY <1>1, <3>2 DEF Silent, r
    <3>3. QED
      BY <3>1, <3>2
  <2> HIDE DEF r
  <2>4. QED
    BY <2>1, <2>3 DEF Accounts
<1>4. QED
  BY <1>2, <1>3

LEMMA QuietFirst ==
  ASSUME NEW s \in Seq(QuietEntries), NEW t, Reported(t)
  PROVE  Reported(s \o t)
<1>1. /\ s \in Seq(Entries) /\ t \in Seq(Entries) /\ Silent(s)
      /\ \A type \in Types \ Quiet : Number(s, type) = 0
  BY QuietIsSilent DEF Reported, Silent
<1> DEFINE r == s \o t
<1>2. r \in Seq(Entries)
  BY <1>1, ConcatProperties
<1>3. Describes(r, procs, procs') /\ Accounts(r, nodes, nodes')
  BY <1>1, SilentFirst DEF Reported
<1>4. Counts(r, stats, stats')
  <2>1. \A type \in Types \ Quiet : Number(r, type) = Number(t, type)
    <3>1. ASSUME NEW type \in Types \ Quiet
          PROVE  Number(r, type) = Number(t, type)
      <4>1. Number(s, type) = 0 /\ Number(t, type) \in Nat
            /\ Number(r, type) = Number(s, type) + Number(t, type)
        BY <1>1, NumberConcat
      <4>2. QED
        BY <4>1
    <3>2. QED
      BY <3>1
  <2> HIDE DEF r
  <2>2. QED
    BY <2>1, CountedTypes DEF Reported, Counts
<1>5. QED
  BY <1>2, <1>3, <1>4 DEF Reported

-----------------------------------------------------------------------------
(* Reports about one process *)

\* The types of the moves by which a process does not begin to run.
Ends == DOMAIN StateAfter \ {"PROCESS_SCHEDULED"}

\* The types of what is reported of a process that leaves its node.
Own == Ends \cup {"RESOURCE_RELEASED"}

\* Something is released.
Lets(s) == \E j \in 1 .. Len(s) : s[j].type = "RESOURCE_RELEASED"

OthersStay(p) ==
  \A q \in ProcIds \ {p} :
    /\ q \in DOMAIN procs <=> q \in DOMAIN procs'
    /\ q \in DOMAIN procs => procs'[q] = procs[q]

\* What a report about one process has to say, if all others stay as they are.
LEMMA OneProcessReport ==
  ASSUME NEW p \in ProcIds, NEW s \in Seq(EntriesOf(Own, {p})),
         p \in DOMAIN procs', MovesTo(s, p, procs'[p]), OthersStay(p),
         \A q \in ProcIds, n \in NodeIds :
            RunsOn(nodes', q, n) <=> RunsOn(nodes, q, n) /\ ~ (q = p /\ Lets(s)),
         stats \in Stats, stats' = stats
  PROVE  Reported(s)
<1>1. \A j \in 1 .. Len(s) : s[j].process = p /\ s[j].type \in Own
  <2>1. \A j \in 1 .. Len(s) : s[j] \in EntriesOf(Own, {p})
    BY ElementOfSeq
  <2>2. QED
    BY <2>1 DEF EntriesOf
<1>2. s \in Seq(Entries)
  <2>1. Own \subseteq Types
    BY DEF Own, Ends, Types
  <2>2. EntriesOf(Own, {p}) \subseteq Entries
    BY <2>1 DEF Entries, EntriesOf
  <2>3. QED
    BY <2>2, SeqMonotonic
<1>3. Describes(s, procs, procs')
  <2>1. ASSUME NEW q \in ProcIds, q # p
        PROVE  Moves(s, q) = {}
    BY <1>1, <2>1 DEF Moves
  <2>2. QED
    BY <2>1 DEF Describes, OthersStay
<1>4. /\ \A j \in 1 .. Len(s) : \A q, n : ~ Gives(s[j], q, n)
      /\ \A j \in 1 .. Len(s) : \A q, n :
           Frees(s[j], q, n) <=> q = p /\ s[j].type = "RESOURCE_RELEASED"
  <2>1. "NODE_FAILED" \notin Own /\ "RESOURCE_ALLOCATED" \notin Own
    BY DEF Own, Ends, StateAfter
  <2>2. QED
    BY <1>1, <2>1 DEF Gives, Frees
<1>5. Accounts(s, nodes, nodes')
  <2> SUFFICES ASSUME NEW q \in ProcIds, NEW n \in NodeIds
               PROVE  \/ HeldIn(s, q, n) /\ RunsOn(nodes', q, n)
                      \/ /\ \E j \in 1 .. Len(s) : Frees(s[j], q, n)
                         /\ ~ HeldIn(s, q, n) /\ ~ RunsOn(nodes', q, n)
                      \/ /\ \A j \in 1 .. Len(s) : ~ Frees(s[j], q, n) /\ ~ Gives(s[j], q, n)
                         /\ RunsOn(nodes, q, n) <=> RunsOn(nodes', q, n)
    BY DEF Accounts
  <2>1. ~ HeldIn(s, q, n)
    BY <1>4 DEF HeldIn
  <2>2. CASE q = p /\ Lets(s)
    BY <1>4, <2>1, <2>2 DEF Lets
  <2>3. CASE ~ (q = p /\ Lets(s))
    BY <1>4, <2>3 DEF Lets
  <2>4. QED
    BY <2>2, <2>3
<1>6. Counts(s, stats, stats')
  <2>1. /\ "NODE_FAILED" \notin Own /\ "SCHEDULING_DEFERRED" \notin Own
        /\ "PROCESS_SCHEDULED" \notin Own /\ "PROCESS_STARTED" \notin Own
    BY DEF Own, Ends, StateAfter
  <2>2. /\ Number(s, "NODE_FAILED") = 0 /\ Number(s, "SCHEDULING_DEFERRED") = 0
        /\ Number(s, "PROCESS_SCHEDULED") = 0 /\ Number(s, "PROCESS_STARTED") = 0
    BY <2>1, NumberOfNone
  <2>3. QED
    BY <2>2 DEF Counts, Stats
<1>7. QED
  BY <1>2, <1>3, <1>5, <1>6 DEF Reported

\* One entry says where its process went.
LEMMA OneMove ==
  ASSUME NEW e, e.type \in Ends, NEW proc, proc.state = StateAfter[e.type]
  PROVE  /\ MovesTo(<<e>>, e.process, proc) /\ ~ Lets(<<e>>)
         /\ proc.state # "RUNNING"
<1>1. "RESOURCE_RELEASED" \notin Ends /\ Ends \subseteq DOMAIN StateAfter
      /\ \A t \in Ends : StateAfter[t] # "RUNNING"
  BY DEF Ends, StateAfter
<1>2. Len(<<e>>) = 1 /\ <<e>>[1] = e /\ 1 .. 1 = {1} /\ 1 <= 1
  OBVIOUS
<1>3. Moves(<<e>>, e.process) = {1}
  BY <1>1, <1>2 DEF Moves
<1>4. QED
  BY <1>1, <1>2, <1>3 DEF MovesTo, Lets

\* One process moves and no node changes, and one entry says so.
LEMMA OneEntryReport ==
  ASSUME NEW p \in ProcIds, NEW e \in EntriesOf(Ends, {p}),
         p \in DOMAIN procs', procs'[p].state = StateAfter[e.type], OthersStay(p),
         nodes' = nodes, stats \in Stats, stats' = stats
  PROVE  Reported(<<e>>)
<1>1. e.process = p /\ e.type \in Ends /\ e \in EntriesOf(Own, {p})
  BY DEF EntriesOf, Own
<1>2. MovesTo(<<e>>, p, procs'[p]) /\ ~ Lets(<<e>>)
  BY <1>1, OneMove
<1>3. <<e>> \in Seq(EntriesOf(Own, {p}))
  BY <1>1
<1>4. QED
  BY <1>2, <1>3, OneProcessReport

\* The process that runs is listed nowhere but on its node.
LEMMA ReleasedEverywhere ==
  ASSUME IInv, NEW p \in DOMAIN procs, procs[p].state = "RUNNING", nodes' = AfterRelease(p)
  PROVE  \A q \in ProcIds, n \in NodeIds :
           RunsOn(nodes', q, n) <=> RunsOn(nodes, q, n) /\ q # p
<1> DEFINE h == procs[p].node
<1>1. h \in DOMAIN nodes /\ \A n \in DOMAIN nodes : p \in nodes[n].running => n = h
  BY DEF IInv, Sound, HostingIn, ListsOnlyItsOwn
<1>2. DOMAIN nodes' = DOMAIN nodes
  BY DEF AfterRelease
<1>3. nodes'[h].running = nodes[h].running \ {p}
  <2>1. nodes[h] \in Node
    BY <1>1 DEF IInv, TypeOK, NodesOK
  <2>2. nodes'[h] = Released(nodes[h], p, procs[p])
    BY <1>1 DEF AfterRelease
  <2>3. QED
    BY <2>1, <2>2 DEF Released, Node
<1>4. \A n \in DOMAIN nodes : n # h => nodes'[n] = nodes[n]
  BY DEF AfterRelease
<1> HIDE DEF h
<1>5. QED
  BY <1>1, <1>2, <1>3, <1>4 DEF RunsOn

\* A process gives up what it has and goes where the rest of the report says.
LEMMA ReleasingReport ==
  ASSUME IInv, NEW p \in DOMAIN procs, NEW s \in Seq(EntriesOf(Ends, {p})), NEW v,
         procs' = [procs EXCEPT ![p] = v], MovesTo(s, p, v),
         nodes' = (IF procs[p].state = "RUNNING" THEN AfterRelease(p) ELSE nodes),
         stats \in Stats, stats' = stats
  PROVE  Reported(ReleaseEntries(p) \o s)
<1> DEFINE E == EntriesOf(Own, {p})
           first == ReleaseEntries(p)
           r == first \o s
<1>1. p \in ProcIds /\ procs[p].node \in NodeIds \cup {NoNode}
  BY DEF IInv, TypeOK, ProcsOK, Process
<1>2. s \in Seq(E)
  <2>1. EntriesOf(Ends, {p}) \subseteq E
    BY DEF EntriesOf, Own
  <2>2. QED
    BY <2>1, SeqMonotonic
<1>3. first \in Seq(E)
  <2>1. Entry("RESOURCE_RELEASED", p, procs[p].node) \in E
    BY <1>1 DEF EntriesOf, Entry, Own
  <2> HIDE DEF E
  <2>2. <<Entry("RESOURCE_RELEASED", p, procs[p].node)>> \in Seq(E)
    BY <2>1
  <2>3. <<>> \in Seq(E)
    OBVIOUS
  <2>4. QED
    BY <2>2, <2>3 DEF ReleaseEntries
<1>4. /\ r \in Seq(E) /\ Len(first) \in Nat /\ Len(s) \in Nat
      /\ Len(r) = Len(first) + Len(s)
      /\ \A i \in 1 .. Len(first) : r[i] = first[i]
      /\ \A j \in 1 .. Len(s) : r[Len(first) + j] = s[j]
      /\ \A i \in 1 .. Len(r) :
           i \in 1 .. Len(first) \/ \E j \in 1 .. Len(s) : i = Len(first) + j
  BY <1>2, <1>3, ConcatHolds
<1>5. Lets(r) <=> procs[p].state = "RUNNING"
  <2>1. CASE procs[p].state = "RUNNING"
    <3>1. Len(first) = 1 /\ first[1].type = "RESOURCE_RELEASED"
      BY <2>1 DEF ReleaseEntries, Entry
    <3> HIDE DEF first
    <3>2. 1 \in 1 .. Len(r) /\ r[1].type = "RESOURCE_RELEASED"
      BY <1>4, <3>1
    <3>3. QED
      BY <2>1, <3>2 DEF Lets
  <2>2. CASE procs[p].state # "RUNNING"
    <3>1. Len(first) = 0
      BY <2>2 DEF ReleaseEntries
    <3>2. \A j \in 1 .. Len(s) : s[j].type # "RESOURCE_RELEASED"
      <4>1. \A j \in 1 .. Len(s) : s[j] \in EntriesOf(Ends, {p})
        BY ElementOfSeq
      <4>2. "RESOURCE_RELEASED" \notin Ends
        BY DEF Ends, StateAfter
      <4>3. QED
        BY <4>1, <4>2 DEF EntriesOf
    <3> HIDE DEF first, r
    <3>3. ASSUME NEW i \in 1 .. Len(r)
          PROVE  r[i].type # "RESOURCE_RELEASED"
      <4>1. PICK j \in 1 .. Len(s) : i = Len(first) + j
        BY <1>4, <3>1
      <4>2. QED
        BY <1>4, <3>2, <4>1
    <3>4. QED
      BY <2>2, <3>3 DEF Lets
  <2>3. QED
    BY <2>1, <2>2
<1>6. MovesTo(r, p, procs'[p])
  <2>1. procs'[p] = v
    OBVIOUS
  <2> HIDE DEF E, first
  <2>2. QED
    BY <1>2, <1>3, <2>1, MovesConcat
<1>7. p \in DOMAIN procs' /\ OthersStay(p)
  BY DEF OthersStay
<1>8. \A q \in ProcIds, n \in NodeIds :
        RunsOn(nodes', q, n) <=> RunsOn(nodes, q, n) /\ ~ (q = p /\ Lets(r))
  <2>1. CASE procs[p].state = "RUNNING"
    <3>1. \A q \in ProcIds, n \in NodeIds :
            RunsOn(nodes', q, n) <=> RunsOn(nodes, q, n) /\ q # p
      BY <2>1, ReleasedEverywhere
    <3> HIDE DEF r
    <3>2. QED
      BY <1>5, <2>1, <3>1
  <2>2. CASE procs[p].state # "RUNNING"
    <3> HIDE DEF r
    <3> QED BY <1>5, <2>2
  <2>3. QED
    BY <2>1, <2>2
<1> HIDE DEF r
<1>9. r \in Seq(EntriesOf(Own, {p}))
  BY <1>4
<1>10. Reported(r)
  BY <1>1, <1>6, <1>7, <1>8, <1>9, OneProcessReport
<1>11. QED
  BY <1>10 DEF r

-----------------------------------------------------------------------------
(* Reports of failures *)

Broken == {"PROCESS_FAILED", "PROCESS_RESTARTED"}

\* The entries of a failure lead where the failure leads.
LEMMA FailureMoves ==
  ASSUME NEW p \in ProcIds, NEW n \in NodeIds \cup {NoNode},
         NEW w \in Process, CanRestart(w) <=> CanRestart(procs[p])
  PROVE  /\ FailureEntries(p, n) \in Seq(EntriesOf(Broken, {p}))
         /\ MovesTo(FailureEntries(p, n), p, AfterFailure(w, tick))
<1> DEFINE E == EntriesOf(Broken, {p})
           e == Entry("PROCESS_FAILED", p, n)
           f == ProcEntry("PROCESS_RESTARTED", p)
           v == AfterFailure(w, tick)
<1>1. e \in E /\ f \in E /\ e.process = p /\ f.process = p
      /\ e.type = "PROCESS_FAILED" /\ f.type = "PROCESS_RESTARTED"
  BY DEF EntriesOf, Broken, Entry, ProcEntry, NoNode
<1>2. v.state = IF CanRestart(w) THEN "READY" ELSE "FAILED"
  BY DEF AfterFailure, Process
<1>3. /\ e.type \in Ends /\ f.type \in Ends
      /\ StateAfter[e.type] = "FAILED" /\ StateAfter[f.type] = "READY"
  BY <1>1 DEF Ends, StateAfter
<1>4. <<>> \in Seq(E) /\ <<e>> \in Seq(E) /\ <<f>> \in Seq(E) /\ Moves(<<>>, p) = {}
  BY <1>1 DEF Moves
<1>5. FailureEntries(p, n) = <<e>> \o IF CanRestart(procs[p]) THEN <<f>> ELSE <<>>
  BY DEF FailureEntries
<1> HIDE DEF e, f, v, E
<1>6. CASE CanRestart(w)
  <2>1. MovesTo(<<f>>, p, v)
    BY <1>1, <1>2, <1>3, <1>6, OneMove
  <2>2. MovesTo(<<e>> \o <<f>>, p, v) /\ <<e>> \o <<f>> \in Seq(E)
    BY <1>4, <2>1, MovesConcat, ConcatProperties
  <2>3. QED
    BY <1>5, <1>6, <2>2 DEF E, v
<1>7. CASE ~ CanRestart(w)
  <2>1. MovesTo(<<e>>, p, v)
    BY <1>1, <1>2, <1>3, <1>7, OneMove
  <2>2. MovesTo(<<e>> \o <<>>, p, v) /\ <<e>> \o <<>> \in Seq(E)
    BY <1>4, <2>1, MovesConcat, ConcatProperties
  <2>3. QED
    BY <1>5, <1>7, <2>2 DEF E, v
<1>8. QED
  BY <1>6, <1>7

\* Blocks of entries, each about the one it is the block of.
LEMMA BlocksMove ==
  ASSUME NEW r, NEW E, NEW X, NEW parts, MadeOf(r, E, X, parts),
         \A x \in X : /\ Len(parts[x]) \in Nat
                      /\ \A j \in 1 .. Len(parts[x]) : parts[x][j].process = x
  PROVE  /\ \A x \in X : \A proc : MovesTo(parts[x], x, proc) => MovesTo(r, x, proc)
         /\ \A x : x \notin X => Moves(r, x) = {}
<1>1. ASSUME NEW x \in X, NEW proc, MovesTo(parts[x], x, proc)
      PROVE  MovesTo(r, x, proc)
  <2>1. PICK base \in Nat :
          /\ base + Len(parts[x]) <= Len(r)
          /\ \A j \in 1 .. Len(parts[x]) : r[base + j] = parts[x][j]
          /\ \A i \in 1 .. Len(r) :
               \/ i \in base + 1 .. base + Len(parts[x])
               \/ \E y \in X \ {x} :
                    \E j \in 1 .. Len(parts[y]) : r[i] = parts[y][j]
    BY DEF MadeOf
  <2>2. PICK i \in Moves(parts[x], x) :
          /\ \A j \in Moves(parts[x], x) : j <= i
          /\ proc.state = StateAfter[parts[x][i].type]
          /\ proc.state = "RUNNING" => proc.node = parts[x][i].node
    BY <1>1 DEF MovesTo
  <2> DEFINE a == Len(parts[x])
             b == Len(r)
             part == parts[x]
  <2>3. a \in Nat /\ b \in Nat /\ base \in Nat /\ base + a <= b
    BY <2>1, LenProperties DEF MadeOf
  <2>4. /\ Moves(part, x) = {j \in 1 .. a : part[j].process = x /\ part[j].type \in DOMAIN StateAfter}
        /\ Moves(r, x) = {j \in 1 .. b : r[j].process = x /\ r[j].type \in DOMAIN StateAfter}
    BY DEF Moves
  <2>5. \A j \in 1 .. a : r[base + j] = part[j]
    BY <2>1
  <2>6. \A k \in 1 .. b : k \in base + 1 .. base + a \/ r[k].process # x
    <3> SUFFICES ASSUME NEW k \in 1 .. b, k \notin base + 1 .. base + a
                 PROVE  r[k].process # x
      OBVIOUS
    <3>1. PICK y \in X \ {x} : \E j \in 1 .. Len(parts[y]) : r[k] = parts[y][j]
      BY <2>1
    <3>2. QED
      BY <3>1
  <2>7. /\ i \in Moves(part, x) /\ \A j \in Moves(part, x) : j <= i
        /\ proc.state = StateAfter[part[i].type]
        /\ proc.state = "RUNNING" => proc.node = part[i].node
    BY <2>2
  <2> DEFINE D == DOMAIN StateAfter
  <2> HIDE DEF a, b, part, D
  <2>8. /\ Moves(part, x) = {j \in 1 .. a : part[j].process = x /\ part[j].type \in D}
        /\ Moves(r, x) = {j \in 1 .. b : r[j].process = x /\ r[j].type \in D}
    BY <2>4 DEF D
  <2>9. base + i \in Moves(r, x) /\ r[base + i] = part[i]
    <3>1. i \in 1 .. a
      BY <2>7, <2>8
    <3>2. base + i \in 1 .. b /\ r[base + i] = part[i]
      BY <2>3, <2>5, <3>1
    <3>3. QED
      BY <2>7, <2>8, <3>2
  <2>10. ASSUME NEW k \in Moves(r, x)
         PROVE  k <= base + i
    <3>1. k \in 1 .. b /\ r[k].process = x /\ r[k].type \in D
      BY <2>8
    <3>2. k \in base + 1 .. base + a
      BY <2>6, <3>1
    <3>3. k - base \in 1 .. a /\ base + (k - base) = k
      BY <2>3, <3>1, <3>2
    <3>4. k - base \in Moves(part, x)
      BY <2>5, <2>8, <3>1, <3>3
    <3>5. k - base <= i /\ i \in 1 .. a
      BY <2>7, <2>8, <3>4
    <3>6. QED
      BY <2>3, <3>1, <3>5
  <2>11. QED
    BY <2>7, <2>9, <2>10 DEF MovesTo
<1>2. ASSUME NEW x, x \notin X
      PROVE  Moves(r, x) = {}
  <2>1. \A i \in 1 .. Len(r) : \E y \in X : \E j \in 1 .. Len(parts[y]) : r[i] = parts[y][j]
    BY DEF MadeOf
  <2>2. \A i \in 1 .. Len(r) : r[i].process # x
    BY <1>2, <2>1
  <2>3. QED
    BY <2>2 DEF Moves
<1>3. QED
  BY <1>1, <1>2

\* When a node fails, each process it ran is reported failed or restarted.
LEMMA NodeFailureReport ==
  ASSUME IInv, NEW n, FailNodeLocked(n), stats \in Stats,
         stats' = [stats EXCEPT !.nodeFailures = @ + 1]
  PROVE  Reported(NodeFailureEntries(n))
<1> DEFINE S == nodes[n].running
           parts == [p \in S |-> FailureEntries(p, NoNode)]
           E == EntriesOf(Broken, ProcIds)
           e == NodeEntry("NODE_FAILED", n)
           body == ForEach(parts)
           r == <<e>> \o body
<1>1. /\ n \in NodeIds /\ n \in DOMAIN nodes
      /\ S \subseteq ProcIds /\ S \subseteq DOMAIN procs /\ IsFiniteSet(S) /\ S \subseteq Nat
  <2>1. n \in NodeIds /\ n \in DOMAIN nodes /\ nodes[n] \in Node
    BY DEF FailNodeLocked, CanFailNode, IInv, TypeOK, NodesOK
  <2>2. S \subseteq ProcIds /\ S \subseteq DOMAIN procs
    BY <2>1 DEF Node, IInv, Sound, HostingIn, ListsOnlyItsOwn
  <2>3. QED
    BY <2>1, <2>2, IdsAssumption, FS_Subset
<1>2. ASSUME NEW p \in S
      PROVE  /\ parts[p] \in Seq(EntriesOf(Broken, {p})) /\ parts[p] \in Seq(E)
             /\ MovesTo(parts[p], p, procs'[p]) /\ p \in DOMAIN procs'
  <2>1. procs[p] \in Process /\ p \in ProcIds
    BY <1>1 DEF IInv, TypeOK, ProcsOK
  <2>2. procs'[p] = AfterFailure(Unplaced(procs[p]), tick) /\ p \in DOMAIN procs'
    BY <1>1 DEF FailNodeLocked
  <2>3. Unplaced(procs[p]) \in Process /\ (CanRestart(Unplaced(procs[p])) <=> CanRestart(procs[p]))
    BY <2>1 DEF Unplaced, CanRestart, Process
  <2>4. parts[p] = FailureEntries(p, NoNode) /\ NoNode \in NodeIds \cup {NoNode}
    OBVIOUS
  <2>5. /\ FailureEntries(p, NoNode) \in Seq(EntriesOf(Broken, {p}))
        /\ MovesTo(FailureEntries(p, NoNode), p, procs'[p])
    BY <2>1, <2>2, <2>3, <2>4, FailureMoves
  <2>6. EntriesOf(Broken, {p}) \subseteq E
    BY <2>1 DEF EntriesOf
  <2>7. Seq(EntriesOf(Broken, {p})) \subseteq Seq(E)
    BY <2>6, SeqMonotonic
  <2> HIDE DEF parts, E
  <2>8. QED
    BY <2>2, <2>4, <2>5, <2>7
<1>3. \A q \in ProcIds \ S :
        /\ q \in DOMAIN procs <=> q \in DOMAIN procs'
        /\ q \in DOMAIN procs => procs'[q] = procs[q]
  BY DEF FailNodeLocked
<1>4. \A q \in ProcIds, m \in NodeIds : RunsOn(nodes', q, m) <=> RunsOn(nodes, q, m) /\ m # n
  <2>1. nodes' = [nodes EXCEPT ![n] = Emptied(@)] /\ nodes[n] \in Node
    BY <1>1 DEF FailNodeLocked, IInv, TypeOK, NodesOK
  <2>2. nodes'[n].running = {} /\ DOMAIN nodes' = DOMAIN nodes
    BY <1>1, <2>1 DEF Emptied, Node
  <2>3. \A m \in DOMAIN nodes : m # n => nodes'[m] = nodes[m]
    BY <2>1
  <2>4. QED
    BY <2>2, <2>3 DEF RunsOn
<1>5. e.type = "NODE_FAILED" /\ e.node = n /\ e.process = NoProc /\ e \in Entries
      /\ NodeFailureEntries(n) = r
  BY <1>1 DEF NodeEntry, Entry, Entries, EntriesOf, Types, NodeFailureEntries
<1>6. NoProc \notin ProcIds
  BY IdsAssumption DEF NoProc
<1> HIDE DEF e
<1>7. MadeOf(body, E, S, parts)
  <2>1. parts \in [S -> Seq(E)]
    BY <1>2
  <2> HIDE DEF parts, E, S
  <2>2. QED
    BY <1>1, <2>1, ForEachHolds
<1>8. \A p \in S : /\ Len(parts[p]) \in Nat
                   /\ \A j \in 1 .. Len(parts[p]) : parts[p][j].process = p
  <2> SUFFICES ASSUME NEW p \in S
               PROVE  /\ Len(parts[p]) \in Nat
                      /\ \A j \in 1 .. Len(parts[p]) : parts[p][j].process = p
    OBVIOUS
  <2>1. parts[p] \in Seq(EntriesOf(Broken, {p}))
    BY <1>2
  <2> HIDE DEF parts
  <2>2. \A j \in 1 .. Len(parts[p]) : parts[p][j] \in EntriesOf(Broken, {p})
    BY <2>1, ElementOfSeq
  <2>3. QED
    BY <2>1, <2>2, LenProperties DEF EntriesOf
<1> HIDE DEF parts, body
<1>9. /\ \A p \in S : \A proc : MovesTo(parts[p], p, proc) => MovesTo(body, p, proc)
      /\ \A p : p \notin S => Moves(body, p) = {}
  BY <1>7, <1>8, BlocksMove
<1>10. body \in Seq(E) /\ body \in Seq(Entries) /\ <<e>> \in Seq(Entries)
  <2>1. E \subseteq Entries
    BY DEF Entries, EntriesOf, Broken, Types, StateAfter
  <2>2. body \in Seq(E)
    BY <1>7 DEF MadeOf
  <2>3. QED
    BY <1>5, <2>1, <2>2, SeqMonotonic
<1>11. /\ r \in Seq(Entries) /\ Len(body) \in Nat /\ Len(r) = 1 + Len(body) /\ r[1] = e
       /\ \A j \in 1 .. Len(body) : r[1 + j] = body[j]
       /\ \A i \in 1 .. Len(r) : i = 1 \/ \E j \in 1 .. Len(body) : i = 1 + j
  <2> DEFINE s == <<e>>
  <2>1. Len(s) = 1 /\ s[1] = e /\ s \in Seq(Entries)
    BY <1>10
  <2> HIDE DEF s
  <2>2. /\ s \o body \in Seq(Entries) /\ Len(body) \in Nat
        /\ Len(s \o body) = Len(s) + Len(body)
        /\ \A i \in 1 .. Len(s) : (s \o body)[i] = s[i]
        /\ \A j \in 1 .. Len(body) : (s \o body)[Len(s) + j] = body[j]
        /\ \A i \in 1 .. Len(s \o body) :
             i \in 1 .. Len(s) \/ \E j \in 1 .. Len(body) : i = Len(s) + j
    <3>1. s \in Seq(Entries) /\ body \in Seq(Entries)
      BY <1>10, <2>1
    <3>2. QED
      BY ONLY <3>1, ConcatHolds
  <2>3. \A i \in 1 .. 1 : i = 1
    OBVIOUS
  <2>4. r = s \o body
    BY DEF s
  <2> HIDE DEF r
  <2>5. QED
    BY <2>1, <2>2, <2>3, <2>4
<1>12. Describes(r, procs, procs')
  <2>1. \A q \in ProcIds : Moves(<<e>>, q) = {}
    BY <1>5, <1>6 DEF Moves
  <2>2. ASSUME NEW q \in ProcIds
        PROVE  /\ \A proc : MovesTo(body, q, proc) => MovesTo(r, q, proc)
               /\ Moves(body, q) = {} => Moves(r, q) = {}
    BY <1>10, <2>1, MovesConcat
  <2> HIDE DEF r
  <2>3. \A q \in S : q \in DOMAIN procs' /\ MovesTo(r, q, procs'[q])
    BY <1>1, <1>2, <1>9, <2>2
  <2>4. \A q \in ProcIds \ S : Moves(r, q) = {}
    BY <1>9, <2>2
  <2> HIDE DEF S
  <2>5. QED
    BY <1>3, <2>3, <2>4 DEF Describes
<1>13. /\ r[1] = e /\ 1 \in 1 .. Len(r)
       /\ \A i \in 1 .. Len(r) : r[i] = e \/ r[i].type \in Broken
  <2>1. \A j \in 1 .. Len(body) : body[j] \in E
    BY <1>10, ElementOfSeq
  <2>2. \A j \in 1 .. Len(body) : body[j].type \in Broken
    BY <2>1 DEF EntriesOf
  <2>3. ASSUME NEW i \in 1 .. Len(r), NEW j \in 1 .. Len(body), i = 1 + j
        PROVE  r[i].type \in Broken
    <3>1. r[1 + j] = body[j]
      BY <1>11
    <3> HIDE DEF r
    <3>2. QED
      BY <2>2, <2>3, <3>1
  <2>4. 1 \in 1 .. Len(r)
    BY <1>11
  <2> HIDE DEF r
  <2>5. QED
    BY <1>11, <2>3, <2>4
<1>14. Accounts(r, nodes, nodes')
  <2> HIDE DEF r
  <2>1. \A i \in 1 .. Len(r) : \A q, m : ~ Gives(r[i], q, m) /\ (Frees(r[i], q, m) => m = n)
    BY <1>5, <1>13 DEF Gives, Frees, Broken
  <2>2. \A q, m : ~ HeldIn(r, q, m)
    BY <2>1 DEF HeldIn
  <2>3. \A q : Frees(r[1], q, n)
    BY <1>5, <1>13 DEF Frees
  <2>4. QED
    BY <1>4, <1>13, <2>1, <2>2, <2>3 DEF Accounts
<1>15. Counts(r, stats, stats')
  <2>1. \A type \in Types : type \notin Broken =>
          Number(r, type) = IF type = "NODE_FAILED" THEN 1 ELSE 0
    <3> SUFFICES ASSUME NEW type \in Types, type \notin Broken
                 PROVE  Number(r, type) = IF type = "NODE_FAILED" THEN 1 ELSE 0
      OBVIOUS
    <3>1. Number(r, type) = Number(<<e>>, type) + Number(body, type)
      BY <1>10, NumberConcat
    <3>2. Number(body, type) = 0
      BY <1>10, NumberOfNone
    <3>3. Number(<<e>>, type) = IF type = "NODE_FAILED" THEN 1 ELSE 0
      BY <1>5, NumberOfOne
    <3> HIDE DEF r
    <3>4. QED
      BY <3>1, <3>2, <3>3
  <2> HIDE DEF r
  <2>2. /\ Number(r, "NODE_FAILED") = 1 /\ Number(r, "SCHEDULING_DEFERRED") = 0
        /\ Number(r, "PROCESS_SCHEDULED") = 0 /\ Number(r, "PROCESS_STARTED") = 0
    BY <2>1, CountedTypes DEF Broken
  <2>3. QED
    BY <2>2 DEF Counts, Stats
<1> HIDE DEF r
<1>16. QED
  BY <1>5, <1>11, <1>12, <1>14, <1>15 DEF Reported

-----------------------------------------------------------------------------
(* Reports of the scheduler *)

\* The node a process is put on is the one its report names.
LEMMA ChosenNode ==
  ASSUME PInv, NEW p, Place(p)
  PROVE  LET n == CHOOSE m \in DOMAIN snaps : Selects(algorithm, snaps, cursor, procs[p], m)
         IN  /\ p \in DOMAIN procs /\ procs[p].state = "READY"
             /\ n \in DOMAIN nodes
             /\ nodes' = [nodes EXCEPT ![n] = Allocated(@, p, procs[p])]
             /\ procs' = [procs EXCEPT ![p] = Started(@, n)]
<1> DEFINE Chosen(m) == Selects(algorithm, snaps, cursor, procs[p], m)
           n == CHOOSE m \in DOMAIN snaps : Chosen(m)
           fits == Fitting(snaps, procs[p])
           best == {m \in fits : Chosen(m)}
<1>1. PICK h \in DOMAIN nodes :
        /\ p \in DOMAIN procs /\ procs[p].state = "READY" /\ p \in todo
        /\ PlaceOn(p, h)
        /\ nodes' = [nodes EXCEPT ![h] = Allocated(@, p, procs[p])]
        /\ procs' = [procs EXCEPT ![p] = Started(@, h)]
  BY PlaceOnSucceeds DEF PInv
<1>2. phase = "place" /\ DOMAIN snaps = DOMAIN nodes
  BY DEF Place, PInv, SnapshotsCurrent
<1>3. \A m : Chosen(m) => m \in best
  BY DEF Selects, NextInTurn, LeastLoaded
<1>4. Chosen(h)
  BY <1>1 DEF PlaceOn
<1>5. Chosen(n)
  BY <1>2, <1>4
<1>6. Cardinality(best) = 1
  <2>1. Cardinality(best) = IF fits = {} THEN 0 ELSE 1
    BY <1>1, <1>2, OneWayToSchedule DEF ScheduleIsDetermined
  <2>2. fits # {}
    BY <1>3, <1>4
  <2>3. QED
    BY <2>1, <2>2
<1>7. IsFiniteSet(best)
  <2>1. DOMAIN nodes \subseteq NodeIds
    BY DEF PInv, IInv, TypeOK, NodesOK
  <2>2. best \subseteq DOMAIN nodes
    BY <1>2 DEF Fitting
  <2>3. QED
    BY <2>1, <2>2, IdsAssumption, FS_Subset
<1> HIDE DEF best, n, Chosen
<1>8. \E x : best = {x}
  BY <1>6, <1>7, FS_Singleton
<1>9. n = h
  BY <1>3, <1>4, <1>5, <1>8
<1>10. QED
  BY <1>1, <1>9 DEF n, Chosen

\* What is reported of a process that is put on a node.
PlacedEntries(p, n) == <<Entry("PROCESS_SCHEDULED", p, n), Entry("RESOURCE_ALLOCATED", p, n)>>

\* The entries of a placement tell that the process runs on its node.
LEMMA PlacedTells ==
  ASSUME IInv, NEW p \in DOMAIN procs, procs[p].state = "READY", NEW n \in DOMAIN nodes,
         nodes' = [nodes EXCEPT ![n] = Allocated(@, p, procs[p])],
         procs' = [procs EXCEPT ![p] = Started(@, n)]
  PROVE  /\ PlacedEntries(p, n) \in Seq(Entries)
         /\ Describes(PlacedEntries(p, n), procs, procs')
         /\ Accounts(PlacedEntries(p, n), nodes, nodes')
         /\ Number(PlacedEntries(p, n), "PROCESS_SCHEDULED") = 1
         /\ \A type \in {"NODE_FAILED", "SCHEDULING_DEFERRED", "PROCESS_STARTED"} :
              Number(PlacedEntries(p, n), type) = 0
<1> DEFINE e == Entry("PROCESS_SCHEDULED", p, n)
           f == Entry("RESOURCE_ALLOCATED", p, n)
           s == PlacedEntries(p, n)
<1>1. /\ p \in ProcIds /\ n \in NodeIds /\ procs[p] \in Process /\ nodes[n] \in Node
  BY DEF IInv, TypeOK, ProcsOK, NodesOK
<1>2. /\ e.type = "PROCESS_SCHEDULED" /\ e.process = p /\ e.node = n
      /\ f.type = "RESOURCE_ALLOCATED" /\ f.process = p /\ f.node = n
      /\ e \in Entries /\ f \in Entries
  BY <1>1 DEF Entry, Entries, EntriesOf, Types, StateAfter
<1>3. Len(s) = 2 /\ s[1] = e /\ s[2] = f /\ 1 .. 2 = {1, 2}
  BY DEF PlacedEntries
<1>4. s \in Seq(Entries)
  <2> HIDE DEF e, f
  <2>1. <<e, f>> \in Seq(Entries)
    BY <1>2
  <2>2. QED
    BY <2>1 DEF PlacedEntries, e, f
<1>5. procs'[p].state = "RUNNING" /\ procs'[p].node = n
  BY <1>1 DEF Started, Process
<1> HIDE DEF e, f, s
<1>6. /\ "PROCESS_SCHEDULED" \in DOMAIN StateAfter
      /\ StateAfter["PROCESS_SCHEDULED"] = "RUNNING"
      /\ "RESOURCE_ALLOCATED" \notin DOMAIN StateAfter
  BY DEF StateAfter
<1>7. Moves(s, p) = {1} /\ \A q : q # p => Moves(s, q) = {}
  BY <1>2, <1>3, <1>6 DEF Moves
<1>8. Describes(s, procs, procs')
  <2>1. MovesTo(s, p, procs'[p])
    <3>1. 1 <= 1
      OBVIOUS
    <3>2. QED
      BY <1>2, <1>3, <1>5, <1>6, <1>7, <3>1 DEF MovesTo
  <2>2. QED
    BY <1>7, <2>1 DEF Describes
<1>9. Accounts(s, nodes, nodes')
  <2>1. DOMAIN nodes' = DOMAIN nodes /\ nodes'[n].running = nodes[n].running \cup {p}
        /\ \A m \in DOMAIN nodes : m # n => nodes'[m] = nodes[m]
    BY <1>1 DEF Allocated, Node
  <2>2. \A q, m : RunsOn(nodes', q, m) <=> RunsOn(nodes, q, m) \/ (q = p /\ m = n)
    BY <2>1 DEF RunsOn
  <2>3. /\ \A j \in 1 .. Len(s) : \A q, m : ~ Frees(s[j], q, m)
        /\ \A j \in 1 .. Len(s) : \A q, m : Gives(s[j], q, m) => q = p /\ m = n
    BY <1>2, <1>3 DEF Frees, Gives
  <2>4. HeldIn(s, p, n)
    <3>1. Gives(s[2], p, n) /\ 2 \in 1 .. Len(s) /\ 2 + 1 .. Len(s) = {}
      BY <1>2, <1>3 DEF Gives
    <3>2. QED
      BY <3>1 DEF HeldIn
  <2>5. ASSUME NEW q \in ProcIds, NEW m \in NodeIds
        PROVE  \/ HeldIn(s, q, m) /\ RunsOn(nodes', q, m)
               \/ /\ \A j \in 1 .. Len(s) : ~ Frees(s[j], q, m) /\ ~ Gives(s[j], q, m)
                  /\ RunsOn(nodes, q, m) <=> RunsOn(nodes', q, m)
    <3>1. CASE q = p /\ m = n
      BY <2>2, <2>4, <3>1
    <3>2. CASE ~ (q = p /\ m = n)
      <4>1. \A j \in 1 .. Len(s) : ~ Frees(s[j], q, m) /\ ~ Gives(s[j], q, m)
        BY <2>3, <3>2
      <4>2. RunsOn(nodes, q, m) <=> RunsOn(nodes', q, m)
        BY <2>2, <3>2
      <4>3. QED
        BY <4>1, <4>2
    <3>3. QED
      BY <3>1, <3>2
  <2>6. QED
    BY <2>5 DEF Accounts
<1>10. {i \in 1 .. Len(s) : s[i].type = "PROCESS_SCHEDULED"} = {1}
       /\ \A type \in {"NODE_FAILED", "SCHEDULING_DEFERRED", "PROCESS_STARTED"} :
            {i \in 1 .. Len(s) : s[i].type = type} = {}
  BY <1>2, <1>3
<1>11. /\ Number(s, "PROCESS_SCHEDULED") = 1
       /\ \A type \in {"NODE_FAILED", "SCHEDULING_DEFERRED", "PROCESS_STARTED"} :
            Number(s, type) = 0
  <2>1. Cardinality({1}) = 1 /\ Cardinality({}) = 0
    BY FS_Singleton, FS_EmptySet
  <2>2. QED
    BY <1>10, <2>1 DEF Number
<1>12. QED
  BY <1>4, <1>8, <1>9, <1>11 DEF s

LEMMA OneIsSilent ==
  ASSUME NEW e, e.type \in {"PROCESS_STARTED", "SCHEDULING_DEFERRED"}
  PROVE  Silent(<<e>>)
<1>1. Len(<<e>>) = 1 /\ \A j \in 1 .. 1 : <<e>>[j] = e
  OBVIOUS
<1>2. e.type \notin DOMAIN StateAfter
  BY DEF StateAfter
<1>3. QED
  BY <1>1, <1>2 DEF Silent, Moves, Frees, Gives

\* A placement is reported and counted, the first of a process as its start.
LEMMA PlaceReport ==
  ASSUME PInv, stats \in Stats, NEW p \in ProcIds, LogPlace(p)
  PROVE  Told
<1> DEFINE n == CHOOSE m \in DOMAIN snaps : Selects(algorithm, snaps, cursor, procs[p], m)
           t == PlacedEntries(p, n)
           e == Entry("PROCESS_STARTED", p, n)
<1>1. Place(p) /\ kept' = kept
  BY DEF LogPlace
<1>2. /\ p \in DOMAIN procs /\ procs[p].state = "READY" /\ n \in DOMAIN nodes
      /\ nodes' = [nodes EXCEPT ![n] = Allocated(@, p, procs[p])]
      /\ procs' = [procs EXCEPT ![p] = Started(@, n)]
  BY <1>1, ChosenNode
<1>3. /\ IF procs[p].started = NoTick
           THEN Emit(<<e>> \o t) /\ UNCHANGED stats
           ELSE Emit(t) /\ Count("reschedulings")
  <2>1. procs[p] \in Process
    BY <1>2 DEF PInv, IInv, TypeOK, ProcsOK
  <2>2. procs'[p].state = "RUNNING"
    BY <1>2, <2>1 DEF Started, Process
  <2>3. QED
    BY <2>2 DEF LogPlace, PlacedEntries
<1> HIDE DEF n
<1>4. /\ t \in Seq(Entries)
      /\ Describes(t, procs, procs') /\ Accounts(t, nodes, nodes')
      /\ Number(t, "PROCESS_SCHEDULED") = 1
      /\ Number(t, "NODE_FAILED") = 0 /\ Number(t, "SCHEDULING_DEFERRED") = 0
      /\ Number(t, "PROCESS_STARTED") = 0
  BY <1>2, PlacedTells DEF PInv
<1>5. e \in Entries /\ e.type = "PROCESS_STARTED"
  BY <1>2 DEF PInv, IInv, TypeOK, NodesOK, Entry, Entries, EntriesOf, Types
<1> HIDE DEF t, e
<1>6. CASE procs[p].started = NoTick
  <2> DEFINE first == <<e>>
             r == first \o t
  <2>1. first \in Seq(Entries) /\ Silent(first)
    BY <1>5, OneIsSilent
  <2>2. \A type : Number(first, type) = IF e.type = type THEN 1 ELSE 0
    BY NumberOfOne
  <2> HIDE DEF first
  <2>3. r \in Seq(Entries)
    BY <1>4, <2>1, ConcatProperties
  <2>4. Describes(r, procs, procs') /\ Accounts(r, nodes, nodes')
    BY <1>4, <2>1, SilentFirst
  <2>5. \A type : Number(r, type) = Number(first, type) + Number(t, type)
    BY <1>4, <2>1, NumberConcat
  <2> HIDE DEF r
  <2>6. /\ Number(r, "PROCESS_SCHEDULED") = 1 /\ Number(r, "PROCESS_STARTED") = 1
        /\ Number(r, "NODE_FAILED") = 0 /\ Number(r, "SCHEDULING_DEFERRED") = 0
    BY <1>4, <1>5, <2>2, <2>5
  <2>7. stats' = stats
    BY <1>3, <1>6
  <2>8. Counts(r, stats, stats')
    BY <2>6, <2>7 DEF Counts, Stats
  <2>9. Emit(r)
    BY <1>3, <1>6 DEF r, first
  <2>10. QED
    BY <1>1, <2>3, <2>4, <2>7, <2>8, <2>9 DEF Reported, Told
<1>7. CASE procs[p].started # NoTick
  <2>1. stats' = [stats EXCEPT !.reschedulings = @ + 1] /\ Emit(t)
    BY <1>3, <1>7 DEF Count
  <2>2. Counts(t, stats, stats') /\ stats'.samples = stats.samples
    BY <1>4, <2>1 DEF Counts, Stats
  <2>3. QED
    BY <1>1, <1>4, <2>1, <2>2 DEF Reported, Told
<1>8. QED
  BY <1>6, <1>7

\* A deferral is reported and counted, and changes nothing else.
LEMMA DeferReport ==
  ASSUME PInv, stats \in Stats, NEW p \in ProcIds, LogDefer(p)
  PROVE  Told
<1> DEFINE e == ProcEntry("SCHEDULING_DEFERRED", p)
           s == <<e>>
<1>1. /\ Defer(p) /\ Emit(s) /\ kept' = kept
      /\ stats' = [stats EXCEPT !.deferred = @ + 1]
  BY DEF LogDefer, Count
<1>2. e \in Entries /\ e.type = "SCHEDULING_DEFERRED"
  BY DEF ProcEntry, Entry, Entries, EntriesOf, Types
<1> HIDE DEF e
<1>3. s \in Seq(Entries) /\ Silent(s)
  BY <1>2, OneIsSilent
<1>4. \A type : Number(s, type) = IF e.type = type THEN 1 ELSE 0
  BY NumberOfOne
<1> HIDE DEF s
<1>5. procs' = procs /\ nodes' = nodes
  BY <1>1 DEF Defer, clusterVars
<1>6. Describes(s, procs, procs') /\ Accounts(s, nodes, nodes')
  BY <1>3, <1>5 DEF Describes, Accounts, Silent
<1>7. Counts(s, stats, stats') /\ stats'.samples = stats.samples
  BY <1>1, <1>2, <1>4 DEF Counts, Stats
<1>8. QED
  BY <1>1, <1>3, <1>6, <1>7 DEF Reported, Told

-----------------------------------------------------------------------------
(* What the commands and the steps of a tick tell *)

\* Nothing is counted that no report says.
LEMMA TellsIt ==
  ASSUME NEW s, Reported(s), Emit(s), UNCHANGED <<stats, kept>>
  PROVE  Told
BY DEF Told

LEMMA SameClusterIsCalm ==
  ASSUME nodes' = nodes, procs' = procs
  PROVE  Calm
BY DEF Calm

LEMMA QuietStep ==
  ASSUME NEW s \in Seq(QuietEntries), Calm, stats \in Stats, Emit(s), UNCHANGED <<stats, kept>>
  PROVE  Told
<1>1. SameCounts
  BY DEF SameCounts
<1>2. Reported(s)
  BY <1>1, QuietReport
<1>3. QED
  BY <1>2, TellsIt

LEMMA QuietEntry ==
  /\ \A type \in Quiet : SimEntry(type) \in QuietEntries
  /\ \A type \in Quiet, n \in NodeIds : NodeEntry(type, n) \in QuietEntries
BY DEF SimEntry, NodeEntry, Entry, QuietEntries, EntriesOf

\* The commands on nodes tell what they do.
LEMMA NodeCommandTells ==
  ASSUME PInv, stats \in Stats, NEW n \in NodeIds, LogNodeCommand(n)
  PROVE  Command /\ Told
<1>1. /\ \A type \in Quiet : <<NodeEntry(type, n)>> \in Seq(QuietEntries)
      /\ RecoverEntries(n) \in Seq(QuietEntries)
      /\ <<>> \in Seq(QuietEntries)
  <2> DEFINE e(type) == NodeEntry(type, n)
  <2>1. \A type \in Quiet : e(type) \in QuietEntries
    BY QuietEntry
  <2>2. RecoverEntries(n) = <<e("NODE_STATUS_CHANGED"), e("NODE_RECOVERED")>>
    BY DEF RecoverEntries
  <2>3. "NODE_STATUS_CHANGED" \in Quiet /\ "NODE_RECOVERED" \in Quiet
    BY DEF Quiet
  <2> HIDE DEF e
  <2>4. <<e("NODE_STATUS_CHANGED"), e("NODE_RECOVERED")>> \in Seq(QuietEntries)
    BY <2>1, <2>3
  <2>5. \A type \in Quiet : <<e(type)>> \in Seq(QuietEntries)
    BY <2>1
  <2>6. QED
    BY <2>2, <2>4, <2>5 DEF e
<1>2. {"NODE_REGISTERED", "NODE_REMOVED", "NODE_STATUS_CHANGED"} \subseteq Quiet
  BY DEF Quiet
<1>3. ASSUME procs' = procs,
             \A m \in DOMAIN nodes \cup DOMAIN nodes' :
               \/ /\ m \in DOMAIN nodes /\ m \in DOMAIN nodes'
                  /\ nodes'[m].running = nodes[m].running
               \/ /\ m \in DOMAIN nodes => nodes[m].running = {}
                  /\ m \in DOMAIN nodes' => nodes'[m].running = {}
      PROVE  Calm
  BY <1>3 DEF Calm, RunsOn
<1>4. ASSUME procs' = procs, n \in DOMAIN nodes, NEW v, v.running = nodes[n].running,
             nodes' = [nodes EXCEPT ![n] = v]
      PROVE  Calm
  <2>1. DOMAIN nodes' = DOMAIN nodes /\ \A m \in DOMAIN nodes : nodes'[m].running = nodes[m].running
    BY <1>4
  <2>2. QED
    BY <1>3, <1>4, <2>1
<1>5. n \in DOMAIN nodes => nodes[n] \in Node
  BY DEF PInv, IInv, TypeOK, NodesOK
<1>6. ASSUME NEW c \in Capacities, Reports(RegisterNode(n, c), <<NodeEntry("NODE_REGISTERED", n)>>)
      PROVE  Command /\ Told
  <2>1. RegisterNode(n, c)
    BY <1>6 DEF Reports
  <2>2. DOMAIN nodes' = DOMAIN nodes \cup {n} /\ n \notin DOMAIN nodes
        /\ nodes'[n].running = {} /\ procs' = procs
        /\ \A m \in DOMAIN nodes : nodes'[m] = nodes[m]
    BY <2>1 DEF RegisterNode, NewNode
  <2>3. Calm
    BY <1>3, <2>2
  <2>4. QED
    BY <1>1, <1>2, <1>6, <2>1, <2>3, QuietStep DEF Reports, Command
<1>7. ASSUME Reports(RemoveNode(n), <<NodeEntry("NODE_REMOVED", n)>>)
      PROVE  Command /\ Told
  <2>1. RemoveNode(n)
    BY <1>7 DEF Reports
  <2>2. DOMAIN nodes' = DOMAIN nodes \ {n} /\ nodes[n].running = {} /\ procs' = procs
        /\ \A m \in DOMAIN nodes \ {n} : nodes'[m] = nodes[m]
    BY <2>1 DEF RemoveNode
  <2>3. Calm
    BY <1>3, <2>2
  <2>4. QED
    BY <1>1, <1>2, <1>7, <2>1, <2>3, QuietStep DEF Reports, Command, NodeCommand
<1>8. ASSUME LogFailNode(n)
      PROVE  Command /\ Told
  <2>1. FailNode(n) /\ Emit(NodeFailureEntries(n)) /\ kept' = kept
        /\ stats' = [stats EXCEPT !.nodeFailures = @ + 1]
    BY <1>8 DEF LogFailNode, Count
  <2>2. Reported(NodeFailureEntries(n))
    BY <2>1, NodeFailureReport DEF FailNode, PInv
  <2>3. stats'.samples = stats.samples
    BY <2>1 DEF Stats
  <2>4. QED
    BY <2>1, <2>2, <2>3 DEF Told, Command, NodeCommand
<1>9. ASSUME Reports(RecoverNode(n), RecoverEntries(n))
      PROVE  Command /\ Told
  <2>1. RecoverNode(n)
    BY <1>9 DEF Reports
  <2>2. n \in DOMAIN nodes /\ procs' = procs
        /\ nodes' = [nodes EXCEPT ![n] = [[nodes[n] EXCEPT !.status = "ONLINE"]
                                            EXCEPT !.heartbeat = tick]]
    BY <2>1 DEF RecoverNode
  <2>3. [[nodes[n] EXCEPT !.status = "ONLINE"] EXCEPT !.heartbeat = tick].running = nodes[n].running
    BY <1>5, <2>2 DEF Node
  <2>4. Calm
    BY <1>4, <2>2, <2>3
  <2>5. QED
    BY <1>1, <1>9, <2>1, <2>4, QuietStep DEF Reports, Command, NodeCommand
<1>10. ASSUME Reports(Heartbeat(n), <<>>)
       PROVE  Command /\ Told
  <2>1. Heartbeat(n)
    BY <1>10 DEF Reports
  <2>2. n \in DOMAIN nodes /\ procs' = procs
        /\ nodes' = [nodes EXCEPT ![n] = [nodes[n] EXCEPT !.heartbeat = tick]]
    BY <2>1 DEF Heartbeat
  <2>3. [nodes[n] EXCEPT !.heartbeat = tick].running = nodes[n].running
    BY <1>5, <2>2 DEF Node
  <2>4. Calm
    BY <1>4, <2>2, <2>3
  <2>5. QED
    BY <1>1, <1>10, <2>1, <2>4, QuietStep DEF Reports, Command, NodeCommand
<1>11. ASSUME NEW s \in NodeStatuses,
              Reports(ChangeNodeStatus(n, s), <<NodeEntry("NODE_STATUS_CHANGED", n)>>)
       PROVE  Command /\ Told
  <2>1. ChangeNodeStatus(n, s)
    BY <1>11 DEF Reports
  <2> DEFINE v == [[nodes[n] EXCEPT !.status = s]
                      EXCEPT !.heartbeat = IF s = "ONLINE" THEN tick ELSE @]
  <2>2. n \in DOMAIN nodes /\ procs' = procs /\ nodes' = [nodes EXCEPT ![n] = v]
    BY <2>1 DEF ChangeNodeStatus
  <2>3. v.running = nodes[n].running
    BY <1>5, <2>2 DEF Node
  <2> HIDE DEF v
  <2>4. Calm
    BY <1>4, <2>2, <2>3
  <2>5. QED
    BY <1>1, <1>2, <1>11, <2>1, <2>4, QuietStep DEF Reports, Command, NodeCommand
<1>12. QED
  BY <1>6, <1>7, <1>8, <1>9, <1>10, <1>11 DEF LogNodeCommand

\* A process that goes where its last entry says, with or without a release.
LEMMA MovingReport ==
  ASSUME IInv, NEW p \in DOMAIN procs, NEW v, NEW e \in EntriesOf(Ends, {p}),
         v.state = StateAfter[e.type], procs' = [procs EXCEPT ![p] = v],
         nodes' = (IF procs[p].state = "RUNNING" THEN AfterRelease(p) ELSE nodes),
         stats \in Stats, stats' = stats
  PROVE  Reported(ReleaseEntries(p) \o <<e>>)
<1>1. e.process = p /\ e.type \in Ends
  BY DEF EntriesOf
<1>2. MovesTo(<<e>>, p, v)
  BY <1>1, OneMove
<1>3. <<e>> \in Seq(EntriesOf(Ends, {p}))
  OBVIOUS
<1>4. QED
  BY <1>2, <1>3, ReleasingReport

\* The failure of a process is reported with what it releases.
LEMMA FailureReport ==
  ASSUME IInv, NEW p, FailProcessLocked(p), stats \in Stats, stats' = stats
  PROVE  Reported(ProcessFailureEntries(p))
<1> DEFINE proc == procs[p]
           w == IF proc.state = "RUNNING" THEN Unplaced(proc) ELSE proc
           v == AfterFailure(w, tick)
<1>1. p \in DOMAIN procs /\ p \in ProcIds /\ proc \in Process
  BY DEF FailProcessLocked, CanFailProcess, IInv, TypeOK, ProcsOK
<1>2. OnLiveHost(p) <=> proc.state = "RUNNING"
  BY <1>1 DEF OnLiveHost, IInv, Sound, HostingIn, HostsUpIn
<1>3. w \in Process /\ (CanRestart(w) <=> CanRestart(procs[p]))
  BY <1>1 DEF Unplaced, CanRestart, Process, NoNode
<1>4. procs' = [procs EXCEPT ![p] = v]
      /\ nodes' = (IF proc.state = "RUNNING" THEN AfterRelease(p) ELSE nodes)
  BY <1>2 DEF FailProcessLocked
<1>5. proc.node \in NodeIds \cup {NoNode}
  BY <1>1 DEF Process
<1>6. ProcessFailureEntries(p) = ReleaseEntries(p) \o FailureEntries(p, proc.node)
  BY <1>2 DEF ProcessFailureEntries, ReleaseEntries
<1> HIDE DEF w
<1> DEFINE s == FailureEntries(p, proc.node)
<1>7. s \in Seq(EntriesOf(Broken, {p})) /\ MovesTo(s, p, v)
  BY <1>1, <1>3, <1>5, FailureMoves
<1> HIDE DEF v, s
<1>8. s \in Seq(EntriesOf(Ends, {p}))
  <2>1. EntriesOf(Broken, {p}) \subseteq EntriesOf(Ends, {p})
    BY DEF EntriesOf, Broken, Ends, StateAfter
  <2>2. QED
    BY <1>7, <2>1, SeqMonotonic
<1>9. Reported(ReleaseEntries(p) \o s)
  BY <1>1, <1>4, <1>7, <1>8, ReleasingReport
<1>10. QED
  BY <1>6, <1>9 DEF s

\* A submission is reported.
LEMMA SubmissionReport ==
  ASSUME NEW p \in ProcIds, NEW def, SubmitLocked(p, def), nodes' = nodes,
         stats \in Stats, stats' = stats
  PROVE  Reported(<<ProcEntry("PROCESS_SUBMITTED", p)>>)
<1> DEFINE e == ProcEntry("PROCESS_SUBMITTED", p)
<1>1. e \in EntriesOf(Ends, {p}) /\ StateAfter[e.type] = "READY"
  BY DEF ProcEntry, Entry, EntriesOf, Ends, StateAfter
<1>2. p \in DOMAIN procs' /\ procs'[p].state = "READY" /\ OthersStay(p)
  BY DEF SubmitLocked, CanSubmit, NewProcess, OthersStay
<1> HIDE DEF e
<1>3. Reported(<<e>>)
  BY <1>1, <1>2, OneEntryReport
<1>4. QED
  BY <1>3 DEF e

\* The commands on processes tell what they do.
LEMMA ProcessCommandTells ==
  ASSUME PInv, stats \in Stats, NEW p \in ProcIds, LogProcessCommand(p)
  PROVE  Command /\ Told
<1> DEFINE e(type) == ProcEntry(type, p)
<1>1. \A type \in Ends : e(type) \in EntriesOf(Ends, {p}) /\ e(type).type = type
  BY DEF ProcEntry, Entry, EntriesOf, NoNode
<1>2. /\ {"PROCESS_PAUSED", "PROCESS_WAITING", "PROCESS_RESUMED", "PROCESS_IO_COMPLETED",
          "PROCESS_KILLED"} \subseteq Ends
      /\ StateAfter["PROCESS_PAUSED"] = "PAUSED" /\ StateAfter["PROCESS_WAITING"] = "WAITING"
      /\ StateAfter["PROCESS_RESUMED"] = "READY" /\ StateAfter["PROCESS_IO_COMPLETED"] = "READY"
      /\ StateAfter["PROCESS_KILLED"] = "KILLED"
  BY DEF Ends, StateAfter
<1>3. IInv /\ (p \in DOMAIN procs => procs[p] \in Process)
  BY DEF PInv, IInv, TypeOK, ProcsOK
<1>4. ASSUME NEW def \in Definitions,
             Reports(SubmitProcess(p, def), <<ProcEntry("PROCESS_SUBMITTED", p)>>)
      PROVE  Command /\ Told
  <2>1. SubmitProcess(p, def) /\ UNCHANGED <<stats, kept>>
        /\ Emit(<<ProcEntry("PROCESS_SUBMITTED", p)>>)
    BY <1>4 DEF Reports
  <2>2. Reported(<<ProcEntry("PROCESS_SUBMITTED", p)>>)
    BY <2>1, SubmissionReport DEF SubmitProcess
  <2>3. QED
    BY <2>1, <2>2, TellsIt DEF Command
<1>5. ASSUME NEW type \in Ends, p \in DOMAIN procs, Vacate(p, StateAfter[type]),
             stats' = stats
      PROVE  Reported(ReleaseEntries(p) \o <<e(type)>>)
  <2> DEFINE v == [Unplaced(procs[p]) EXCEPT !.state = StateAfter[type]]
  <2>1. v.state = StateAfter[type]
    BY <1>3, <1>5 DEF Unplaced, Process
  <2>2. procs' = [procs EXCEPT ![p] = v] /\ procs[p].state = "RUNNING" /\ nodes' = AfterRelease(p)
    BY <1>5 DEF Vacate
  <2> HIDE DEF v, e
  <2>3. QED
    BY <1>1, <1>3, <1>5, <2>1, <2>2, MovingReport
<1>6. ASSUME NEW type \in Ends, StateAfter[type] = "READY", p \in DOMAIN procs,
             NEW s, Requeue(p, s), stats' = stats
      PROVE  Reported(<<e(type)>>)
  <2>1. p \in DOMAIN procs' /\ procs'[p].state = "READY" /\ OthersStay(p) /\ nodes' = nodes
    BY <1>3, <1>6 DEF Requeue, OthersStay, Process
  <2> HIDE DEF e
  <2>2. QED
    BY <1>1, <1>6, <2>1, OneEntryReport
<1>7. ASSUME Reports(PauseProcess(p), ReleaseEntries(p) \o <<e("PROCESS_PAUSED")>>)
      PROVE  Command /\ Told
  <2>1. PauseProcess(p) /\ Emit(ReleaseEntries(p) \o <<e("PROCESS_PAUSED")>>)
        /\ UNCHANGED <<stats, kept>>
    BY <1>7 DEF Reports
  <2> HIDE DEF e
  <2>2. Reported(ReleaseEntries(p) \o <<e("PROCESS_PAUSED")>>)
    BY <1>2, <1>5, <2>1 DEF PauseProcess
  <2>3. QED
    BY <2>1, <2>2, TellsIt DEF Command, ProcessCommand
<1>8. ASSUME Reports(WaitProcess(p), ReleaseEntries(p) \o <<e("PROCESS_WAITING")>>)
      PROVE  Command /\ Told
  <2>1. WaitProcess(p) /\ Emit(ReleaseEntries(p) \o <<e("PROCESS_WAITING")>>)
        /\ UNCHANGED <<stats, kept>>
    BY <1>8 DEF Reports
  <2> HIDE DEF e
  <2>2. Reported(ReleaseEntries(p) \o <<e("PROCESS_WAITING")>>)
    BY <1>2, <1>5, <2>1 DEF WaitProcess
  <2>3. QED
    BY <2>1, <2>2, TellsIt DEF Command, ProcessCommand
<1>9. ASSUME Reports(ResumeProcess(p), <<e("PROCESS_RESUMED")>>)
      PROVE  Command /\ Told
  <2>1. ResumeProcess(p) /\ Emit(<<e("PROCESS_RESUMED")>>) /\ UNCHANGED <<stats, kept>>
    BY <1>9 DEF Reports
  <2> HIDE DEF e
  <2>2. Reported(<<e("PROCESS_RESUMED")>>)
    BY <1>2, <1>6, <2>1 DEF ResumeProcess
  <2>3. QED
    BY <2>1, <2>2, TellsIt DEF Command, ProcessCommand
<1>10. ASSUME Reports(WakeProcess(p), <<e("PROCESS_IO_COMPLETED")>>)
       PROVE  Command /\ Told
  <2>1. WakeProcess(p) /\ Emit(<<e("PROCESS_IO_COMPLETED")>>) /\ UNCHANGED <<stats, kept>>
    BY <1>10 DEF Reports
  <2> HIDE DEF e
  <2>2. Reported(<<e("PROCESS_IO_COMPLETED")>>)
    BY <1>2, <1>6, <2>1 DEF WakeProcess
  <2>3. QED
    BY <2>1, <2>2, TellsIt DEF Command, ProcessCommand
<1>11. ASSUME Reports(KillProcess(p), KillEntries(p))
       PROVE  Command /\ Told
  <2>1. KillProcess(p) /\ Emit(ReleaseEntries(p) \o <<e("PROCESS_KILLED")>>)
        /\ UNCHANGED <<stats, kept>>
    BY <1>11 DEF Reports, KillEntries
  <2> DEFINE proc == procs[p]
             v == IF proc.state = "RUNNING"
                    THEN [Unplaced(proc) EXCEPT !.state = "KILLED", !.finished = tick]
                    ELSE [proc EXCEPT !.state = "KILLED", !.finished = tick]
  <2>2. p \in DOMAIN procs /\ v.state = "KILLED"
    BY <1>3, <2>1 DEF KillProcess, Unplaced, Process
  <2>3. procs' = [procs EXCEPT ![p] = v]
        /\ nodes' = (IF proc.state = "RUNNING" THEN AfterRelease(p) ELSE nodes)
    BY <2>1 DEF KillProcess
  <2> HIDE DEF v, e
  <2>4. Reported(ReleaseEntries(p) \o <<e("PROCESS_KILLED")>>)
    BY <1>1, <1>2, <1>3, <2>1, <2>2, <2>3, MovingReport
  <2>5. QED
    BY <2>1, <2>4, TellsIt DEF Command, ProcessCommand
<1>12. ASSUME Reports(FailProcess(p), ProcessFailureEntries(p))
       PROVE  Command /\ Told
  <2>1. FailProcess(p) /\ Emit(ProcessFailureEntries(p)) /\ UNCHANGED <<stats, kept>>
    BY <1>12 DEF Reports
  <2>2. Reported(ProcessFailureEntries(p))
    BY <1>3, <2>1, FailureReport DEF FailProcess
  <2>3. QED
    BY <2>1, <2>2, TellsIt DEF Command, ProcessCommand
<1>13. QED
  BY <1>4, <1>7, <1>8, <1>9, <1>10, <1>11, <1>12 DEF LogProcessCommand

-----------------------------------------------------------------------------
(* A log that begins *)

\* The empty log is right about the empty cluster.
LEMMA EmptyIsRight == LogRight(<<>>, NoStats, NoNodes, NoProcs, 0)
<1>1. Len(<<>>) = 0 /\ <<>> \in Seq(Events) /\ 1 .. 0 = {}
  OBVIOUS
<1>2. NumbersOf(<<>>, 0)
  BY <1>1 DEF NumbersOf
<1>3. TellsOf(<<>>, NoProcs)
  BY <1>1, NothingType DEF TellsOf, Moves
<1>4. HoldingsOf(<<>>, NoNodes)
  BY <1>1, NothingType DEF HoldingsOf, HeldIn, RunsOn
<1>5. CountsOf(<<>>, NoStats)
  <2>1. \A type : Number(<<>>, type) = 0
    <3>1. \A type : {i \in 1 .. Len(<<>>) : <<>>[i].type = type} = {}
      BY <1>1
    <3>2. QED
      BY <3>1, FS_EmptySet DEF Number
  <2>2. QED
    BY <2>1 DEF CountsOf, NoStats, Stats
<1>6. QED
  BY <1>2, <1>3, <1>4, <1>5 DEF LogRight

\* A log that is begun with what there is in the new cluster.
LEMMA RestartIsRight ==
  ASSUME NEW s \in Seq(Entries), Restarted(s), tick' = 0,
         Describes(s, NoProcs, procs'), Accounts(s, NoNodes, nodes'),
         Counts(s, NoStats, NoStats)
  PROVE  /\ LogRight(events', stats', nodes', procs', tick')
         /\ sequence' = Len(events') /\ stats'.samples = 0
<1> DEFINE new == Stamped(s, 0, 0)
<1>1. events' = new /\ sequence' = Len(s) /\ stats' = NoStats
  BY DEF Restarted
<1>2. new \in Seq(Events) /\ Len(new) = Len(s)
  BY StampedHolds
<1>3. <<>> \o new = new /\ Len(<<>>) = 0
  <2> HIDE DEF new
  <2> QED BY <1>2
<1>4. LogRight(<<>> \o Stamped(s, Len(<<>>), 0), NoStats, nodes', procs', 0)
  BY EmptyIsRight, ReportedIsRight
<1>5. LogRight(new, NoStats, nodes', procs', 0)
  BY <1>3, <1>4
<1>6. QED
  BY <1>1, <1>2, <1>5 DEF NoStats

Registered(s) == ForEach([n \in IdsOf(s.nodes) |-> <<NodeEntry("NODE_REGISTERED", n)>>])

Submitted(s) ==
  ForEach([p \in IdsOf(PresentAtStart(s)) |-> <<ProcEntry("PROCESS_SUBMITTED", p)>>])

LEMMA LoadedIds ==
  ASSUME NEW s \in Scenarios
  PROVE  /\ IdsOf(s.nodes) \subseteq NodeIds /\ IdsOf(PresentAtStart(s)) \subseteq ProcIds
         /\ IsFiniteSet(IdsOf(s.nodes)) /\ IsFiniteSet(IdsOf(PresentAtStart(s)))
         /\ IdsOf(s.nodes) \subseteq Nat /\ IdsOf(PresentAtStart(s)) \subseteq Nat
<1>1. /\ \A d \in s.nodes : d.id \in NodeIds
      /\ \A d \in PresentAtStart(s) : d.id \in ProcIds
  BY InputAssumption DEF PresentAtStart, Submission
<1>2. IdsOf(s.nodes) \subseteq NodeIds /\ IdsOf(PresentAtStart(s)) \subseteq ProcIds
  BY <1>1 DEF IdsOf
<1>3. QED
  BY <1>2, IdsAssumption, FS_Subset

Opening == Quiet \cup {"PROCESS_SUBMITTED"}

LEMMA RegisteredHolds ==
  ASSUME NEW s \in Scenarios
  PROVE  Registered(s) \in Seq(QuietEntries)
<1> DEFINE S == IdsOf(s.nodes)
           parts == [n \in S |-> <<NodeEntry("NODE_REGISTERED", n)>>]
<1>1. \A n \in S : NodeEntry("NODE_REGISTERED", n) \in QuietEntries
  BY LoadedIds, QuietEntry DEF Quiet
<1>2. parts \in [S -> Seq(QuietEntries)]
  BY <1>1
<1>3. IsFiniteSet(S) /\ S \subseteq Nat
  BY LoadedIds
<1> HIDE DEF S, parts
<1>4. MadeOf(ForEach(parts), QuietEntries, S, parts)
  BY <1>2, <1>3, ForEachHolds
<1>5. ForEach(parts) \in Seq(QuietEntries)
  BY <1>4 DEF MadeOf
<1>6. QED
  BY <1>5 DEF Registered, parts, S

LEMMA SubmittedHolds ==
  ASSUME NEW s \in Scenarios
  PROVE  /\ Submitted(s) \in Seq(EntriesOf({"PROCESS_SUBMITTED"}, ProcIds))
         /\ \A p \in IdsOf(PresentAtStart(s)) : \A proc :
              proc.state = "READY" => MovesTo(Submitted(s), p, proc)
         /\ \A p : p \notin IdsOf(PresentAtStart(s)) => Moves(Submitted(s), p) = {}
<1> DEFINE S == IdsOf(PresentAtStart(s))
           E == EntriesOf({"PROCESS_SUBMITTED"}, ProcIds)
           e(p) == ProcEntry("PROCESS_SUBMITTED", p)
           parts == [p \in S |-> <<e(p)>>]
<1>1. \A p \in S : e(p) \in E /\ e(p).process = p /\ e(p).type = "PROCESS_SUBMITTED"
  BY LoadedIds DEF ProcEntry, Entry, EntriesOf
<1>2. IsFiniteSet(S) /\ S \subseteq Nat
  BY LoadedIds
<1>3. "PROCESS_SUBMITTED" \in Ends /\ StateAfter["PROCESS_SUBMITTED"] = "READY"
  BY DEF Ends, StateAfter
<1> HIDE DEF E, S, e
<1>4. parts \in [S -> Seq(E)]
  BY <1>1
<1>5. \A p \in S : /\ Len(parts[p]) \in Nat
                   /\ \A j \in 1 .. Len(parts[p]) : parts[p][j].process = p
  BY <1>1
<1>6. ASSUME NEW p \in S, NEW proc, proc.state = "READY"
      PROVE  MovesTo(parts[p], p, proc)
  <2>1. MovesTo(<<e(p)>>, e(p).process, proc)
    BY <1>1, <1>3, <1>6, OneMove
  <2>2. QED
    BY <1>1, <2>1
<1> HIDE DEF parts
<1>7. MadeOf(ForEach(parts), E, S, parts)
  BY <1>2, <1>4, ForEachHolds
<1>8. /\ \A p \in S : \A proc : MovesTo(parts[p], p, proc) => MovesTo(ForEach(parts), p, proc)
      /\ \A p : p \notin S => Moves(ForEach(parts), p) = {}
  BY <1>5, <1>7, BlocksMove
<1>9. ForEach(parts) = Submitted(s)
  BY DEF Submitted, parts, e, S
<1>10. ForEach(parts) \in Seq(E)
  BY <1>7 DEF MadeOf
<1>11. QED
  BY <1>6, <1>8, <1>9, <1>10 DEF E, S

\* Loading a scenario begins a log that is right about what was loaded.
LEMMA LoadTells ==
  ASSUME NEW s \in Scenarios, LogLoad(s)
  PROVE  /\ LogRight(events', stats', nodes', procs', tick')
         /\ sequence' = Len(events') /\ stats'.samples = 0
<1> DEFINE a == Registered(s)
           b == Submitted(s)
           c == <<SimEntry("SCENARIO_LOADED")>>
           r == (a \o b) \o c
           S == IdsOf(PresentAtStart(s))
           E == EntriesOf(Opening, ProcIds \cup {NoProc})
<1>1. a \in Seq(QuietEntries) /\ c \in Seq(QuietEntries)
  <2>1. SimEntry("SCENARIO_LOADED") \in QuietEntries
    BY QuietEntry DEF Quiet
  <2>2. QED
    BY <2>1, RegisteredHolds
<1>2. b \in Seq(EntriesOf({"PROCESS_SUBMITTED"}, ProcIds))
  BY SubmittedHolds
<1>3. (\A p : Moves(a, p) = {}) /\ (\A p : Moves(c, p) = {})
  BY <1>1, QuietIsSilent
<1>4. a \in Seq(E) /\ b \in Seq(E) /\ c \in Seq(E)
  <2>1. QuietEntries \subseteq E /\ EntriesOf({"PROCESS_SUBMITTED"}, ProcIds) \subseteq E
    BY DEF QuietEntries, EntriesOf, Opening
  <2>2. QED
    BY <1>1, <1>2, <2>1, SeqMonotonic
<1>5. LoadScenario(s) /\ Restarted(r)
  BY DEF LogLoad, LoadEntries, Registered, Submitted
<1>6. /\ procs' = LoadedProcesses(s) /\ nodes' = LoadedNodes(s) /\ tick' = 0
  BY <1>5 DEF LoadScenario
<1>7. DOMAIN procs' = S /\ \A p \in S : procs'[p].state = "READY"
  BY <1>6 DEF LoadedProcesses, NewProcess
<1>8. \A n \in DOMAIN nodes' : nodes'[n].running = {}
  BY <1>6 DEF LoadedNodes, NewNode
<1> DEFINE ab == a \o b
<1> HIDE DEF a, c, E, S
<1>9. ab \in Seq(E) /\ r \in Seq(E)
  BY <1>4, ConcatProperties
<1>10. Describes(r, NoProcs, procs')
  <2>1. \A p \in S : MovesTo(b, p, procs'[p])
    BY <1>7, SubmittedHolds DEF S
  <2>2. \A p : p \notin S => Moves(b, p) = {}
    BY SubmittedHolds DEF S
  <2> HIDE DEF b
  <2>3. \A p \in S : MovesTo(ab, p, procs'[p])
    BY <1>4, <2>1, MovesConcat
  <2>4. \A p : p \notin S => Moves(ab, p) = {}
    BY <1>3, <1>4, <2>2, MovesConcat
  <2> HIDE DEF ab
  <2>5. \A p \in S : MovesTo(ab \o c, p, procs'[p])
    BY <1>3, <1>4, <1>9, <2>3, MovesConcat
  <2>6. \A p : p \notin S => Moves(ab \o c, p) = {}
    BY <1>3, <1>4, <1>9, <2>4, MovesConcat
  <2>7. r = ab \o c
    BY DEF ab
  <2> HIDE DEF r
  <2>8. QED
    BY <1>7, <2>5, <2>6, <2>7, NothingType DEF Describes
<1> HIDE DEF b, r
<1>11. \A j \in 1 .. Len(r) : \A p, n : ~ Frees(r[j], p, n) /\ ~ Gives(r[j], p, n)
  <2>1. \A j \in 1 .. Len(r) : r[j].type \in Opening
    <3>1. \A j \in 1 .. Len(r) : r[j] \in E
      BY <1>9, ElementOfSeq
    <3>2. QED
      BY <3>1 DEF E, EntriesOf
  <2>2. /\ "RESOURCE_RELEASED" \notin Opening /\ "NODE_FAILED" \notin Opening
        /\ "RESOURCE_ALLOCATED" \notin Opening
    BY DEF Opening, Quiet
  <2>3. QED
    BY <2>1, <2>2 DEF Frees, Gives
<1>12. Accounts(r, NoNodes, nodes')
  <2>1. \A p, n : ~ RunsOn(NoNodes, p, n) /\ ~ RunsOn(nodes', p, n)
    BY <1>8, NothingType DEF RunsOn
  <2>2. QED
    BY <1>11, <2>1 DEF Accounts
<1>13. Counts(r, NoStats, NoStats)
  <2>1. /\ "NODE_FAILED" \notin Opening /\ "SCHEDULING_DEFERRED" \notin Opening
        /\ "PROCESS_SCHEDULED" \notin Opening /\ "PROCESS_STARTED" \notin Opening
    BY DEF Opening, Quiet
  <2>2. \A type : type \notin Opening => Number(r, type) = 0
    BY <1>9, NumberOfNone DEF E
  <2>3. QED
    BY <2>1, <2>2 DEF Counts, NoStats, Stats
<1>14. r \in Seq(Entries)
  <2>1. E \subseteq Entries
    BY DEF E, Entries, EntriesOf, Opening, Quiet, Types, StateAfter
  <2>2. QED
    BY <1>9, <2>1, SeqMonotonic
<1>15. QED
  BY <1>5, <1>6, <1>10, <1>12, <1>13, <1>14, RestartIsRight

\* Reset begins a log that is right about the empty cluster.
LEMMA ResetTells ==
  ASSUME Reset, Restarted(<<SimEntry("SIMULATION_RESET")>>)
  PROVE  /\ LogRight(events', stats', nodes', procs', tick')
         /\ sequence' = Len(events') /\ stats'.samples = 0
<1> DEFINE s == <<SimEntry("SIMULATION_RESET")>>
<1>1. nodes' = NoNodes /\ procs' = NoProcs /\ tick' = 0
  BY DEF Reset
<1>2. s \in Seq(QuietEntries)
  <2>1. SimEntry("SIMULATION_RESET") \in QuietEntries
    BY QuietEntry DEF Quiet
  <2>2. QED
    BY <2>1
<1>3. Restarted(s)
  OBVIOUS
<1> HIDE DEF s
<1>4. /\ s \in Seq(Entries)
      /\ \A p : Moves(s, p) = {}
      /\ \A j \in 1 .. Len(s) : \A p, n : ~ Frees(s[j], p, n) /\ ~ Gives(s[j], p, n)
      /\ \A type \in Types \ Quiet : Number(s, type) = 0
  BY <1>2, QuietIsSilent
<1>5. Describes(s, NoProcs, procs') /\ Accounts(s, NoNodes, nodes')
  BY <1>1, <1>4, NothingType DEF Describes, Accounts, RunsOn
<1>6. Counts(s, NoStats, NoStats)
  <2>1. /\ Number(s, "NODE_FAILED") = 0 /\ Number(s, "SCHEDULING_DEFERRED") = 0
        /\ Number(s, "PROCESS_SCHEDULED") = 0 /\ Number(s, "PROCESS_STARTED") = 0
    BY <1>4, CountedTypes
  <2>2. QED
    BY <2>1 DEF Counts, NoStats, Stats
<1>7. QED
  BY <1>1, <1>3, <1>4, <1>5, <1>6, RestartIsRight

-----------------------------------------------------------------------------
(* Every step tells *)

\* The commands on the simulation tell what they do, or begin a log.
LEMMA SimulationCommandTells ==
  ASSUME PInv, stats \in Stats, LogSimulationCommand
  PROVE  /\ Command
         /\ \/ Told /\ tick' = tick
            \/ /\ Replace /\ tick' = 0 /\ kept' = kept
               /\ LogRight(events', stats', nodes', procs', tick')
               /\ sequence' = Len(events') /\ stats'.samples = 0
<1> DEFINE e(type) == SimEntry(type)
<1>1. \A type \in Quiet : <<e(type)>> \in Seq(QuietEntries)
  <2>1. \A type \in Quiet : e(type) \in QuietEntries
    BY QuietEntry
  <2> HIDE DEF e
  <2>2. QED
    BY <2>1
<1>2. {"SCHEDULER_CHANGED", "SIMULATION_STARTED", "SIMULATION_PAUSED", "SIMULATION_FINISHED"}
        \subseteq Quiet
  BY DEF Quiet
<1>3. ASSUME NEW a \in Algorithms, Reports(SetScheduler(a), <<e("SCHEDULER_CHANGED")>>)
      PROVE  Command /\ Told /\ tick' = tick
  <2> HIDE DEF e
  <2>1. SetScheduler(a) /\ nodes' = nodes /\ procs' = procs /\ tick' = tick
    BY <1>3 DEF Reports, SetScheduler, clusterVars
  <2>2. QED
    BY <1>1, <1>2, <1>3, <2>1, SameClusterIsCalm, QuietStep DEF Reports, Command
<1>4. ASSUME Reports(Start, <<e("SIMULATION_STARTED")>>)
      PROVE  Command /\ Told /\ tick' = tick
  <2> HIDE DEF e
  <2>1. Start /\ nodes' = nodes /\ procs' = procs /\ tick' = tick
    BY <1>4 DEF Reports, Start
  <2>2. QED
    BY <1>1, <1>2, <1>4, <2>1, SameClusterIsCalm, QuietStep DEF Reports, Command
<1>5. ASSUME Reports(PauseSimulation, <<e("SIMULATION_PAUSED")>>)
      PROVE  Command /\ Told /\ tick' = tick
  <2> HIDE DEF e
  <2>1. PauseSimulation /\ nodes' = nodes /\ procs' = procs /\ tick' = tick
    BY <1>5 DEF Reports, PauseSimulation
  <2>2. QED
    BY <1>1, <1>2, <1>5, <2>1, SameClusterIsCalm, QuietStep DEF Reports, Command
<1>6. ASSUME Reports(Finish, <<e("SIMULATION_FINISHED")>>)
      PROVE  Command /\ Told /\ tick' = tick
  <2> HIDE DEF e
  <2>1. Finish /\ nodes' = nodes /\ procs' = procs /\ tick' = tick
    BY <1>6 DEF Reports, Finish
  <2>2. QED
    BY <1>1, <1>2, <1>6, <2>1, SameClusterIsCalm, QuietStep DEF Reports, Command
<1>7. ASSUME Reset, Restarted(<<e("SIMULATION_RESET")>>)
      PROVE  /\ Command /\ Replace /\ tick' = 0 /\ kept' = kept
             /\ LogRight(events', stats', nodes', procs', tick')
             /\ sequence' = Len(events') /\ stats'.samples = 0
  <2>1. tick' = 0 /\ kept' = kept
    BY <1>7 DEF Reset, Restarted
  <2>2. QED
    BY <1>7, <2>1, ResetTells DEF Command, Replace
<1>8. ASSUME NEW s \in Scenarios, LogLoad(s)
      PROVE  /\ Command /\ Replace /\ tick' = 0 /\ kept' = kept
             /\ LogRight(events', stats', nodes', procs', tick')
             /\ sequence' = Len(events') /\ stats'.samples = 0
  <2>1. LoadScenario(s) /\ tick' = 0 /\ kept' = kept
    BY <1>8 DEF LogLoad, LoadScenario, Restarted
  <2>2. QED
    BY <1>8, <2>1, LoadTells DEF Command, Replace
<1>9. QED
  BY <1>3, <1>4, <1>5, <1>6, <1>7, <1>8 DEF LogSimulationCommand

\* Commands take no time.
LEMMA CommandsStandInTime ==
  /\ \A n \in NodeIds : LogNodeCommand(n) => tick' = tick
  /\ \A p \in ProcIds : LogProcessCommand(p) => tick' = tick
<1>1. ASSUME NEW n \in NodeIds, LogNodeCommand(n)
      PROVE  tick' = tick
  BY <1>1 DEF LogNodeCommand, LogFailNode, Reports, RegisterNode, RemoveNode, FailNode,
     RecoverNode, Heartbeat, ChangeNodeStatus
<1>2. ASSUME NEW p \in ProcIds, LogProcessCommand(p)
      PROVE  tick' = tick
  BY <1>2 DEF LogProcessCommand, Reports, SubmitProcess, PauseProcess, WaitProcess,
     ResumeProcess, WakeProcess, KillProcess, FailProcess
<1>3. QED
  BY <1>1, <1>2

LEMMA CommandTells ==
  ASSUME PInv, stats \in Stats, LogCommand
  PROVE  /\ Command
         /\ \/ Told /\ tick' = tick
            \/ /\ Replace /\ tick' = 0 /\ kept' = kept
               /\ LogRight(events', stats', nodes', procs', tick')
               /\ sequence' = Len(events') /\ stats'.samples = 0
<1>1. ASSUME NEW n \in NodeIds, LogNodeCommand(n)
      PROVE  Command /\ Told /\ tick' = tick
  BY <1>1, NodeCommandTells, CommandsStandInTime
<1>2. ASSUME NEW p \in ProcIds, LogProcessCommand(p)
      PROVE  Command /\ Told /\ tick' = tick
  BY <1>2, ProcessCommandTells, CommandsStandInTime
<1>3. QED
  BY <1>1, <1>2, SimulationCommandTells DEF LogCommand

LEMMA NothingIsQuiet == <<>> \in Seq(QuietEntries)
OBVIOUS

\* A unit of execution is reported when it is the last.
LEMMA ExecuteTells ==
  ASSUME PInv, stats \in Stats, NEW p \in ProcIds, LogExecute(p)
  PROVE  Told
<1> DEFINE done == ProcEntry("PROCESS_COMPLETED", p)
           v == Worked(procs[p])
           over == [Unplaced(v) EXCEPT !.state = "TERMINATED", !.finished = tick]
<1>1. /\ Execute(p) /\ UNCHANGED <<stats, kept>>
      /\ Emit(IF procs'[p].state = "TERMINATED" THEN ReleaseEntries(p) \o <<done>> ELSE <<>>)
  BY DEF LogExecute, Reports
<1>2. /\ p \in DOMAIN procs /\ procs[p].state = "RUNNING" /\ procs[p] \in Process /\ IInv
  BY <1>1 DEF Execute, PInv, IInv, TypeOK, TodoIsFresh, ProcsOK
<1>3. v.state = "RUNNING" /\ v.node = procs[p].node /\ over.state = "TERMINATED"
  BY <1>2 DEF Worked, Unplaced, Process
<1>4. done \in EntriesOf(Ends, {p}) /\ StateAfter[done.type] = "TERMINATED"
  BY DEF ProcEntry, Entry, EntriesOf, Ends, StateAfter
<1>5. \/ procs' = [procs EXCEPT ![p] = over] /\ nodes' = AfterRelease(p)
      \/ procs' = [procs EXCEPT ![p] = v] /\ nodes' = nodes
  BY <1>1 DEF Execute
<1> HIDE DEF done, v, over
<1>6. CASE procs' = [procs EXCEPT ![p] = over] /\ nodes' = AfterRelease(p)
  <2>1. procs'[p].state = "TERMINATED"
    BY <1>2, <1>3, <1>6
  <2>2. Reported(ReleaseEntries(p) \o <<done>>)
    BY <1>1, <1>2, <1>3, <1>4, <1>6, MovingReport
  <2>3. QED
    BY <1>1, <2>1, <2>2, TellsIt
<1>7. CASE procs' = [procs EXCEPT ![p] = v] /\ nodes' = nodes
  <2>1. procs'[p].state # "TERMINATED" /\ Calm
    BY <1>2, <1>3, <1>7 DEF Calm
  <2>2. QED
    BY <1>1, <2>1, NothingIsQuiet, QuietStep
<1>8. QED
  BY <1>5, <1>6, <1>7

LEMMA ApplySubmissionTells ==
  ASSUME PInv, stats \in Stats, NEW d \in pending, LogApplySubmission(d)
  PROVE  ApplySubmission(d) /\ (Told \/ (Rollback /\ Truncate))
<1>1. ApplySubmission(d) /\ d.id \in ProcIds
  BY DEF LogApplySubmission, PInv, IInv, TypeOK, Submission
<1>2. CASE CanSubmit(d.id, d.def)
  <2>1. /\ SubmitLocked(d.id, d.def) /\ nodes' = nodes
        /\ Emit(<<ProcEntry("PROCESS_SUBMITTED", d.id)>>) /\ UNCHANGED <<stats, kept>>
    BY <1>1, <1>2 DEF LogApplySubmission, ApplySubmission
  <2>2. Reported(<<ProcEntry("PROCESS_SUBMITTED", d.id)>>)
    BY <1>1, <2>1, SubmissionReport
  <2>3. QED
    BY <1>1, <2>1, <2>2, TellsIt
<1>3. CASE ~ CanSubmit(d.id, d.def)
  BY <1>1, <1>3 DEF LogApplySubmission, ApplySubmission
<1>4. QED
  BY <1>2, <1>3

LEMMA ApplyFailureTells ==
  ASSUME PInv, stats \in Stats, NEW f, LogApplyFailure(f)
  PROVE  ApplyFailure(f) /\ Told
<1>1. ApplyFailure(f) /\ kept' = kept /\ IInv
  BY DEF LogApplyFailure, PInv
<1>2. CASE f.type = "NODE"
  <2>1. /\ FailNodeLocked(f.id) /\ Emit(NodeFailureEntries(f.id))
        /\ stats' = [stats EXCEPT !.nodeFailures = @ + 1]
    BY <1>2 DEF LogApplyFailure, ApplyFailure, Count
  <2>2. Reported(NodeFailureEntries(f.id))
    BY <1>1, <2>1, NodeFailureReport
  <2>3. stats'.samples = stats.samples
    BY <2>1 DEF Stats
  <2>4. QED
    BY <1>1, <2>1, <2>2, <2>3 DEF Told
<1>3. CASE f.type # "NODE"
  <2>1. FailProcessLocked(f.id) /\ Emit(ProcessFailureEntries(f.id)) /\ stats' = stats
    BY <1>3 DEF LogApplyFailure, ApplyFailure
  <2>2. Reported(ProcessFailureEntries(f.id))
    BY <1>1, <2>1, FailureReport
  <2>3. QED
    BY <1>1, <2>1, <2>2, TellsIt
<1>4. QED
  BY <1>2, <1>3

LEMMA MissedHeartbeatTells ==
  ASSUME PInv, stats \in Stats, NEW n \in NodeIds, LogMissedHeartbeat(n)
  PROVE  Told
<1> DEFINE first == <<NodeEntry("NODE_HEARTBEAT_MISSED", n)>>
<1>1. /\ FailNodeLocked(n) /\ Emit(first \o NodeFailureEntries(n)) /\ kept' = kept
      /\ stats' = [stats EXCEPT !.nodeFailures = @ + 1]
  BY DEF LogMissedHeartbeat, DetectMissedHeartbeat, Count
<1>2. first \in Seq(QuietEntries)
  <2>1. NodeEntry("NODE_HEARTBEAT_MISSED", n) \in QuietEntries
    BY QuietEntry DEF Quiet
  <2>2. QED
    BY <2>1
<1> HIDE DEF first
<1>3. Reported(NodeFailureEntries(n))
  BY <1>1, NodeFailureReport DEF PInv
<1>4. Reported(first \o NodeFailureEntries(n))
  BY <1>2, <1>3, QuietFirst
<1>5. stats'.samples = stats.samples
  BY <1>1 DEF Stats
<1>6. QED
  BY <1>1, <1>4, <1>5 DEF Told

\* What a step of a tick does to log, counters and phase together.
TickTells ==
  \/ Told /\ kept' = kept
     /\ (phase \in {"apply", "beat", "place"} <=> phase' \in {"apply", "beat", "place"})
     /\ phase' # "idle"
  \/ /\ \E s : Reported(s) /\ Emit(s)
     /\ kept' = kept /\ stats'.samples = stats.samples + 1
     /\ phase = "place" /\ phase' = "run"
  \/ /\ \E s : Reported(s) /\ Emit(s)
     /\ stats' = stats /\ phase = "close" /\ phase' = "idle" /\ kept' = NothingKept
     /\ tick' = tick
  \/ Rollback /\ Truncate

\* The steps inside a tick tell what they do, sample, end, or take back what was told.
LEMMA InsideStepTells ==
  ASSUME PInv, stats \in Stats, LogInsideStep
  PROVE  InsideStep /\ TickTells
<1>1. ASSUME NEW d \in pending, LogApplySubmission(d)
      PROVE  InsideStep /\ TickTells
  <2>1. ApplySubmission(d) /\ (Told \/ (Rollback /\ Truncate))
    BY <1>1, ApplySubmissionTells
  <2>2. phase = "apply" /\ (phase' = "apply" \/ Rollback)
    BY <2>1 DEF ApplySubmission, stepVars
  <2>3. CASE Rollback
    <3>1. ~ CanSubmit(d.id, d.def)
      BY <2>2, <2>3, <2>1 DEF ApplySubmission, Rollback, stepVars
    <3>2. Truncate
      BY <1>1, <3>1 DEF LogApplySubmission
    <3>3. QED
      BY <2>1, <2>3, <3>2 DEF InsideStep, TickTells
  <2>4. CASE ~ Rollback
    BY <2>1, <2>2, <2>4 DEF InsideStep, TickTells, Told
  <2>5. QED
    BY <2>3, <2>4
<1>2. ASSUME NEW f \in failures, LogApplyFailure(f)
      PROVE  InsideStep /\ TickTells
  <2>1. ApplyFailure(f) /\ Told
    BY <1>2, ApplyFailureTells
  <2>2. phase = "apply" /\ phase' = "apply"
    BY <2>1 DEF ApplyFailure, stepVars
  <2>3. QED
    BY <2>1, <2>2 DEF InsideStep, TickTells, Told
<1>3. ASSUME NEW f \in failures, LogRejectFailure(f)
      PROVE  InsideStep /\ TickTells
  BY <1>3 DEF LogRejectFailure, RejectFailure, InsideStep, TickTells
<1>4. ASSUME NEW n \in NodeIds, LogMissedHeartbeat(n)
      PROVE  InsideStep /\ TickTells
  <2>1. Told
    BY <1>4, MissedHeartbeatTells
  <2>2. DetectMissedHeartbeat(n) /\ phase = "beat" /\ phase' = "beat"
    BY <1>4 DEF LogMissedHeartbeat, DetectMissedHeartbeat, stepVars
  <2>3. QED
    BY <2>1, <2>2 DEF InsideStep, TickTells, Told
<1>5. ASSUME NEW p \in ProcIds, LogPlace(p)
      PROVE  InsideStep /\ TickTells
  <2>1. Told
    BY <1>5, PlaceReport
  <2>2. Place(p) /\ phase = "place" /\ phase' = "place"
    BY <1>5 DEF LogPlace, Place
  <2>3. QED
    BY <2>1, <2>2 DEF InsideStep, TickTells, Told
<1>6. ASSUME NEW p \in ProcIds, LogDefer(p)
      PROVE  InsideStep /\ TickTells
  <2>1. Told
    BY <1>6, DeferReport
  <2>2. Defer(p) /\ phase = "place" /\ phase' = "place"
    BY <1>6 DEF LogDefer, Defer
  <2>3. QED
    BY <2>1, <2>2 DEF InsideStep, TickTells, Told
<1>7. ASSUME NEW p \in ProcIds, LogExecute(p)
      PROVE  InsideStep /\ TickTells
  <2>1. Told
    BY <1>7, ExecuteTells
  <2>2. Execute(p) /\ phase = "run" /\ phase' = "run"
    BY <1>7 DEF LogExecute, Reports, Execute
  <2>3. QED
    BY <2>1, <2>2 DEF InsideStep, TickTells, Told
<1>8. ASSUME Reports(EndApply \/ EndBeat \/ EndRun, <<>>)
      PROVE  InsideStep /\ TickTells
  <2>1. (EndApply \/ EndBeat \/ EndRun) /\ Emit(<<>>) /\ UNCHANGED <<stats, kept>>
    BY <1>8 DEF Reports
  <2>2. nodes' = nodes /\ procs' = procs /\ phase' # "idle"
        /\ (phase \in {"apply", "beat", "place"} <=> phase' \in {"apply", "beat", "place"})
    BY <2>1 DEF EndApply, EndBeat, EndRun, clusterVars
  <2>3. Told
    BY <2>1, <2>2, SameClusterIsCalm, NothingIsQuiet, QuietStep
  <2>4. QED
    BY <2>1, <2>2, <2>3 DEF InsideStep, TickTells, Told
<1>9. ASSUME LogSample
      PROVE  InsideStep /\ TickTells
  <2>1. /\ EndPlace /\ Emit(<<>>) /\ kept' = kept
        /\ stats' = [stats EXCEPT !.samples = @ + 1]
    BY <1>9 DEF LogSample, Count
  <2>2. nodes' = nodes /\ procs' = procs /\ phase = "place" /\ phase' = "run"
    BY <2>1 DEF EndPlace, clusterVars
  <2>3. SameCounts /\ stats'.samples = stats.samples + 1
    BY <2>1 DEF SameCounts, Stats
  <2>4. Reported(<<>>)
    BY <2>2, <2>3, SameClusterIsCalm, NothingIsQuiet, QuietReport
  <2>5. QED
    BY <2>1, <2>2, <2>3, <2>4 DEF InsideStep, TickTells
<1>10. ASSUME LogEnd
       PROVE  InsideStep /\ TickTells
  <2> DEFINE s == IF FinishReason = "" THEN <<>> ELSE <<SimEntry("SIMULATION_FINISHED")>>
  <2>1. Consistent(nodes, procs)
    BY SoundIsConsistent DEF PInv, IInv, TypeOK
  <2>2. EndStep /\ Emit(s) /\ kept' = NothingKept /\ stats' = stats
    BY <1>10, <2>1 DEF LogEnd
  <2>3. /\ nodes' = nodes /\ procs' = procs /\ tick' = tick
        /\ phase = "close" /\ phase' = "idle"
    BY <2>1, <2>2 DEF EndStep
  <2>4. s \in Seq(QuietEntries)
    <3>1. SimEntry("SIMULATION_FINISHED") \in QuietEntries
      BY QuietEntry DEF Quiet
    <3>2. <<SimEntry("SIMULATION_FINISHED")>> \in Seq(QuietEntries)
      BY <3>1
    <3>3. QED
      BY <3>2, NothingIsQuiet
  <2> HIDE DEF s
  <2>5. SameCounts
    BY <2>2 DEF SameCounts
  <2>6. Reported(s)
    BY <2>3, <2>4, <2>5, SameClusterIsCalm, QuietReport
  <2>7. QED
    BY <2>2, <2>3, <2>6 DEF InsideStep, TickTells
<1>11. QED
  BY <1>1, <1>2, <1>3, <1>4, <1>5, <1>6, <1>7, <1>8, <1>9, <1>10 DEF LogInsideStep

-----------------------------------------------------------------------------
(* The invariant is kept *)

\* A log that is right is so at any later tick.
LEMMA RightLater ==
  ASSUME NEW log, NEW st, NEW ns, NEW ps, NEW now \in Nat, LogRight(log, st, ns, ps, now)
  PROVE  LogRight(log, st, ns, ps, now + 1)
<1>1. \A i \in 1 .. Len(log) : log[i].tick <= now + 1
  <2> SUFFICES ASSUME NEW i \in 1 .. Len(log)
               PROVE  log[i].tick <= now + 1
    OBVIOUS
  <2>1. log[i] \in Events /\ log[i].tick <= now
    BY ElementOfSeq DEF LogRight, NumbersOf
  <2>2. QED
    BY <2>1 DEF Events
<1>2. QED
  BY <1>1 DEF LogRight, NumbersOf

\* A log that grows keeps what it begins with.
LEMMA BeginningStays ==
  ASSUME NEW E, NEW s \in Seq(E), NEW t \in Seq(E), NEW k \in 0 .. Len(s)
  PROVE  SubSeq(s \o t, 1, k) = SubSeq(s, 1, k) /\ Len(SubSeq(s, 1, k)) = k
         /\ Len(s) <= Len(s \o t)
<1> DEFINE m == Len(s)
           r == s \o t
           a == SubSeq(r, 1, k)
           b == SubSeq(s, 1, k)
<1>1. /\ r \in Seq(E) /\ m \in Nat /\ Len(t) \in Nat /\ Len(r) = m + Len(t)
      /\ \A i \in 1 .. m : r[i] = s[i]
  BY ConcatHolds
<1>2. k \in Int /\ 1 \in Int /\ k \in Nat /\ k <= m
  BY <1>1
<1> HIDE DEF m, r
<1>3. ASSUME NEW i \in 1 .. k
      PROVE  r[i] = s[i] /\ s[i] \in E /\ r[i] \in E
  <2>1. i \in 1 .. m
    BY <1>1, <1>2
  <2>2. s[i] \in E
    BY <2>1, ElementOfSeq DEF m
  <2>3. QED
    BY <1>1, <2>1, <2>2
<1>4. /\ a \in Seq(E) /\ Len(a) = IF 1 <= k THEN k - 1 + 1 ELSE 0
      /\ \A i \in 1 .. k - 1 + 1 : a[i] = r[1 + i - 1]
  BY <1>2, <1>3, SubSeqProperties
<1>5. /\ b \in Seq(E) /\ Len(b) = IF 1 <= k THEN k - 1 + 1 ELSE 0
      /\ \A i \in 1 .. k - 1 + 1 : b[i] = s[1 + i - 1]
  BY <1>2, <1>3, SubSeqProperties
<1> HIDE DEF a, b
<1>6. Len(a) = k /\ Len(b) = k
  BY <1>2, <1>4, <1>5
<1>7. \A i \in 1 .. k : a[i] = b[i]
  <2> SUFFICES ASSUME NEW i \in 1 .. k
               PROVE  a[i] = b[i]
    OBVIOUS
  <2>1. i \in 1 .. k - 1 + 1 /\ 1 + i - 1 = i
    BY <1>2
  <2>2. QED
    BY <1>3, <1>4, <1>5, <2>1
<1>8. a = b
  BY <1>4, <1>5, <1>6, <1>7, SeqEqual
<1>9. m <= Len(r)
  BY <1>1
<1>10. QED
  BY <1>6, <1>8, <1>9 DEF a, b, m, r

\* What a step that reports leaves of the log, at the tick it began in.
LEMMA EmittedIsRight ==
  ASSUME LogInv, NEW s, Reported(s), Emit(s)
  PROVE  /\ LogRight(events', stats', nodes', procs', tick)
         /\ sequence' = Len(events') /\ Len(events) <= Len(events') /\ Len(events) \in Nat
         /\ \A k \in 0 .. Len(events) :
              SubSeq(events', 1, k) = SubSeq(events, 1, k) /\ Len(SubSeq(events, 1, k)) = k
<1> DEFINE new == Stamped(s, sequence, tick)
<1>1. LogRight(events, stats, nodes, procs, tick) /\ sequence = Len(events) /\ tick \in Nat
  BY DEF LogInv, PInv, IInv, TypeOK
<1>2. events' = events \o new /\ sequence' = sequence + Len(s)
  BY DEF Emit
<1>3. s \in Seq(Entries) /\ Describes(s, procs, procs') /\ Accounts(s, nodes, nodes')
      /\ Counts(s, stats, stats')
  BY DEF Reported
<1>4. events \in Seq(Events) /\ Len(events) \in Nat
  BY <1>1, LenProperties DEF LogRight, NumbersOf
<1>5. new \in Seq(Events)
  BY <1>1, <1>3, <1>4, StampedHolds
<1>6. LogRight(events \o Stamped(s, Len(events), tick), stats', nodes', procs', tick)
      /\ Len(events \o Stamped(s, Len(events), tick)) = Len(events) + Len(s)
  BY <1>1, <1>3, ReportedIsRight
<1>7. LogRight(events', stats', nodes', procs', tick) /\ sequence' = Len(events')
  BY <1>1, <1>2, <1>6
<1> HIDE DEF new
<1>8. ASSUME NEW k \in 0 .. Len(events)
      PROVE  /\ SubSeq(events', 1, k) = SubSeq(events, 1, k) /\ Len(SubSeq(events, 1, k)) = k
             /\ Len(events) <= Len(events')
  BY <1>2, <1>4, <1>5, BeginningStays
<1>9. 0 \in 0 .. Len(events)
  BY <1>4
<1>10. QED
  BY <1>4, <1>7, <1>8, <1>9

\* The samples taken when phase p of tick t is under way.
Sampled(p, t) == IF p \in {"apply", "beat", "place"} THEN t - 1 ELSE t

\* The part of the invariant about the log that a rollback returns to.
KeptRight ==
  /\ phase = "idle" => kept = NothingKept
  /\ phase # "idle" =>
       /\ kept.count \in 0 .. Len(events) /\ kept.sequence = kept.count
       /\ LogRight(SubSeq(events, 1, kept.count), kept.stats, saved.nodes, saved.procs,
                   saved.tick)
       /\ kept.stats.samples = saved.tick

LEMMA LogInvParts ==
  LogInv <=> /\ PInv
             /\ LogRight(events, stats, nodes, procs, tick) /\ sequence = Len(events)
             /\ stats.samples = Sampled(phase, tick)
             /\ KeptRight
BY DEF LogInv, KeptRight, Sampled

LEMMA CommandKeepsLog ==
  ASSUME LogInv, LogCommand
  PROVE  LogInv'
<1>1. /\ PInv /\ stats \in Stats /\ stats.samples = Sampled(phase, tick) /\ KeptRight
  BY LogInvParts DEF LogRight, CountsOf
<1>2. /\ Command
      /\ \/ Told /\ tick' = tick
         \/ /\ Replace /\ tick' = 0 /\ kept' = kept
            /\ LogRight(events', stats', nodes', procs', tick')
            /\ sequence' = Len(events') /\ stats'.samples = 0
  BY <1>1, CommandTells
<1>3. phase = "idle" /\ phase' = "idle" /\ saved' = saved
  BY <1>2, CommandIsFree
<1>4. PInv'
  BY <1>1, <1>2, NextPInv DEF Next
<1>5. kept' = kept
  BY <1>2 DEF Told
<1>6. KeptRight'
  BY <1>1, <1>3, <1>5 DEF KeptRight
<1>7. LogRight(events', stats', nodes', procs', tick') /\ sequence' = Len(events')
      /\ stats'.samples = Sampled(phase', tick')
  <2>1. CASE Told /\ tick' = tick
    <3>1. PICK s : Reported(s) /\ Emit(s) /\ kept' = kept /\ stats'.samples = stats.samples
      BY <2>1 DEF Told
    <3>2. LogRight(events', stats', nodes', procs', tick) /\ sequence' = Len(events')
      BY <3>1, EmittedIsRight
    <3>3. QED
      BY <1>1, <1>3, <2>1, <3>1, <3>2
  <2>2. CASE /\ LogRight(events', stats', nodes', procs', tick') /\ tick' = 0
             /\ sequence' = Len(events') /\ stats'.samples = 0
    BY <1>3, <2>2 DEF Sampled
  <2>3. QED
    BY <1>2, <2>1, <2>2
<1>8. QED
  BY <1>4, <1>6, <1>7, LogInvParts DEF LogInv, KeptRight, Sampled

LEMMA BeginTells ==
  ASSUME PInv, stats \in Stats, LogBegin
  PROVE  \E s : Reported(s) /\ Emit(s)
<1> DEFINE s == IF status = "RUNNING" THEN <<>> ELSE <<SimEntry("SIMULATION_STARTED")>>
<1>1. BeginStep /\ Emit(s) /\ stats' = stats /\ nodes' = nodes /\ procs' = procs
  BY DEF LogBegin, BeginStep
<1>2. s \in Seq(QuietEntries)
  <2>1. SimEntry("SIMULATION_STARTED") \in QuietEntries
    BY QuietEntry DEF Quiet
  <2>2. <<SimEntry("SIMULATION_STARTED")>> \in Seq(QuietEntries)
    BY <2>1
  <2>3. QED
    BY <2>2, NothingIsQuiet
<1> HIDE DEF s
<1>3. SameCounts
  BY <1>1 DEF SameCounts
<1>4. Reported(s)
  BY <1>1, <1>2, <1>3, SameClusterIsCalm, QuietReport
<1>5. QED
  BY <1>1, <1>4

\* A tick begins by keeping a log that is right.
LEMMA BeginKeepsLog ==
  ASSUME LogInv, LogBegin
  PROVE  LogInv'
<1>1. /\ PInv /\ stats \in Stats /\ stats.samples = Sampled(phase, tick) /\ KeptRight
      /\ LogRight(events, stats, nodes, procs, tick) /\ sequence = Len(events)
      /\ tick \in Nat
  BY LogInvParts DEF LogRight, CountsOf, PInv, IInv, TypeOK
<1>2. /\ BeginStep /\ stats' = stats
      /\ kept' = [count |-> Len(events), sequence |-> sequence, stats |-> stats]
  BY DEF LogBegin
<1>3. /\ phase = "idle" /\ phase' = "apply" /\ tick' = tick + 1
      /\ nodes' = nodes /\ procs' = procs
      /\ saved'.nodes = nodes /\ saved'.procs = procs /\ saved'.tick = tick
  BY <1>2 DEF BeginStep, Current
<1>4. PICK s : Reported(s) /\ Emit(s)
  BY <1>1, BeginTells
<1>6. /\ LogRight(events', stats', nodes', procs', tick)
      /\ sequence' = Len(events') /\ Len(events) <= Len(events') /\ Len(events) \in Nat
      /\ \A k \in 0 .. Len(events) : SubSeq(events', 1, k) = SubSeq(events, 1, k)
  BY <1>4, EmittedIsRight
<1>7. LogRight(events', stats', nodes', procs', tick')
  BY <1>1, <1>3, <1>6, RightLater
<1>8. PInv'
  BY <1>1, <1>2, NextPInv DEF Next
<1>9. KeptRight'
  <2>1. events' \in Seq(Events) /\ Len(events') \in Nat
    BY <1>7, LenProperties DEF LogRight, NumbersOf
  <2>2. kept'.count \in 0 .. Len(events') /\ kept'.sequence = kept'.count
    BY <1>1, <1>2, <1>6, <2>1
  <2>3. SubSeq(events', 1, kept'.count) = events
    <3>1. SubSeq(events', 1, Len(events)) = SubSeq(events, 1, Len(events))
      BY <1>6
    <3>2. SubSeq(events, 1, Len(events)) = events
      BY <1>1, SubSeqFull DEF LogRight, NumbersOf
    <3>3. QED
      BY <1>2, <3>1, <3>2
  <2>4. LogRight(SubSeq(events', 1, kept'.count), kept'.stats, saved'.nodes, saved'.procs,
                 saved'.tick)
    BY <1>1, <1>2, <1>3, <2>3
  <2>5. kept'.stats.samples = saved'.tick
    BY <1>1, <1>2, <1>3 DEF Sampled
  <2>6. QED
    BY <1>3, <2>2, <2>4, <2>5 DEF KeptRight
<1>10. stats'.samples = Sampled(phase', tick')
  BY <1>1, <1>2, <1>3 DEF Sampled
<1>11. QED
  BY <1>6, <1>7, <1>8, <1>9, <1>10, LogInvParts DEF LogInv, KeptRight, Sampled

LEMMA InsideStepKeepsLog ==
  ASSUME LogInv, LogInsideStep
  PROVE  LogInv'
<1>1. /\ PInv /\ stats \in Stats /\ stats.samples = Sampled(phase, tick) /\ KeptRight
      /\ LogRight(events, stats, nodes, procs, tick) /\ sequence = Len(events)
      /\ tick \in Nat
  BY LogInvParts DEF LogRight, CountsOf, PInv, IInv, TypeOK
<1>2. InsideStep /\ TickTells
  BY <1>1, InsideStepTells
<1>3. PInv'
  BY <1>1, <1>2, NextPInv DEF Next
<1>4. /\ phase # "idle"
      /\ \/ Rollback /\ tick' < tick /\ phase' = "idle"
         \/ /\ tick' = tick
            /\ \/ phase' = "idle" /\ procs' = procs
               \/ phase' # "idle" /\ saved' = saved
  BY <1>1, <1>2, TickGoesOn
<1>5. ASSUME NEW s, Reported(s), Emit(s), tick' = tick
      PROVE  /\ LogRight(events', stats', nodes', procs', tick') /\ sequence' = Len(events')
             /\ Len(events) <= Len(events') /\ Len(events) \in Nat
             /\ \A k \in 0 .. Len(events) : SubSeq(events', 1, k) = SubSeq(events, 1, k)
  BY <1>5, EmittedIsRight
<1>6. ASSUME NEW s, Reported(s), Emit(s), tick' = tick, kept' = kept, phase' # "idle"
      PROVE  KeptRight'
  <2>1. saved' = saved
    BY <1>1, <1>4, <1>6 DEF Rollback
  <2>2. /\ kept.count \in 0 .. Len(events) /\ kept.sequence = kept.count
        /\ LogRight(SubSeq(events, 1, kept.count), kept.stats, saved.nodes, saved.procs,
                    saved.tick)
        /\ kept.stats.samples = saved.tick
    BY <1>1, <1>4 DEF KeptRight
  <2>3. /\ Len(events) <= Len(events') /\ Len(events) \in Nat
        /\ SubSeq(events', 1, kept.count) = SubSeq(events, 1, kept.count)
    BY <1>5, <1>6, <2>2
  <2>4. events' \in Seq(Events) /\ Len(events') \in Nat
    BY <1>5, <1>6, LenProperties DEF LogRight, NumbersOf
  <2>5. kept.count \in 0 .. Len(events')
    BY <2>2, <2>3, <2>4
  <2>6. QED
    BY <1>6, <2>1, <2>2, <2>3, <2>5 DEF KeptRight
<1>7. CASE ~ Rollback
  <2>1. tick' = tick
    BY <1>4, <1>7
  <2>2. \/ Told /\ kept' = kept
           /\ (phase \in {"apply", "beat", "place"} <=> phase' \in {"apply", "beat", "place"})
           /\ phase' # "idle"
        \/ /\ \E s : Reported(s) /\ Emit(s)
           /\ kept' = kept /\ stats'.samples = stats.samples + 1
           /\ phase = "place" /\ phase' = "run"
        \/ /\ \E s : Reported(s) /\ Emit(s)
           /\ stats' = stats /\ phase = "close" /\ phase' = "idle" /\ kept' = NothingKept
    BY <1>2, <1>7 DEF TickTells
  <2>3. PICK s : Reported(s) /\ Emit(s)
    BY <2>2 DEF Told
  <2>4. LogRight(events', stats', nodes', procs', tick') /\ sequence' = Len(events')
    BY <1>5, <2>1, <2>3
  <2>5. stats'.samples = Sampled(phase', tick')
    BY <1>1, <2>1, <2>2 DEF Sampled, Told
  <2>6. KeptRight'
    <3>1. CASE phase' # "idle"
      BY <1>6, <2>1, <2>2, <2>3, <3>1
    <3>2. CASE phase' = "idle"
      BY <2>2, <3>2 DEF KeptRight
    <3>3. QED
      BY <3>1, <3>2
  <2>7. QED
    BY <1>3, <2>4, <2>5, <2>6, LogInvParts DEF LogInv, KeptRight, Sampled
<1>8. CASE Rollback
  <2>1. tick' < tick
    <3>1. tick = saved.tick + 1 /\ tick' = saved.tick /\ saved.tick \in Nat
      BY <1>1, <1>4, <1>8 DEF Rollback, PInv, StatusRight, IInv, TypeOK
    <3>2. QED
      BY <3>1
  <2>2. phase' = "idle" /\ nodes' = saved.nodes /\ procs' = saved.procs /\ tick' = saved.tick
    BY <1>8 DEF Rollback
  <2>3. Truncate
    <3>1. phase' = "idle" /\ tick' # tick
      BY <1>1, <2>1, <2>2
    <3>2. QED
      BY <1>2, <3>1 DEF TickTells
  <2>5. events' = SubSeq(events, 1, kept.count) /\ sequence' = kept.sequence
        /\ stats' = kept.stats /\ kept' = NothingKept
    BY <2>3 DEF Truncate
  <2>6. /\ kept.count \in 0 .. Len(events) /\ kept.sequence = kept.count
        /\ LogRight(SubSeq(events, 1, kept.count), kept.stats, saved.nodes, saved.procs,
                    saved.tick)
        /\ kept.stats.samples = saved.tick
    BY <1>1, <1>4 DEF KeptRight
  <2>7. Len(SubSeq(events, 1, kept.count)) = kept.count
    <3>1. events \in Seq(Events) /\ <<>> \in Seq(Events)
      BY <1>1 DEF LogRight, NumbersOf
    <3>2. QED
      BY <2>6, <3>1, BeginningStays
  <2>8. QED
    BY <1>3, <2>2, <2>5, <2>6, <2>7, LogInvParts DEF LogInv, KeptRight, Sampled
<1>9. QED
  BY <1>7, <1>8

LEMMA LogNextKeepsLog ==
  ASSUME LogInv, [LogNext]_<<vars, logVars>>
  PROVE  LogInv'
<1>1. CASE LogNext
  BY <1>1, CommandKeepsLog, BeginKeepsLog, InsideStepKeepsLog DEF LogNext
<1>2. CASE UNCHANGED <<vars, logVars>>
  <2>1. PInv'
    BY <1>2, NextPInv DEF LogInv
  <2>2. UNCHANGED <<events, sequence, stats, kept, nodes, procs, tick, phase, saved>>
    BY <1>2 DEF logVars, vars, clusterVars, stepVars
  <2>3. QED
    BY <2>1, <2>2 DEF LogInv
<1>3. QED
  BY <1>1, <1>2

LEMMA LogInitRight ==
  ASSUME LogInit
  PROVE  LogInv
<1>1. Init /\ events = <<>> /\ sequence = 0 /\ stats = NoStats /\ kept = NothingKept
  BY DEF LogInit
<1>2. nodes = NoNodes /\ procs = NoProcs /\ tick = 0 /\ phase = "idle"
  BY <1>1 DEF Init
<1>3. PInv
  BY <1>1, InitPInv
<1>4. LogRight(events, stats, nodes, procs, tick)
  BY <1>1, <1>2, EmptyIsRight
<1>5. sequence = Len(events) /\ stats.samples = 0
  BY <1>1 DEF NoStats
<1>6. QED
  BY <1>1, <1>2, <1>3, <1>4, <1>5 DEF LogInv

\* LogInv holds in every state that can be reached.
LEMMA LogInvariantHolds == LogSpec => []LogInv
<1>1. LogInit => LogInv
  BY LogInitRight
<1>2. LogInv /\ [LogNext]_<<vars, logVars>> => LogInv'
  BY LogNextKeepsLog
<1>3. QED
  BY <1>1, <1>2, PTL DEF LogSpec

-----------------------------------------------------------------------------
(* What follows for a reader of the log *)

\* Event numbers count from one without gaps and ticks never go back, whatever
\* ticks failed in between: truncating the log and giving the numbers back agree
\* (emitLocked and the rollback closure).
THEOREM NumbersCorrect == LogSpec => []LogIsNumbered
<1>1. LogInv => LogIsNumbered
  <2> SUFFICES ASSUME LogInv
               PROVE  LogIsNumbered
    OBVIOUS
  <2>1. sequence = Len(events) /\ NumbersOf(events, tick)
    BY DEF LogInv, LogRight
  <2>2. DOMAIN events = 1 .. Len(events)
    BY <2>1, LenProperties DEF NumbersOf
  <2>3. QED
    BY <2>1, <2>2 DEF NumbersOf, LogIsNumbered
<1>2. QED
  BY <1>1, LogInvariantHolds, PTL

\* Each counter of the statistics is the number of events of its kind, however many
\* processes a failure hits and however many ticks are undone.
THEOREM StatisticsCorrect == LogSpec => []StatisticsMatchTheLog
<1>1. LogInv => StatisticsMatchTheLog
  <2> SUFFICES ASSUME LogInv
               PROVE  StatisticsMatchTheLog
    OBVIOUS
  <2>1. NumbersOf(events, tick) /\ CountsOf(events, stats)
        /\ stats.samples = IF phase \in {"apply", "beat", "place"} THEN tick - 1 ELSE tick
    BY DEF LogInv, LogRight
  <2>2. DOMAIN events = 1 .. Len(events)
    BY <2>1, LenProperties DEF NumbersOf
  <2>3. \A type : Logged(type) = Number(events, type)
    BY <2>2 DEF Logged, Number
  <2>4. QED
    BY <2>1, <2>3 DEF CountsOf, StatisticsMatchTheLog
<1>2. QED
  BY <1>1, LogInvariantHolds, PTL

\* The greatest number of a set that has one.
LEMMA LastMoveIs ==
  ASSUME NEW p
  PROVE  /\ Moves(events, p) = {} => LastMove(p) = 0
         /\ \A i \in Moves(events, p) :
              (\A j \in Moves(events, p) : j <= i) => LastMove(p) = i
<1> DEFINE I == Moves(events, p)
<1>1. I = {i \in 1 .. Len(events) : events[i].process = p /\ events[i].type \in DOMAIN StateAfter}
  BY DEF Moves
<1>2. LastMove(p) = IF I # {} THEN Max(I) ELSE 0
  BY <1>1 DEF LastMove, SelectLastInSeq
<1>3. ASSUME NEW i \in I, \A j \in I : j <= i
      PROVE  Max(I) = i
  <2>1. \A j \in I : j \in Int
    BY <1>1
  <2> HIDE DEF I
  <2>2. \A j \in I : i >= j
    BY <1>3, <2>1
  <2>3. \A k \in I : (\A j \in I : k >= j) => k = i
    BY <1>3, <2>1, <2>2
  <2>4. QED
    BY <2>2, <2>3 DEF Max
<1>4. QED
  BY <1>2, <1>3

\* A reader of the log alone knows which processes there are, the state of each and
\* the node of those that run: no path changes a process without an event about it,
\* and none reports a change that did not happen or was undone.
THEOREM LogTells == LogSpec => []LogTellsTheState
<1>1. LogInv => LogTellsTheState
  <2> SUFFICES ASSUME LogInv
               PROVE  LogTellsTheState
    OBVIOUS
  <2>1. TellsOf(events, procs) /\ DOMAIN procs \subseteq ProcIds
    BY DEF LogInv, LogRight, PInv, IInv, TypeOK, ProcsOK
  <2>2. ASSUME NEW p \in DOMAIN procs
        PROVE  /\ LastMove(p) # 0
               /\ procs[p].state = StateAfter[events[LastMove(p)].type]
               /\ procs[p].state = "RUNNING" => procs[p].node = events[LastMove(p)].node
    <3>1. MovesTo(events, p, procs[p])
      BY <2>1 DEF TellsOf
    <3>2. PICK i \in Moves(events, p) :
            /\ \A j \in Moves(events, p) : j <= i
            /\ procs[p].state = StateAfter[events[i].type]
            /\ procs[p].state = "RUNNING" => procs[p].node = events[i].node
      BY <3>1 DEF MovesTo
    <3>3. LastMove(p) = i
      BY <3>2, LastMoveIs
    <3>4. i # 0
      BY DEF Moves
    <3>5. QED
      BY <3>2, <3>3, <3>4
  <2>3. ASSUME NEW p \in ProcIds, p \notin DOMAIN procs
        PROVE  LastMove(p) = 0
    BY <2>1, <2>3, LastMoveIs DEF TellsOf
  <2>4. QED
    BY <2>1, <2>2, <2>3 DEF LogTellsTheState
<1>2. QED
  BY <1>1, LogInvariantHolds, PTL

\* Adding up what the log says was allocated and neither released nor lost with its
\* node gives what each node has allocated, for any number of nodes, of processes and
\* of units: no path that ends a run leaves its release out (releaseLocked).
THEOREM LogAccounts == LogSpec => []LogAccountsForResources
<1>1. LogInv => LogAccountsForResources
  <2> SUFFICES ASSUME LogInv, NEW n \in DOMAIN nodes, NEW r \in Resources
               PROVE  LET held == {p \in DOMAIN procs :
                              \E i \in DOMAIN events :
                                /\ events[i].type = "RESOURCE_ALLOCATED"
                                /\ events[i].process = p /\ events[i].node = n
                                /\ \A j \in i + 1 .. Len(events) : ~ Frees(events[j], p, n)}
                      IN nodes[n].allocated[r] = Demand(procs, held, r)
    BY DEF LogAccountsForResources
  <2> DEFINE held == {p \in DOMAIN procs :
                        \E i \in DOMAIN events :
                          /\ events[i].type = "RESOURCE_ALLOCATED"
                          /\ events[i].process = p /\ events[i].node = n
                          /\ \A j \in i + 1 .. Len(events) : ~ Frees(events[j], p, n)}
  <2>1. /\ HoldingsOf(events, nodes) /\ events \in Seq(Events)
        /\ DOMAIN procs \subseteq ProcIds /\ DOMAIN nodes \subseteq NodeIds
        /\ Sound(nodes, procs)
    BY DEF LogInv, LogRight, NumbersOf, PInv, IInv, TypeOK, ProcsOK, NodesOK
  <2>2. DOMAIN events = 1 .. Len(events)
    BY <2>1, LenProperties
  <2>3. held = {p \in DOMAIN procs : HeldIn(events, p, n)}
    BY <2>2 DEF HeldIn, Gives
  <2>4. \A p \in DOMAIN procs : HeldIn(events, p, n) <=> p \in nodes[n].running
    BY <2>1 DEF HoldingsOf, RunsOn
  <2>5. nodes[n].running \subseteq DOMAIN procs
    BY <2>1 DEF Sound, HostingIn, ListsOnlyItsOwn
  <2> HIDE DEF held
  <2>6. held = nodes[n].running
    BY <2>3, <2>4, <2>5
  <2>7. nodes[n].allocated[r] = Demand(procs, nodes[n].running, r)
    BY <2>1 DEF Sound, LedgerIn, CountersMatch
  <2>8. QED
    BY <2>6, <2>7 DEF held
<1>2. QED
  BY <1>1, LogInvariantHolds, PTL

LEMMA BeginningIsPrefix ==
  ASSUME NEW E, NEW s \in Seq(E), NEW t, Len(s) <= Len(t), SubSeq(t, 1, Len(s)) = s
  PROVE  IsPrefix(s, t)
<1>1. SubSeq(s, 1, Len(s)) = s
  BY SubSeqFull
<1>2. QED
  BY <1>1 DEF IsPrefix

LEMMA SameIsPrefix ==
  ASSUME NEW E, NEW s \in Seq(E)
  PROVE  IsPrefix(s, s)
<1>1. Len(s) <= Len(s)
  BY LenProperties
<1>2. QED
  BY <1>1 DEF IsPrefix

\* What is seen after a step begins with what was seen before.
LEMMA SeenGrows ==
  ASSUME LogInv, LogNext, ~ Replace
  PROVE  IsPrefix(SeenEvents, SeenEvents')
<1>1. /\ PInv /\ stats \in Stats /\ KeptRight /\ tick \in Nat
      /\ events \in Seq(Events) /\ Len(events) \in Nat
  BY LogInvParts, LenProperties DEF LogRight, CountsOf, NumbersOf, PInv, IInv, TypeOK
<1>2. ASSUME NEW s, Reported(s), Emit(s)
      PROVE  /\ Len(events) <= Len(events')
             /\ \A k \in 0 .. Len(events) :
                  SubSeq(events', 1, k) = SubSeq(events, 1, k) /\ Len(SubSeq(events, 1, k)) = k
  BY <1>2, EmittedIsRight
<1>3. SubSeq(events, 1, Len(events)) = events
  BY <1>1, SubSeqFull
<1>4. CASE LogCommand
  <2>1. Told /\ Command
    BY <1>1, <1>4, CommandTells
  <2>2. phase = "idle" /\ phase' = "idle"
    BY <2>1, CommandIsFree
  <2>3. PICK s : Reported(s) /\ Emit(s)
    BY <2>1 DEF Told
  <2>4. Len(events) <= Len(events') /\ SubSeq(events', 1, Len(events)) = events
    BY <1>1, <1>2, <1>3, <2>3
  <2>5. IsPrefix(events, events')
    BY <1>1, <2>4, BeginningIsPrefix
  <2>6. QED
    BY <2>2, <2>5 DEF SeenEvents
<1>5. CASE LogBegin
  <2>1. phase = "idle" /\ phase' # "idle" /\ kept'.count = Len(events)
    BY <1>5 DEF LogBegin, BeginStep
  <2>2. SubSeq(events', 1, Len(events)) = events
    <3>1. PICK s : Reported(s) /\ Emit(s)
      BY <1>1, <1>5, BeginTells
    <3>2. QED
      BY <1>1, <1>2, <1>3, <3>1
  <2>3. QED
    BY <1>1, <2>1, <2>2, SameIsPrefix DEF SeenEvents
<1>6. CASE LogInsideStep
  <2>1. InsideStep /\ TickTells
    BY <1>1, <1>6, InsideStepTells
  <2>2. phase # "idle"
    BY <1>1, <2>1, TickGoesOn
  <2> DEFINE seen == SubSeq(events, 1, kept.count)
  <2>3. SeenEvents = seen /\ kept.count \in 0 .. Len(events)
    BY <1>1, <2>2 DEF SeenEvents, KeptRight
  <2>4. seen \in Seq(Events) /\ Len(seen) = kept.count
    <3>1. LogRight(seen, kept.stats, saved.nodes, saved.procs, saved.tick)
      BY <1>1, <2>2 DEF KeptRight
    <3>2. <<>> \in Seq(Events)
      OBVIOUS
    <3>3. QED
      BY <1>1, <2>3, <3>1, <3>2, BeginningStays DEF LogRight, NumbersOf
  <2>5. CASE Truncate /\ Rollback
    <3>1. phase' = "idle" /\ events' = seen
      BY <2>5 DEF Truncate, Rollback
    <3>2. QED
      BY <2>3, <2>4, <3>1, SameIsPrefix DEF SeenEvents
  <2>6. ASSUME NEW s, Reported(s), Emit(s), phase' = "idle" \/ kept' = kept
        PROVE  IsPrefix(SeenEvents, SeenEvents')
    <3>1. Len(events) <= Len(events') /\ SubSeq(events', 1, kept.count) = seen
      BY <1>2, <2>3, <2>6
    <3>2. CASE phase' = "idle"
      <4>1. Len(seen) <= Len(events')
        <5>1. Len(events') \in Nat
          BY <2>6, EmittedIsRight, LenProperties DEF LogRight, NumbersOf
        <5>2. QED
          BY <1>1, <2>3, <2>4, <3>1, <5>1
      <4>2. SubSeq(events', 1, Len(seen)) = seen
        BY <2>4, <3>1
      <4> HIDE DEF seen
      <4>3. IsPrefix(seen, events')
        BY <2>4, <4>1, <4>2, BeginningIsPrefix
      <4>4. QED
        BY <2>3, <3>2, <4>3 DEF SeenEvents
    <3>3. CASE phase' # "idle"
      <4>1. SeenEvents' = seen
        BY <2>6, <3>1, <3>3 DEF SeenEvents
      <4>2. QED
        BY <2>3, <2>4, <4>1, SameIsPrefix
    <3>4. QED
      BY <3>2, <3>3
  <2>7. QED
    BY <2>1, <2>5, <2>6 DEF TickTells, Told
<1>7. QED
  BY <1>4, <1>5, <1>6 DEF LogNext

\* Nothing that a caller of Events has seen is ever taken back or changed while the
\* cluster is the same: of a tick that fails, nobody saw an event.
THEOREM LogGrows == LogSpec => LogOnlyGrows
<1>1. LogInv /\ [LogNext]_<<vars, logVars>>
        => [~ Replace => IsPrefix(SeenEvents, SeenEvents')]_<<vars, logVars>>
  BY SeenGrows
<1>2. QED
  BY <1>1, LogInvariantHolds, PTL DEF LogSpec, LogOnlyGrows
=============================================================================
