-------------------------- MODULE EventStreamProofs --------------------------
(***************************************************************************)
(* What a client's stream brings it, for any sessions, runs, clients,      *)
(* capacities of the rings and numbers of lost connections and restarts.   *)
(* First the operators on sequences, then what a published event does to   *)
(* rings and streams, then a lemma for each action; at the end, that what  *)
(* the streams carry is true.                                              *)
(*                                                                         *)
(* What a client has read and what is on its way are one sequence here     *)
(* (Full): reading a frame does not change it, and losing a connection     *)
(* only makes it shorter.                                                  *)
(***************************************************************************)
EXTENDS PromptAndWait, RunStateProofs, WellFoundedInduction, SequenceTheorems,
        FiniteSetTheorems

\* Every set of natural numbers has a least one.
LEMMA Least ==
    ASSUME NEW T, T \subseteq Nat, T # {}
    PROVE  \E x \in T : \A y \in T : x <= y
<1> DEFINE R == {ss \in Nat \X Nat : ss[1] < ss[2]}
<1>1. IsWellFoundedOn(R, Nat)
  <2>1. R = OpToRel(<, Nat)
    BY Zenon DEF OpToRel
  <2> QED
    BY <2>1, NatLessThanWellFounded, Zenon
<1> HIDE DEF R
<1>2. PICK x \in T : \A y \in T : <<y, x>> \notin R
  BY <1>1, WFMin
<1>3. \A y \in T : x <= y
  <2> SUFFICES ASSUME NEW y \in T PROVE x <= y
    OBVIOUS
  <2>1. x \in Nat /\ y \in Nat
    OBVIOUS
  <2>2. ~ y < x
    BY <1>2, <2>1 DEF R
  <2> QED
    BY <2>1, <2>2
<1> QED
  BY <1>3

\* One more entry of the recursion, given the entry before it.
Next1(es, T, F, i) == IF es[i] \in T THEN Append(F[i - 1], es[i]) ELSE F[i - 1]
Upto(es, T, F, n) == F = [i \in 0 .. n |-> IF i = 0 THEN <<>>
                                          ELSE IF es[i] \in T THEN Append(F[i - 1], es[i])
                                          ELSE F[i - 1]]

\* A filter goes through the sequence from the front.
LEMMA FilterExists ==
    ASSUME NEW es, NEW T, NEW n \in Nat
    PROVE  \E F : Upto(es, T, F, n)
<1> DEFINE B == {m \in Nat : ~ \E F : Upto(es, T, F, m)}
<1> SUFFICES ASSUME B # {} PROVE FALSE
  BY Zenon
<1>1. PICK m \in B : \A k \in B : m <= k
  BY Least, B \subseteq Nat
<1>2. m \in Nat /\ ~ \E F : Upto(es, T, F, m)
  OBVIOUS
<1>3. CASE m = 0
  <2>1. Upto(es, T, [i \in 0 .. m |-> <<>>], m)
    BY <1>3 DEF Upto
  <2> QED
    BY <1>2, <2>1
<1>4. CASE m # 0
  <2>1. m - 1 \in Nat /\ m - 1 \notin B
    BY <1>1, <1>2, <1>4
  <2>2. PICK F : Upto(es, T, F, m - 1)
    BY <2>1
  <2> DEFINE G == [i \in 0 .. m |-> IF i < m THEN F[i] ELSE Next1(es, T, F, m)]
  <2>3. Upto(es, T, G, m)
    <3>1. \A i \in 0 .. m : i < m => i \in 0 .. m - 1 /\ G[i] = F[i]
      BY <2>1, <1>2
    <3>2. \A i \in 0 .. m : G[i] = IF i = 0 THEN <<>>
                                   ELSE IF es[i] \in T THEN Append(G[i - 1], es[i])
                                   ELSE G[i - 1]
      <4> SUFFICES ASSUME NEW i \in 0 .. m
                   PROVE  G[i] = IF i = 0 THEN <<>>
                                   ELSE IF es[i] \in T THEN Append(G[i - 1], es[i])
                                   ELSE G[i - 1]
        OBVIOUS
      <4>1. CASE i < m
        <5>1. G[i] = F[i] /\ i \in 0 .. m - 1 /\ (i # 0 => G[i - 1] = F[i - 1])
          BY <3>1, <4>1, <1>2
        <5>2. F[i] = IF i = 0 THEN <<>>
                                   ELSE IF es[i] \in T THEN Append(F[i - 1], es[i])
                                   ELSE F[i - 1]
          BY <2>2, <5>1 DEF Upto
        <5> QED
          BY <5>1, <5>2
      <4>2. CASE i = m
        <5>1. G[i - 1] = F[i - 1] /\ i # 0
          BY <3>1, <4>2, <1>2, <1>4
        <5>2. G[i] = Next1(es, T, F, i)
          BY <4>2, <1>2
        <5> QED
          BY <5>1, <5>2 DEF Next1
      <4> QED
        BY <4>1, <4>2, <1>2
    <3> HIDE DEF G
    <3>3. G = [i \in 0 .. m |-> G[i]]
      BY DEF G
    <3> QED
      BY <3>2, <3>3 DEF Upto
  <2> HIDE DEF G
  <2> QED
    BY <1>2, <2>3
<1> QED
  BY <1>3, <1>4

\* It keeps the order, and what it keeps are the members of the set.
Picks(es, T, p, n, m) ==
    /\ m \in [1 .. Len(p) -> 1 .. n]
    /\ \A i, j \in 1 .. Len(p) : i < j => m[i] < m[j]
    /\ \A i \in 1 .. Len(p) : p[i] = es[m[i]] /\ es[m[i]] \in T
    /\ \A k \in 1 .. n : es[k] \in T => \E i \in 1 .. Len(p) : p[i] = es[k]

LEMMA FilterIs ==
    ASSUME NEW S, NEW es \in Seq(S), NEW T
    PROVE  /\ Filter(es, T) \in Seq(S)
           /\ \E m : Picks(es, T, Filter(es, T), Len(es), m)
<1>1. Len(es) \in Nat
  OBVIOUS
<1>2. PICK F : Upto(es, T, F, Len(es)) /\ Filter(es, T) = F[Len(es)]
  <2> DEFINE H == CHOOSE F : Upto(es, T, F, Len(es))
  <2>1. Upto(es, T, H, Len(es))
    BY FilterExists, <1>1
  <2>2. Filter(es, T) = H[Len(es)]
    BY DEF Filter, Upto
  <2> QED
    BY <2>1, <2>2
<1> DEFINE B == {n \in 0 .. Len(es) : ~ (F[n] \in Seq(S) /\ \E m : Picks(es, T, F[n], n, m))}
<1>3. SUFFICES ASSUME B # {} PROVE FALSE
  <2>1. Len(es) \notin B
    BY <1>3
  <2> QED
    BY <1>1, <1>2, <2>1
<1>4. PICK n \in B : \A k \in B : n <= k
  BY <1>1, <1>3, Least, B \subseteq Nat
<1>5. n \in 0 .. Len(es) /\ ~ (F[n] \in Seq(S) /\ \E m : Picks(es, T, F[n], n, m))
  OBVIOUS
<1>6. CASE n = 0
  <2>1. F[0] = <<>>
    BY <1>1, <1>2 DEF Upto
  <2>2. Picks(es, T, <<>>, 0, <<>>)
    BY DEF Picks
  <2> QED
    BY <1>5, <1>6, <2>1, <2>2
<1>7. CASE n # 0
  <2>1. n \in Nat /\ n <= Len(es) /\ n - 1 \in 0 .. Len(es) /\ n \in 1 .. Len(es)
    <3> HIDE DEF B
    <3> QED
      BY <1>1, <1>5, <1>7
  <2>2. n - 1 \in 0 .. Len(es) /\ n - 1 \notin B /\ n \in 1 .. Len(es)
    <3> HIDE DEF B
    <3> QED
      BY <1>4, <2>1
  <2>3. PICK m : F[n - 1] \in Seq(S) /\ Picks(es, T, F[n - 1], n - 1, m)
    BY <2>2
  <2>4. F[n] = IF es[n] \in T THEN Append(F[n - 1], es[n]) ELSE F[n - 1]
    BY <1>2, <2>2, <1>7 DEF Upto
  <2>5. PICK p : p = F[n - 1] /\ p \in Seq(S)
    BY <2>3
  <2>6. es[n] \in S
    BY <2>2
  <2>7. /\ Len(p) \in Nat
        /\ m \in [1 .. Len(p) -> 1 .. n - 1]
        /\ \A i, j \in 1 .. Len(p) : i < j => m[i] < m[j]
        /\ \A i \in 1 .. Len(p) : p[i] = es[m[i]] /\ es[m[i]] \in T
        /\ \A k \in 1 .. n - 1 : es[k] \in T => \E i \in 1 .. Len(p) : p[i] = es[k]
    BY <2>3, <2>5 DEF Picks
  <2>8. CASE es[n] \in T
    <3> DEFINE q == Append(p, es[n])
               o == [i \in 1 .. Len(p) + 1 |-> IF i <= Len(p) THEN m[i] ELSE n]
    <3>1. q \in Seq(S) /\ Len(q) = Len(p) + 1 /\ q[Len(p) + 1] = es[n] /\ Len(p) \in Nat
          /\ \A i \in 1 .. Len(p) : q[i] = p[i]
      BY <2>5, <2>6
    <3>2. o = [i \in 1 .. Len(p) + 1 |-> IF i <= Len(p) THEN m[i] ELSE n]
      OBVIOUS
    <3>3. o[Len(p) + 1] = n
      BY <2>7, <3>2
    <3>4. \A i \in 1 .. Len(p) : o[i] = m[i] /\ m[i] \in 1 .. n - 1
      BY <2>7, <3>2
    <3>5. /\ \A i \in 1 .. Len(p) : o[i] = m[i] /\ m[i] \in 1 .. n - 1
          /\ o[Len(p) + 1] = n
          /\ \A i \in 1 .. Len(p) + 1 : o[i] \in 1 .. n
      <4> HIDE DEF o, q
      <4> SUFFICES ASSUME NEW i \in 1 .. Len(p) + 1 PROVE o[i] \in 1 .. n
        BY <3>3, <3>4
      <4>1. CASE i = Len(p) + 1
        BY <4>1, <3>3, <2>1
      <4>2. CASE i # Len(p) + 1
        <5>1. i \in 1 .. Len(p)
          BY <4>2, <2>7
        <5>2. o[i] \in 1 .. n - 1
          BY <5>1, <3>4
        <5> QED
          BY <5>2, <2>1
      <4> QED
        BY <4>1, <4>2
    <3>6. o \in [1 .. Len(p) + 1 -> 1 .. n]
      BY <3>5
    <3> HIDE DEF q, o
    <3>7. Picks(es, T, q, n, o)
      <4>1. \A i, j \in 1 .. Len(q) : i < j => o[i] < o[j]
        <5> SUFFICES ASSUME NEW i \in 1 .. Len(q), NEW j \in 1 .. Len(q), i < j
                     PROVE  o[i] < o[j]
          OBVIOUS
        <5>1. i \in 1 .. Len(p) /\ o[i] = m[i] /\ m[i] \in 1 .. n - 1
          BY <3>1, <3>5
        <5>2. CASE j = Len(p) + 1
          BY <5>1, <5>2, <3>5, <2>1
        <5>3. CASE j # Len(p) + 1
          <6>1. j \in 1 .. Len(p)
            BY <3>1, <5>3
          <6> QED
            BY <5>1, <6>1, <3>5, <2>7
        <5> QED
          BY <5>2, <5>3
      <4>2. \A i \in 1 .. Len(q) : q[i] = es[o[i]] /\ es[o[i]] \in T
        <5> SUFFICES ASSUME NEW i \in 1 .. Len(q)
                     PROVE  q[i] = es[o[i]] /\ es[o[i]] \in T
          OBVIOUS
        <5>1. CASE i = Len(p) + 1
          BY <5>1, <3>1, <3>5, <2>8
        <5>2. CASE i # Len(p) + 1
          <6>1. i \in 1 .. Len(p)
            BY <3>1, <5>2
          <6> QED
            BY <6>1, <3>1, <3>5, <2>7
        <5> QED
          BY <5>1, <5>2
      <4>3. \A k \in 1 .. n : es[k] \in T => \E i \in 1 .. Len(q) : q[i] = es[k]
        <5> SUFFICES ASSUME NEW k \in 1 .. n, es[k] \in T
                     PROVE  \E i \in 1 .. Len(q) : q[i] = es[k]
          OBVIOUS
        <5>1. CASE k = n
          BY <3>1, <5>1
        <5>2. CASE k # n
          <6>1. k \in 1 .. n - 1
            BY <5>2, <2>2
          <6>2. PICK i \in 1 .. Len(p) : p[i] = es[k]
            BY <6>1, <2>3, <2>5 DEF Picks
          <6>3. i \in 1 .. Len(q) /\ q[i] = es[k]
            BY <6>2, <3>1
          <6> QED
            BY <6>3
        <5> QED
          BY <5>1, <5>2
      <4> QED
        BY <3>1, <3>6, <4>1, <4>2, <4>3 DEF Picks
    <3>8. F[n] = q
      BY <2>4, <2>5, <2>8 DEF q
    <3> QED
      BY <1>5, <3>1, <3>7, <3>8
  <2>9. CASE es[n] \notin T
    <3>1. Picks(es, T, p, n, m)
      <4>1. m \in [1 .. Len(p) -> 1 .. n]
        BY <2>2, <2>3, <2>5 DEF Picks
      <4>2. \A k \in 1 .. n : es[k] \in T => \E i \in 1 .. Len(p) : p[i] = es[k]
        BY <2>2, <2>3, <2>5, <2>9 DEF Picks
      <4> QED
        BY <2>3, <2>5, <4>1, <4>2 DEF Picks
    <3>2. F[n] = p
      BY <2>4, <2>5, <2>9
    <3> QED
      BY <1>5, <2>5, <3>1, <3>2
  <2> QED
    BY <2>8, <2>9
<1> QED
  BY <1>6, <1>7

\* The entries of a joined sequence.
LEMMA Joined ==
    ASSUME NEW S, NEW p \in Seq(S), NEW q \in Seq(S)
    PROVE  /\ p \o q \in Seq(S) /\ Len(p \o q) = Len(p) + Len(q)
           /\ Len(p) \in Nat /\ Len(q) \in Nat
           /\ \A i \in 1 .. Len(p) : (p \o q)[i] = p[i]
           /\ \A i \in 1 .. Len(q) : (p \o q)[Len(p) + i] = q[i]
           /\ \A i \in 1 .. Len(p) + Len(q) :
                 \/ i \in 1 .. Len(p)
                 \/ \E k \in 1 .. Len(q) : i = Len(p) + k
<1>1. p \o q \in Seq(S) /\ Len(p \o q) = Len(p) + Len(q) /\ Len(p) \in Nat /\ Len(q) \in Nat
  OBVIOUS
<1>2. \A i \in 1 .. Len(p) : (p \o q)[i] = p[i]
  OBVIOUS
<1>3. \A i \in 1 .. Len(q) : (p \o q)[Len(p) + i] = q[i]
  <2> SUFFICES ASSUME NEW i \in 1 .. Len(q) PROVE (p \o q)[Len(p) + i] = q[i]
    OBVIOUS
  <2>1. Len(p) + i \in 1 .. Len(p) + Len(q) /\ ~ Len(p) + i <= Len(p) /\ Len(p) + i - Len(p) = i
    BY <1>1
  <2> QED
    BY <2>1
<1>4. \A i \in 1 .. Len(p) + Len(q) :
         \/ i \in 1 .. Len(p)
         \/ \E k \in 1 .. Len(q) : i = Len(p) + k
  <2> DEFINE a == Len(p)
             b == Len(q)
  <2>1. a \in Nat /\ b \in Nat
    BY <1>1
  <2> HIDE DEF a, b
  <2> SUFFICES ASSUME NEW i \in 1 .. a + b, i \notin 1 .. a PROVE \E k \in 1 .. b : i = a + k
    BY DEF a, b
  <2>2. i - a \in 1 .. b /\ i = a + (i - a)
    BY <2>1
  <2> QED
    BY <2>2
<1> QED
  BY <1>1, <1>2, <1>3, <1>4

LEMMA RangeIs ==
    ASSUME NEW S, NEW p \in Seq(S)
    PROVE  /\ Range(p) = {p[i] : i \in 1 .. Len(p)}
           /\ \A e : e \in Range(p) <=> \E i \in 1 .. Len(p) : p[i] = e
BY DEF Range

LEMMA RangeOfJoined ==
    ASSUME NEW S, NEW p \in Seq(S), NEW q \in Seq(S)
    PROVE  \A e : e \in Range(p \o q) <=> e \in Range(p) \/ e \in Range(q)
<1> DEFINE v == p \o q
<1>1. /\ v \in Seq(S) /\ Len(v) = Len(p) + Len(q)
      /\ Len(p) \in Nat /\ Len(q) \in Nat
      /\ \A i \in 1 .. Len(p) : v[i] = p[i]
      /\ \A i \in 1 .. Len(q) : v[Len(p) + i] = q[i]
      /\ \A i \in 1 .. Len(p) + Len(q) :
            \/ i \in 1 .. Len(p)
            \/ \E k \in 1 .. Len(q) : i = Len(p) + k
  BY Joined
<1> HIDE DEF v
<1> SUFFICES ASSUME NEW e PROVE e \in Range(v) <=> e \in Range(p) \/ e \in Range(q)
  BY DEF v
<1>2. ASSUME e \in Range(v) PROVE e \in Range(p) \/ e \in Range(q)
  <2>1. PICK i \in 1 .. Len(v) : v[i] = e
    BY <1>1, <1>2, RangeIs
  <2>2. CASE i \in 1 .. Len(p)
    BY <1>1, <2>1, <2>2, RangeIs
  <2>3. CASE \E k \in 1 .. Len(q) : i = Len(p) + k
    BY <1>1, <2>1, <2>3, RangeIs
  <2> QED
    BY <1>1, <2>1, <2>2, <2>3
<1>3. ASSUME e \in Range(p) PROVE e \in Range(v)
  <2>1. PICK i \in 1 .. Len(p) : p[i] = e
    BY <1>3, RangeIs
  <2>2. i \in 1 .. Len(v) /\ v[i] = e
    BY <1>1, <2>1
  <2> QED
    BY <1>1, <2>2, RangeIs
<1>4. ASSUME e \in Range(q) PROVE e \in Range(v)
  <2>1. PICK i \in 1 .. Len(q) : q[i] = e
    BY <1>4, RangeIs
  <2>2. Len(p) + i \in 1 .. Len(v) /\ v[Len(p) + i] = e
    BY <1>1, <2>1
  <2> QED
    BY <1>1, <2>2, RangeIs
<1> QED
  BY <1>2, <1>3, <1>4

\* t is what follows the first d entries of es.
IsEndOf(t, es, d) == Len(t) + d = Len(es) /\ \A i \in 1 .. Len(t) : t[i] = es[i + d]

\* What is left of a ring is its end.
LEMMA TailingIs ==
    ASSUME NEW S, NEW es \in Seq(S), NEW n \in Nat
    PROVE  /\ Tailing(es, n) \in Seq(S) /\ Len(Tailing(es, n)) <= n
           /\ \E d \in Nat : IsEndOf(Tailing(es, n), es, d)
<1>1. CASE Len(es) > n
  <2>1. PICK t : t = SubSeq(es, Len(es) - n + 1, Len(es))
    OBVIOUS
  <2>2. t \in Seq(S) /\ Len(t) = n /\ \A i \in 1 .. n : t[i] = es[i + (Len(es) - n)]
    BY <1>1, <2>1
  <2>3. PICK d \in Nat : n + d = Len(es) /\ \A i \in 1 .. n : t[i] = es[i + d]
    <3>1. Len(es) - n \in Nat /\ n + (Len(es) - n) = Len(es)
      BY <1>1
    <3> QED
      BY <2>2, <3>1
  <2>4. t = Tailing(es, n)
    BY <1>1, <2>1 DEF Tailing
  <2>5. Len(t) <= n /\ Len(t) + d = Len(es)
    BY <2>2, <2>3
  <2>6. IsEndOf(t, es, d)
    BY <2>2, <2>3 DEF IsEndOf
  <2> QED
    BY <2>2, <2>3, <2>4, <2>5, <2>6
<1>2. CASE ~ Len(es) > n
  <2>1. \A i \in 1 .. Len(es) : es[i] = es[i + 0]
    OBVIOUS
  <2>2. es = Tailing(es, n)
    BY <1>2 DEF Tailing
  <2>3. Len(es) <= n /\ IsEndOf(es, es, 0) /\ 0 \in Nat
    BY <1>2, <2>1 DEF IsEndOf
  <2> QED
    BY <2>1, <2>2, <2>3
<1> QED
  BY <1>1, <1>2

LEMMA JoinedTwice ==
    ASSUME NEW S, NEW p \in Seq(S), NEW q \in Seq(S), NEW t \in Seq(S)
    PROVE  (p \o q) \o t = p \o (q \o t)
  BY ConcatAssociative

LEMMA SameSeq ==
    ASSUME NEW S, NEW p \in Seq(S), NEW q \in Seq(S), Len(p) = Len(q),
           \A i \in 1 .. Len(p) : p[i] = q[i]
    PROVE  p = q
<1>1. p \in [1 .. Len(p) -> S]
  OBVIOUS
<1>2. q \in [1 .. Len(p) -> S]
  OBVIOUS
<1>3. p = [i \in 1 .. Len(p) |-> p[i]]
  BY <1>1
<1>4. q = [i \in 1 .. Len(p) |-> q[i]]
  BY <1>2
<1> QED
  BY <1>3, <1>4

-----------------------------------------------------------------------------
\* Events of one process that ascend, with numbers behind a up to b.
Batch(es, a, b, ep) ==
    /\ es \in Seq(BusEvent)
    /\ \A i \in 1 .. Len(es) : es[i].epoch = ep /\ es[i].seq \in Nat
                               /\ a < es[i].seq /\ es[i].seq <= b
    /\ \A i, j \in 1 .. Len(es) : i < j => es[i].seq < es[j].seq

\* A filter leaves such a batch, of just the events asked for.
LEMMA FilterBatch ==
    ASSUME NEW a, NEW b, NEW ep, NEW es, Batch(es, a, b, ep), NEW T
    PROVE  /\ Batch(Filter(es, T), a, b, ep)
           /\ \A e : e \in Range(Filter(es, T)) <=> e \in Range(es) /\ e \in T
<1>1. es \in Seq(BusEvent)
  BY DEF Batch
<1>2. PICK p, m : p = Filter(es, T) /\ p \in Seq(BusEvent) /\ Picks(es, T, p, Len(es), m)
  BY <1>1, FilterIs
<1>3. /\ m \in [1 .. Len(p) -> 1 .. Len(es)]
      /\ \A i, j \in 1 .. Len(p) : i < j => m[i] < m[j]
      /\ \A i \in 1 .. Len(p) : p[i] = es[m[i]] /\ es[m[i]] \in T
      /\ \A k \in 1 .. Len(es) : es[k] \in T => \E i \in 1 .. Len(p) : p[i] = es[k]
  BY <1>2 DEF Picks
<1>4. Batch(p, a, b, ep)
  <2>1. \A i \in 1 .. Len(p) : p[i].epoch = ep /\ p[i].seq \in Nat
                               /\ a < p[i].seq /\ p[i].seq <= b
    BY <1>3 DEF Batch
  <2>2. \A i, j \in 1 .. Len(p) : i < j => p[i].seq < p[j].seq
    BY <1>3 DEF Batch
  <2> QED
    BY <1>2, <2>1, <2>2 DEF Batch
<1>5. \A e : e \in Range(p) <=> e \in Range(es) /\ e \in T
  <2>1. \A e : e \in Range(p) <=> \E i \in 1 .. Len(p) : p[i] = e
    BY <1>2, RangeIs
  <2>2. \A e : e \in Range(es) <=> \E i \in 1 .. Len(es) : es[i] = e
    BY <1>1, RangeIs
  <2> QED
    BY <1>3, <2>1, <2>2
<1> QED
  BY <1>2, <1>4, <1>5

\* A ring that new events are pushed into is one batch again, of what was in it and of them.
LEMMA PushRing ==
    ASSUME NEW n \in Nat, NEW m \in Nat, n <= m, NEW ep, NEW k \in Nat,
           NEW es, Batch(es, 0, n, ep), NEW ns, Batch(ns, n, m, ep)
    PROVE  /\ Batch(Tailing(es \o ns, k), 0, m, ep)
           /\ Len(Tailing(es \o ns, k)) <= k
           /\ \A e \in Range(Tailing(es \o ns, k)) : e \in Range(es) \/ e \in Range(ns)
<1> DEFINE v == es \o ns
<1>1. es \in Seq(BusEvent) /\ ns \in Seq(BusEvent)
  BY DEF Batch
<1>2. /\ v \in Seq(BusEvent) /\ Len(v) = Len(es) + Len(ns)
      /\ Len(es) \in Nat /\ Len(ns) \in Nat
      /\ \A i \in 1 .. Len(es) : v[i] = es[i]
      /\ \A i \in 1 .. Len(ns) : v[Len(es) + i] = ns[i]
      /\ \A i \in 1 .. Len(es) + Len(ns) :
            \/ i \in 1 .. Len(es)
            \/ \E q \in 1 .. Len(ns) : i = Len(es) + q
  BY <1>1, Joined
<1>3. \A e : e \in Range(v) <=> e \in Range(es) \/ e \in Range(ns)
  BY <1>1, RangeOfJoined
<1> HIDE DEF v
<1>4. Batch(v, 0, m, ep)
  <2>1. \A i \in 1 .. Len(es) : /\ v[i] = es[i] /\ es[i].epoch = ep /\ es[i].seq \in Nat
                                /\ 0 < es[i].seq /\ es[i].seq <= n
    BY <1>2 DEF Batch
  <2>2. \A i \in 1 .. Len(ns) : /\ v[Len(es) + i] = ns[i] /\ ns[i].epoch = ep
                                /\ ns[i].seq \in Nat /\ n < ns[i].seq /\ ns[i].seq <= m
    BY <1>2 DEF Batch
  <2>3. \A i \in 1 .. Len(v) : v[i].epoch = ep /\ v[i].seq \in Nat
                               /\ 0 < v[i].seq /\ v[i].seq <= m
    <3> SUFFICES ASSUME NEW i \in 1 .. Len(v)
                 PROVE  v[i].epoch = ep /\ v[i].seq \in Nat /\ 0 < v[i].seq /\ v[i].seq <= m
      OBVIOUS
    <3>1. CASE i \in 1 .. Len(es)
      BY <3>1, <2>1
    <3>2. CASE \E q \in 1 .. Len(ns) : i = Len(es) + q
      <4>1. PICK q \in 1 .. Len(ns) : i = Len(es) + q
        BY <3>2
      <4>2. v[i] = ns[q] /\ ns[q].epoch = ep /\ ns[q].seq \in Nat /\ n < ns[q].seq /\ ns[q].seq <= m
        BY <4>1, <2>2
      <4> QED
        BY <4>2
    <3> QED
      BY <1>2, <3>1, <3>2
  <2>4. \A i, j \in 1 .. Len(v) : i < j => v[i].seq < v[j].seq
    <3> SUFFICES ASSUME NEW i \in 1 .. Len(v), NEW j \in 1 .. Len(v), i < j
                 PROVE  v[i].seq < v[j].seq
      OBVIOUS
    <3>1. CASE j \in 1 .. Len(es)
      <4>1. i \in 1 .. Len(es)
        BY <3>1, <1>2
      <4> QED
        BY <3>1, <4>1, <2>1 DEF Batch
    <3>2. CASE i \in 1 .. Len(es) /\ j \notin 1 .. Len(es)
      <4>1. PICK q \in 1 .. Len(ns) : j = Len(es) + q
        BY <1>2, <3>2
      <4>2. v[i] = es[i] /\ es[i].seq <= n /\ v[j] = ns[q] /\ n < ns[q].seq
        BY <3>2, <4>1, <2>1, <2>2
      <4>3. es[i].seq \in Nat /\ ns[q].seq \in Nat
        BY <3>2, <2>1, <2>2
      <4> QED
        BY <4>2, <4>3
    <3>3. CASE i \notin 1 .. Len(es)
      <4>1. PICK o \in 1 .. Len(ns) : i = Len(es) + o
        BY <1>2, <3>3
      <4>2. j \notin 1 .. Len(es)
        BY <1>2, <3>3
      <4>3. PICK q \in 1 .. Len(ns) : j = Len(es) + q
        BY <1>2, <4>2
      <4>4. o < q
        BY <1>2, <4>1, <4>3
      <4> QED
        BY <4>1, <4>3, <4>4, <2>2 DEF Batch
    <3> QED
      BY <3>1, <3>2, <3>3
  <2> QED
    BY <1>2, <2>3, <2>4 DEF Batch
<1>5. PICK t : /\ t = Tailing(v, k) /\ t \in Seq(BusEvent) /\ Len(t) <= k
               /\ \E d \in Nat : IsEndOf(t, v, d)
  <2>1. v \in Seq(BusEvent)
    BY <1>2
  <2> QED
    BY <2>1, TailingIs
<1>6. PICK d \in Nat : Len(t) + d = Len(v) /\ \A i \in 1 .. Len(t) : t[i] = v[i + d]
  BY <1>5 DEF IsEndOf
<1>7. \A i \in 1 .. Len(t) : i + d \in 1 .. Len(v) /\ t[i] = v[i + d]
  <2>1. Len(t) \in Nat /\ Len(v) \in Nat
    BY <1>5, <1>2
  <2> QED
    BY <1>6, <2>1
<1>8. Batch(t, 0, m, ep)
  <2>1. \A i, j \in 1 .. Len(t) : i < j => t[i].seq < t[j].seq
    <3> SUFFICES ASSUME NEW i \in 1 .. Len(t), NEW j \in 1 .. Len(t), i < j
                 PROVE  t[i].seq < t[j].seq
      OBVIOUS
    <3>1. i + d < j + d
      BY <1>6
    <3> QED
      BY <3>1, <1>4, <1>7 DEF Batch
  <2>2. \A i \in 1 .. Len(t) : t[i].epoch = ep /\ t[i].seq \in Nat
                               /\ 0 < t[i].seq /\ t[i].seq <= m
    BY <1>4, <1>7 DEF Batch
  <2> QED
    BY <1>5, <2>1, <2>2 DEF Batch
<1>9. \A e \in Range(t) : e \in Range(v)
  <2>1. \A e : e \in Range(t) <=> \E i \in 1 .. Len(t) : t[i] = e
    BY <1>5, RangeIs
  <2>2. \A e : e \in Range(v) <=> \E i \in 1 .. Len(v) : v[i] = e
    BY <1>2, RangeIs
  <2> QED
    BY <1>7, <2>1, <2>2
<1> QED
  BY <1>3, <1>5, <1>8, <1>9 DEF v

-----------------------------------------------------------------------------
\* What a client has read of a stream and what is on its way, in the order of its reading.
Full(s) == s.got \o s.wire

\* Of two frames in a row the second has the greater number, if both are of one process.
Linked(fs) ==
    \A i \in 1 .. Len(fs) - 1 :
        (fs[i] # Bootstrap /\ fs[i + 1] # Bootstrap /\ fs[i].epoch = fs[i + 1].epoch)
        => fs[i].seq < fs[i + 1].seq

\* Nothing comes from a process that is yet to boot, or with a number yet to be given out.
Known(fs, n, ep) ==
    \A i \in 1 .. Len(fs) :
        fs[i] # Bootstrap => fs[i].epoch <= ep /\ (fs[i].epoch = ep => fs[i].seq <= n)

\* Behind the first g - 1 frames: whatever the ring holds that is not newer than a frame of
\* this process has come before it.
Covered(fs, g, es, ep) ==
    \A k \in 1 .. Len(fs) :
        (g <= k /\ fs[k] # Bootstrap /\ fs[k].epoch = ep) =>
            \A e \in Range(es) : e.seq <= fs[k].seq => \E j \in 1 .. k : fs[j] = e

\* A subscribed response is on a connection; without one nothing is on its way to a client
\* that has not lost its connection, nor to one that has none.
Placed(s) ==
    /\ s.sub => s.up
    /\ s.up /\ ~s.sub => s.wire = <<>>
    /\ s.phase \in {"unopened", "waiting", "closed"} => ~s.up /\ s.wire = <<>>

\* A stream s in view of the ring es of its scope, the counter n and the process ep.
Sound(s, es, n, ep) ==
    /\ s \in StreamType /\ Placed(s)
    /\ s.lastId = IF Len(s.got) = 0 THEN NoId ELSE s.got[Len(s.got)]
    /\ Linked(Full(s)) /\ Known(Full(s), n, ep)
    /\ ~s.stale => Covered(Full(s), Len(s.got), es, ep)
    /\ s.sub /\ ~s.stale => \A e \in Range(es) : e \in Range(Full(s))

\* The entries of v are those of p and then those of q.
Joins(v, p, q) ==
    /\ Len(v) = Len(p) + Len(q)
    /\ \A i \in 1 .. Len(p) : v[i] = p[i]
    /\ \A i \in 1 .. Len(q) : v[Len(p) + i] = q[i]
    /\ \A i \in 1 .. Len(v) :
          \/ i \in 1 .. Len(p)
          \/ \E k \in 1 .. Len(q) : i = Len(p) + k

LEMMA JoinsIs ==
    ASSUME NEW S, NEW p \in Seq(S), NEW q \in Seq(S)
    PROVE  p \o q \in Seq(S) /\ Joins(p \o q, p, q)
<1>1. PICK v : v = p \o q
  OBVIOUS
<1>2. v \in Seq(S) /\ Len(v) = Len(p) + Len(q)
  BY <1>1, Joined
<1>3. \A i \in 1 .. Len(p) : v[i] = p[i]
  BY <1>1, Joined
<1>4. \A i \in 1 .. Len(q) : v[Len(p) + i] = q[i]
  BY <1>1, Joined
<1>5. \A i \in 1 .. Len(p) + Len(q) :
         \/ i \in 1 .. Len(p)
         \/ \E k \in 1 .. Len(q) : i = Len(p) + k
  BY Joined
<1>6. Joins(v, p, q)
  BY <1>2, <1>3, <1>4, <1>5, Zenon DEF Joins
<1> QED
  BY <1>1, <1>2, <1>6

LEMMA FullIs ==
    ASSUME NEW s \in StreamType
    PROVE  /\ s.got \in Seq(Frame) /\ s.wire \in Seq(Frame) /\ Full(s) \in Seq(Frame)
           /\ Len(s.got) \in Nat /\ Len(s.wire) \in Nat /\ Len(Full(s)) \in Nat
           /\ Len(Full(s)) = Len(s.got) + Len(s.wire)
           /\ Joins(Full(s), s.got, s.wire)
<1>1. s.got \in Seq(Frame) /\ s.wire \in Seq(Frame)
  BY DEF StreamType
<1>2. Full(s) \in Seq(Frame) /\ Joins(Full(s), s.got, s.wire)
  BY <1>1, JoinsIs, Zenon DEF Full
<1>3. Len(s.got) \in Nat /\ Len(s.wire) \in Nat /\ Len(Full(s)) \in Nat
  BY <1>1, <1>2
<1>4. Len(Full(s)) = Len(s.got) + Len(s.wire)
  BY <1>2 DEF Joins
<1> QED
  BY <1>1, <1>2, <1>3, <1>4

\* A frame that is not the bootstrap frame is an event.
LEMMA FrameIs ==
    ASSUME NEW f \in Frame, f # Bootstrap
    PROVE  /\ f \in BusEvent /\ f.seq \in Nat /\ f.epoch \in Nat
           /\ f # NoId /\ EventSeq(f) = f.seq
<1>1. f \in BusEvent /\ f.seq \in Nat /\ f.epoch \in Nat
  BY DEF Frame, BusEvent
<1>2. f # NoId
  BY <1>1, EventStreamAssumption DEF EventStreamAssumption
<1> QED
  BY <1>1, <1>2 DEF EventSeq

\* What a step leaves of a stream stays sound: all steps of a client but reading, all steps
\* of the network, and the end of a connection.
LEMMA CutKeeps ==
    ASSUME NEW es, NEW n \in Nat, NEW ep \in Nat, NEW s, Sound(s, es, n, ep),
           NEW s2 \in StreamType, Placed(s2), s2.got = s.got, s2.lastId = s.lastId,
           s2.stale = s.stale, NEW k \in 0 .. Len(s.wire), s2.wire = SubSeq(s.wire, 1, k),
           s2.sub => s.sub /\ k = Len(s.wire)
    PROVE  Sound(s2, es, n, ep)
<1>1. PICK fs, gs, a, b :
         /\ fs = Full(s) /\ gs = Full(s2) /\ a = Len(s.got) /\ b = Len(s.wire)
  OBVIOUS
<1>2. /\ s \in StreamType
      /\ fs \in Seq(Frame) /\ gs \in Seq(Frame) /\ a \in Nat /\ b \in Nat
      /\ Len(fs) \in Nat /\ Len(fs) = a + b
      /\ Len(gs) \in Nat /\ Len(gs) = a + Len(s2.wire)
      /\ Joins(fs, s.got, s.wire) /\ Joins(gs, s.got, s2.wire)
  <2>1. s \in StreamType
    BY DEF Sound
  <2> QED
    BY <1>1, <2>1, FullIs
<1>3. Len(s2.wire) = k /\ \A i \in 1 .. k : s2.wire[i] = s.wire[i]
  <2>1. s.wire \in Seq(Frame)
    BY DEF Sound, StreamType
  <2> QED
    BY <2>1, <1>1, <1>2
<1>4. /\ k \in Nat /\ k <= b /\ Len(gs) = a + k /\ Len(gs) <= Len(fs) /\ a <= Len(gs)
      /\ \A i \in 1 .. Len(gs) : i \in 1 .. Len(fs)
  <2>1. k \in 0 .. b /\ Len(gs) = a + k
    BY <1>1, <1>2, <1>3
  <2> QED
    BY <2>1, <1>2
<1>5. \A i \in 1 .. Len(gs) : gs[i] = fs[i]
  <2> SUFFICES ASSUME NEW i \in 1 .. Len(gs) PROVE gs[i] = fs[i]
    OBVIOUS
  <2>1. CASE i \in 1 .. Len(s.got)
    BY <1>2, <2>1 DEF Joins
  <2>2. CASE \E q \in 1 .. Len(s2.wire) : i = Len(s.got) + q
    <3>1. PICK q \in 1 .. k : i = Len(s.got) + q
      BY <1>3, <2>2
    <3>2. q \in 1 .. Len(s.wire) /\ q \in 1 .. Len(s2.wire)
      BY <1>1, <1>3, <1>4
    <3>3. gs[i] = s2.wire[q] /\ fs[i] = s.wire[q]
      BY <1>2, <3>1, <3>2 DEF Joins
    <3> QED
      BY <1>3, <3>3
  <2> QED
    BY <1>2, <2>1, <2>2 DEF Joins
<1>6. /\ Linked(fs) /\ Known(fs, n, ep)
      /\ ~s.stale => Covered(fs, Len(s.got), es, ep)
      /\ s.sub /\ ~s.stale => \A e \in Range(es) : e \in Range(fs)
  BY <1>1 DEF Sound
<1>7. Linked(gs)
  <2> SUFFICES ASSUME NEW i \in 1 .. Len(gs) - 1, gs[i] # Bootstrap, gs[i + 1] # Bootstrap,
                      gs[i].epoch = gs[i + 1].epoch
               PROVE  gs[i].seq < gs[i + 1].seq
    BY DEF Linked
  <2>1. i \in 1 .. Len(gs) /\ i + 1 \in 1 .. Len(gs) /\ i \in 1 .. Len(fs) - 1
    <3>1. Len(fs) \in Nat /\ Len(gs) \in Nat /\ Len(gs) <= Len(fs)
      BY <1>2, <1>4
    <3> QED
      BY <3>1
  <2>2. gs[i] = fs[i] /\ gs[i + 1] = fs[i + 1]
    BY <1>5, <2>1
  <2> QED
    BY <1>6, <2>1, <2>2 DEF Linked
<1>8. Known(gs, n, ep)
  BY <1>4, <1>5, <1>6 DEF Known
<1>9. ~s.stale => Covered(gs, Len(s.got), es, ep)
  <2> SUFFICES ASSUME ~s.stale, NEW i \in 1 .. Len(gs), Len(s.got) <= i, gs[i] # Bootstrap,
                      gs[i].epoch = ep, NEW e \in Range(es), e.seq <= gs[i].seq
               PROVE  \E j \in 1 .. i : gs[j] = e
    BY DEF Covered
  <2>1. i \in 1 .. Len(fs) /\ gs[i] = fs[i]
    BY <1>4, <1>5
  <2>2. PICK j \in 1 .. i : fs[j] = e
    BY <2>1, <1>6 DEF Covered
  <2>3. j \in 1 .. Len(gs)
    BY <1>2
  <2> QED
    BY <2>2, <2>3, <1>5
<1>10. s2.sub /\ ~s.stale => \A e \in Range(es) : e \in Range(gs)
  <2> SUFFICES ASSUME s2.sub, ~s.stale, NEW e \in Range(es) PROVE e \in Range(gs)
    OBVIOUS
  <2>1. Len(gs) = Len(fs) /\ s.sub
    BY <1>1, <1>2, <1>4
  <2>2. e \in Range(fs) /\ fs \in Seq(Frame)
    BY <1>2, <1>6, <2>1
  <2>3. PICK i \in 1 .. Len(fs) : fs[i] = e
    BY <2>2, RangeIs
  <2> QED
    BY <1>2, <1>5, <2>1, <2>3, RangeIs
<1> QED
  BY <1>1, <1>7, <1>8, <1>9, <1>10 DEF Sound

\* A new process has empty rings and gives out all numbers again.
LEMMA RebootKeeps ==
    ASSUME NEW es, NEW n \in Nat, NEW ep \in Nat, NEW s, Sound(s, es, n, ep),
           NEW s2, s2 = [s EXCEPT !.up = FALSE, !.sub = FALSE]
    PROVE  Sound(s2, <<>>, 0, ep + 1)
<1>1. s \in StreamType /\ s2 \in StreamType
  BY DEF Sound, StreamType
<1>2. /\ s2.got = s.got /\ s2.wire = s.wire /\ s2.lastId = s.lastId /\ s2.stale = s.stale
      /\ s2.phase = s.phase /\ ~s2.up /\ ~s2.sub /\ Full(s2) = Full(s)
  BY <1>1 DEF StreamType, Full
<1>3. PICK fs : /\ fs = Full(s) /\ fs \in Seq(Frame)
                /\ Linked(fs) /\ Known(fs, n, ep) /\ Len(fs) \in Nat
  <2>1. Full(s) \in Seq(Frame)
    BY <1>1, FullIs
  <2>2. Linked(Full(s)) /\ Known(Full(s), n, ep) /\ Len(Full(s)) \in Nat
    BY <2>1 DEF Sound
  <2> QED
    BY <2>1, <2>2
<1>4. Known(fs, 0, ep + 1)
  <2> SUFFICES ASSUME NEW i \in 1 .. Len(fs), fs[i] # Bootstrap
               PROVE  fs[i].epoch <= ep + 1 /\ fs[i].epoch # ep + 1
    BY DEF Known
  <2>1. fs[i] \in Frame
    BY <1>3
  <2>2. fs[i].epoch \in Nat /\ fs[i].epoch <= ep
    BY <1>3, <2>1, FrameIs DEF Known
  <2> QED
    BY <2>2
<1>5. Covered(fs, Len(s.got), <<>>, ep + 1)
  <2>1. Range(<<>>) = {}
    BY DEF Range
  <2> QED
    BY <2>1 DEF Covered
<1>6. Placed(s2)
  BY <1>2 DEF Sound, Placed
<1> QED
  BY <1>1, <1>2, <1>3, <1>4, <1>5, <1>6 DEF Sound

\* Reading moves a frame from what is on its way to what was read.
LEMMA ReadKeeps ==
    ASSUME NEW es, NEW n \in Nat, NEW ep \in Nat, NEW s, Sound(s, es, n, ep),
           s.phase = "open", s.wire # <<>>,
           NEW s2, s2 = [s EXCEPT !.wire = Tail(s.wire), !.lastId = Head(s.wire),
                                  !.got = Append(s.got, Head(s.wire))]
    PROVE  Sound(s2, es, n, ep)
<1>1. PICK f, t, fs, gs, a, b :
         /\ f = Head(s.wire) /\ t = Tail(s.wire)
         /\ fs = Full(s) /\ gs = Full(s2) /\ a = Len(s.got) /\ b = Len(s.wire)
  OBVIOUS
<1>2. /\ s \in StreamType /\ s.got \in Seq(Frame) /\ s.wire \in Seq(Frame)
      /\ fs \in Seq(Frame) /\ a \in Nat /\ b \in Nat /\ Len(fs) \in Nat /\ Len(fs) = a + b
      /\ Joins(fs, s.got, s.wire)
  <2>1. s \in StreamType
    BY DEF Sound
  <2> QED
    BY <1>1, <2>1, FullIs
<1>3. /\ f \in Frame /\ f = s.wire[1] /\ b > 0 /\ t \in Seq(Frame) /\ Len(t) = b - 1
      /\ \A i \in 1 .. b - 1 : t[i] = s.wire[i + 1]
  BY <1>1, <1>2
<1>4. PICK g : g = Append(s.got, f)
  OBVIOUS
<1>5. /\ g \in Seq(Frame) /\ Len(g) = a + 1 /\ g[a + 1] = f
      /\ \A i \in 1 .. a : g[i] = s.got[i]
  BY <1>1, <1>2, <1>3, <1>4
<1>6. s2 \in StreamType /\ s2.wire = t /\ s2.lastId = f /\ s2.got = g /\ s2.phase = s.phase
      /\ s2.stale = s.stale /\ s2.sub = s.sub /\ s2.up = s.up
  BY <1>1, <1>2, <1>3, <1>4, <1>5 DEF StreamType
<1>7. /\ gs \in Seq(Frame) /\ Len(gs) \in Nat /\ Len(gs) = a + 1 + (b - 1)
      /\ Joins(gs, g, t)
  <2>1. /\ gs \in Seq(Frame) /\ Len(gs) \in Nat /\ Len(gs) = Len(s2.got) + Len(s2.wire)
        /\ Joins(gs, s2.got, s2.wire)
    BY <1>1, <1>6, FullIs
  <2> QED
    BY <1>3, <1>5, <1>6, <2>1
<1>8. Len(gs) = Len(fs) /\ \A i \in 1 .. Len(fs) : gs[i] = fs[i]
  <2>1. Len(gs) = Len(fs)
    BY <1>2, <1>7
  <2> SUFFICES ASSUME NEW i \in 1 .. Len(fs) PROVE gs[i] = fs[i]
    BY <2>1
  <2>2. CASE i \in 1 .. a
    <3>1. i \in 1 .. Len(g) /\ i \in 1 .. Len(s.got)
      BY <1>1, <1>2, <1>5, <2>2
    <3>2. gs[i] = g[i] /\ fs[i] = s.got[i]
      BY <1>2, <1>7, <3>1 DEF Joins
    <3> QED
      BY <1>5, <2>2, <3>2
  <2>3. CASE i = a + 1
    <3>1. i \in 1 .. Len(g) /\ 1 \in 1 .. Len(s.wire) /\ i = Len(s.got) + 1
      BY <1>1, <1>2, <1>3, <1>5, <2>3
    <3>2. gs[i] = g[i] /\ fs[i] = s.wire[1]
      BY <1>2, <1>7, <3>1 DEF Joins
    <3> QED
      BY <1>3, <1>5, <2>3, <3>2
  <2>4. CASE i \notin 1 .. a + 1
    <3>1. PICK q \in Nat : i = a + 1 + q /\ q \in 1 .. b - 1
      <4>1. i - a - 1 \in 1 .. b - 1 /\ i = a + 1 + (i - a - 1)
        BY <1>2, <2>4
      <4> QED
        BY <4>1
    <3>2. q \in 1 .. Len(t) /\ q + 1 \in 1 .. Len(s.wire)
      BY <1>1, <1>2, <1>3, <3>1
    <3>3. gs[Len(g) + q] = t[q] /\ fs[Len(s.got) + (q + 1)] = s.wire[q + 1]
      BY <1>2, <1>7, <3>2 DEF Joins
    <3>4. a + 1 + q = a + (q + 1)
      <4>1. a \in Nat /\ q \in Nat
        BY <1>2
      <4> QED
        BY <4>1
    <3>5. gs[i] = t[q]
      BY <1>5, <3>1, <3>3
    <3>6. fs[i] = s.wire[q + 1]
      BY <1>1, <3>1, <3>3, <3>4
    <3>7. t[q] = s.wire[q + 1]
      BY <1>3, <3>1
    <3> QED
      BY <3>5, <3>6, <3>7
  <2> QED
    BY <1>2, <2>2, <2>3, <2>4
<1>9. gs = fs
  <2>1. gs \in Seq(Frame) /\ fs \in Seq(Frame) /\ Len(gs) = Len(fs)
    BY <1>2, <1>7, <1>8
  <2>2. \A i \in 1 .. Len(gs) : gs[i] = fs[i]
    BY <1>8
  <2> QED
    BY <2>1, <2>2, SameSeq
<1>10. Placed(s2)
  BY <1>6, <1>2 DEF Sound, Placed
<1>11. s2.lastId = IF Len(s2.got) = 0 THEN NoId ELSE s2.got[Len(s2.got)]
  BY <1>2, <1>5, <1>6
<1>12. ~s2.stale => Covered(gs, Len(s2.got), es, ep)
  <2>1. ~s2.stale => Covered(fs, a, es, ep)
    BY <1>1, <1>6 DEF Sound
  <2>2. \A i \in 1 .. Len(fs) : Len(s2.got) <= i => a <= i
    BY <1>2, <1>5, <1>6
  <2> QED
    BY <1>9, <2>1, <2>2 DEF Covered
<1>13. s2.sub /\ ~s2.stale => \A e \in Range(es) : e \in Range(gs)
  BY <1>1, <1>6, <1>9 DEF Sound
<1>14. Linked(gs) /\ Known(gs, n, ep)
  BY <1>1, <1>9 DEF Sound
<1> QED
  BY <1>1, <1>6, <1>10, <1>11, <1>12, <1>13, <1>14 DEF Sound

\* The replay that the route writes begins behind what the client has read last, and brings
\* what it has not read.
LEMMA ServeKeeps ==
    ASSUME NEW es, NEW n \in Nat, NEW ep \in Nat, Batch(es, 0, n, ep),
           NEW s, Sound(s, es, n, ep), s.phase = "fetching", s.up, ~s.sub,
           NEW rp, Batch(rp, 0, n, ep),
           \A e : e \in Range(rp) <=>
                     e \in Range(es) /\ (s.lastId = NoId \/ e.seq > EventSeq(s.lastId)),
           NEW old \in BOOLEAN,
           old <=> s.lastId \notin {NoId, Bootstrap} /\ (s.stale \/ s.lastId.epoch < ep),
           NEW s2, s2 = [s EXCEPT !.wire = Append(rp, Bootstrap), !.sub = TRUE, !.stale = old]
    PROVE  Sound(s2, es, n, ep)
<1>1. PICK w, gs, fs, a, b : /\ w = Append(rp, Bootstrap) /\ gs = Full(s2) /\ fs = Full(s)
                             /\ a = Len(s.got) /\ b = Len(rp)
  OBVIOUS
<1>2. /\ s \in StreamType /\ s.got \in Seq(Frame) /\ a \in Nat /\ fs \in Seq(Frame)
      /\ Joins(fs, s.got, s.wire)
  <2>1. s \in StreamType
    BY DEF Sound
  <2> QED
    BY <1>1, <2>1, FullIs
<1>3. /\ rp \in Seq(Frame) /\ b \in Nat /\ w \in Seq(Frame) /\ Len(w) = b + 1
      /\ w[b + 1] = Bootstrap /\ \A i \in 1 .. b : w[i] = rp[i]
  <2>1. rp \in Seq(BusEvent)
    BY DEF Batch
  <2>2. rp \in Seq(Frame) /\ Bootstrap \in Frame
    BY <2>1 DEF Frame
  <2> QED
    BY <1>1, <2>2
<1>4. /\ s2 \in StreamType /\ s2.got = s.got /\ s2.wire = w /\ s2.lastId = s.lastId
      /\ s2.stale = old /\ s2.sub /\ s2.up /\ s2.phase = "fetching"
  BY <1>1, <1>2, <1>3 DEF StreamType
<1>5. gs \in Seq(Frame) /\ Len(gs) = a + (b + 1) /\ Joins(gs, s.got, w)
  <2>1. /\ gs \in Seq(Frame) /\ Len(gs) = Len(s2.got) + Len(s2.wire)
        /\ Joins(gs, s2.got, s2.wire)
    BY <1>1, <1>4, FullIs
  <2> QED
    BY <1>1, <1>3, <1>4, <2>1
<1>6. /\ \A i \in 1 .. a : gs[i] = s.got[i] /\ fs[i] = s.got[i]
      /\ \A i \in 1 .. b : gs[a + i] = rp[i]
      /\ gs[a + (b + 1)] = Bootstrap
      /\ \A i \in 1 .. a + (b + 1) :
            i \in 1 .. a \/ (\E k \in 1 .. b : i = a + k) \/ i = a + (b + 1)
  <2>1. \A i \in 1 .. a : gs[i] = s.got[i] /\ fs[i] = s.got[i]
    BY <1>1, <1>2, <1>5 DEF Joins
  <2>2. \A i \in 1 .. b + 1 : gs[a + i] = w[i]
    BY <1>1, <1>3, <1>5 DEF Joins
  <2>3. \A i \in 1 .. b : i \in 1 .. b + 1 /\ w[i] = rp[i]
    BY <1>3
  <2>4. b + 1 \in 1 .. b + 1 /\ w[b + 1] = Bootstrap
    BY <1>3
  <2>5. ASSUME NEW i \in 1 .. a + (b + 1)
        PROVE  i \in 1 .. a \/ (\E k \in 1 .. b : i = a + k) \/ i = a + (b + 1)
    <3>1. CASE i \in 1 .. a
      BY <3>1
    <3>2. CASE i = a + (b + 1)
      BY <3>2
    <3>3. CASE i \notin 1 .. a /\ i # a + (b + 1)
      <4>1. i - a \in 1 .. b /\ i = a + (i - a)
        BY <1>2, <1>3, <3>3
      <4> QED
        BY <4>1
    <3> QED
      BY <3>1, <3>2, <3>3
  <2> QED
    BY <2>1, <2>2, <2>3, <2>4, <2>5
<1>7. /\ Linked(fs) /\ Known(fs, n, ep) /\ Len(fs) = a
      /\ ~s.stale => Covered(fs, a, es, ep)
      /\ s.lastId = IF a = 0 THEN NoId ELSE s.got[a]
  <2>1. s.wire = <<>>
    BY DEF Sound, Placed
  <2>2. Len(fs) = a
    BY <1>1, <1>2, <2>1 DEF Joins
  <2> QED
    BY <1>1, <2>2 DEF Sound
<1>8. \A i \in 1 .. b : /\ rp[i] \in Range(rp) /\ rp[i].epoch = ep /\ rp[i].seq \in Nat
                        /\ 0 < rp[i].seq /\ rp[i].seq <= n /\ rp[i] # Bootstrap
  <2>1. rp \in Seq(BusEvent)
    BY DEF Batch
  <2>2. \A i \in 1 .. b : rp[i] \in BusEvent /\ rp[i] \in Range(rp)
    BY <1>1, <2>1 DEF Range
  <2> QED
    BY <1>1, <2>2, EventStreamAssumption DEF Batch, EventStreamAssumption
\* The last frame that was read, if it is an event.
<1>9. s.lastId \notin {NoId, Bootstrap} =>
         /\ a \in 1 .. a /\ s.lastId = fs[a] /\ fs[a] # Bootstrap
         /\ s.lastId.seq \in Nat /\ s.lastId.epoch \in Nat /\ s.lastId.epoch <= ep
         /\ EventSeq(s.lastId) = s.lastId.seq
  <2> SUFFICES ASSUME s.lastId \notin {NoId, Bootstrap}
               PROVE  /\ a \in 1 .. a /\ s.lastId = fs[a] /\ fs[a] # Bootstrap
                      /\ s.lastId.seq \in Nat /\ s.lastId.epoch \in Nat /\ s.lastId.epoch <= ep
                      /\ EventSeq(s.lastId) = s.lastId.seq
    OBVIOUS
  <2>1. a # 0 /\ a \in 1 .. a /\ s.lastId = fs[a]
    BY <1>2, <1>6, <1>7
  <2>2. fs[a] \in Frame /\ a \in 1 .. Len(fs)
    BY <1>2, <1>7, <2>1
  <2>3. /\ s.lastId.seq \in Nat /\ s.lastId.epoch \in Nat
        /\ EventSeq(s.lastId) = s.lastId.seq
    BY <2>1, <2>2, FrameIs
  <2> QED
    BY <1>7, <2>1, <2>2, <2>3 DEF Known
<1>10. Linked(gs)
  <2> SUFFICES ASSUME NEW i \in 1 .. Len(gs) - 1, gs[i] # Bootstrap, gs[i + 1] # Bootstrap,
                      gs[i].epoch = gs[i + 1].epoch
               PROVE  gs[i].seq < gs[i + 1].seq
    BY DEF Linked
  <2>1. i \in 1 .. a + b
    BY <1>2, <1>3, <1>5
  <2>2. CASE i \in 1 .. a - 1
    <3>1. i \in 1 .. a /\ i + 1 \in 1 .. a /\ i \in 1 .. Len(fs) - 1
      BY <1>2, <1>7, <2>2
    <3>2. gs[i] = fs[i] /\ gs[i + 1] = fs[i + 1]
      BY <1>6, <3>1
    <3> QED
      BY <1>7, <3>1, <3>2 DEF Linked
  <2>3. CASE i = a
    <3>1. b # 0
      BY <1>6, <2>3, <1>3
    <3>2. 1 \in 1 .. b /\ i \in 1 .. a
      BY <1>3, <2>3, <3>1
    <3>3. gs[i + 1] = rp[1] /\ gs[i] = s.got[a] /\ s.got[a] = s.lastId
      BY <1>6, <1>7, <2>3, <3>2
    <3>4. s.lastId # NoId
      <4>1. s.got[a] \in Frame
        BY <1>1, <1>2, <2>3, <3>2
      <4> QED
        BY <3>3, <4>1, FrameIs
    <3>5. rp[1].seq > EventSeq(s.lastId)
      BY <1>8, <3>2, <3>4
    <3>6. EventSeq(s.lastId) = s.lastId.seq /\ s.lastId.seq \in Nat
      BY <1>9, <3>3, <3>4
    <3>7. rp[1].seq \in Nat
      BY <1>8, <3>2
    <3> QED
      BY <3>3, <3>5, <3>6, <3>7
  <2>4. CASE i \notin 1 .. a
    <3>1. PICK k \in 1 .. b : i = a + k
      <4>1. i - a \in 1 .. b /\ i = a + (i - a)
        BY <1>2, <1>3, <2>1, <2>4
      <4> QED
        BY <4>1
    <3>2. k # b
      <4>1. k = b => i + 1 = a + (b + 1)
        BY <1>2, <1>3, <3>1
      <4>2. gs[i + 1] # Bootstrap /\ gs[a + (b + 1)] = Bootstrap
        BY <1>6
      <4> QED
        BY <4>1, <4>2
    <3>3. k + 1 \in 1 .. b /\ i + 1 = a + (k + 1) /\ k < k + 1
      BY <1>2, <1>3, <3>1, <3>2
    <3>4. gs[i] = rp[k] /\ gs[i + 1] = rp[k + 1]
      BY <1>6, <3>1, <3>3
    <3> QED
      BY <1>1, <3>3, <3>4 DEF Batch
  <2> QED
    BY <1>2, <2>1, <2>2, <2>3, <2>4
<1>11. Known(gs, n, ep)
  <2> SUFFICES ASSUME NEW i \in 1 .. Len(gs), gs[i] # Bootstrap
               PROVE  gs[i].epoch <= ep /\ (gs[i].epoch = ep => gs[i].seq <= n)
    BY DEF Known
  <2>1. CASE i \in 1 .. a
    <3>1. i \in 1 .. Len(fs) /\ gs[i] = fs[i]
      BY <1>6, <1>7, <2>1
    <3> QED
      BY <1>7, <3>1 DEF Known
  <2>2. CASE \E k \in 1 .. b : i = a + k
    BY <1>6, <1>8, <2>2
  <2>3. CASE i = a + (b + 1)
    BY <1>6, <2>3
  <2> QED
    BY <1>5, <1>6, <2>1, <2>2, <2>3
\* What the ring holds was read, or is in the replay.
<1>12. ASSUME ~old, NEW e \in Range(es), e \notin Range(rp)
       PROVE  \E j \in 1 .. a : fs[j] = e
  <2>1. s.lastId # NoId /\ ~ e.seq > EventSeq(s.lastId)
    BY <1>12
  <2>2. e.seq \in Nat /\ 0 < e.seq
    <3>1. es \in Seq(BusEvent)
      BY DEF Batch
    <3>2. PICK i \in 1 .. Len(es) : es[i] = e
      BY <1>12, <3>1, RangeIs
    <3> QED
      BY <3>2 DEF Batch
  <2>3. s.lastId # Bootstrap
    BY <2>1, <2>2 DEF EventSeq
  <2>4. ~s.stale /\ ~ s.lastId.epoch < ep
    BY <1>12, <2>1, <2>3
  <2>5. fs[a].epoch = ep /\ e.seq <= fs[a].seq /\ a \in 1 .. Len(fs) /\ a <= a
    BY <1>2, <1>7, <1>9, <2>1, <2>2, <2>3, <2>4
  <2> QED
    BY <1>7, <1>9, <2>1, <2>3, <2>4, <2>5 DEF Covered
<1>13. ~old => Covered(gs, a, es, ep)
  <2> SUFFICES ASSUME ~old, NEW i \in 1 .. Len(gs), a <= i, gs[i] # Bootstrap,
                      gs[i].epoch = ep, NEW e \in Range(es), e.seq <= gs[i].seq
               PROVE  \E j \in 1 .. i : gs[j] = e
    BY DEF Covered
  <2>1. CASE e \notin Range(rp)
    <3>1. PICK j \in 1 .. a : fs[j] = e
      BY <1>12, <2>1
    <3>2. j \in 1 .. i /\ gs[j] = e
      BY <1>2, <1>5, <1>6, <3>1
    <3> QED
      BY <3>2
  <2>2. CASE e \in Range(rp)
    <3>1. PICK q \in 1 .. b : rp[q] = e
      BY <1>1, <1>3, <2>2, RangeIs
    <3>2. CASE \E k \in 1 .. b : i = a + k
      <4>1. PICK k \in 1 .. b : i = a + k
        BY <3>2
      <4>2. gs[i] = rp[k] /\ gs[a + q] = e
        BY <1>6, <3>1, <4>1
      <4>3. ~ k < q
        <5>1. k < q => rp[k].seq < rp[q].seq
          BY <1>1, <3>1, <4>1 DEF Batch
        <5>2. rp[k].seq \in Nat /\ rp[q].seq \in Nat /\ rp[q].seq <= rp[k].seq
          BY <1>8, <3>1, <4>1, <4>2
        <5> QED
          BY <5>1, <5>2
      <4>4. a + q \in 1 .. i
        BY <1>2, <1>3, <3>1, <4>1, <4>3
      <4> QED
        BY <4>2, <4>4
    <3>3. CASE i \in 1 .. a
      <4>1. i = a /\ a # 0
        BY <1>2, <3>3
      <4>2. gs[i] = s.lastId /\ s.lastId \in Frame
        <5>1. s.got[a] \in Frame
          BY <1>1, <1>2, <3>3, <4>1
        <5> QED
          BY <1>6, <1>7, <3>3, <4>1, <5>1
      <4>3. s.lastId # NoId /\ EventSeq(s.lastId) = s.lastId.seq /\ s.lastId.seq \in Nat
        BY <4>2, FrameIs
      <4>4. e.seq > s.lastId.seq /\ e.seq <= s.lastId.seq /\ e.seq \in Nat
        BY <2>2, <4>2, <4>3, <3>1, <1>8
      <4> QED
        BY <4>3, <4>4
    <3> QED
      BY <1>5, <1>6, <3>2, <3>3
  <2> QED
    BY <2>1, <2>2
<1>14. ~old => \A e \in Range(es) : e \in Range(gs)
  <2> SUFFICES ASSUME ~old, NEW e \in Range(es) PROVE e \in Range(gs)
    OBVIOUS
  <2>1. CASE e \notin Range(rp)
    <3>1. PICK j \in 1 .. a : fs[j] = e
      BY <1>12, <2>1
    <3>2. j \in 1 .. Len(gs) /\ gs[j] = e
      BY <1>2, <1>3, <1>5, <1>6, <3>1
    <3> QED
      BY <1>5, <3>2, RangeIs
  <2>2. CASE e \in Range(rp)
    <3>1. PICK q \in 1 .. b : rp[q] = e
      BY <1>1, <1>3, <2>2, RangeIs
    <3>2. a + q \in 1 .. Len(gs) /\ gs[a + q] = e
      BY <1>2, <1>3, <1>5, <1>6, <3>1
    <3> QED
      BY <1>5, <3>2, RangeIs
  <2> QED
    BY <2>1, <2>2
<1>15. Placed(s2)
  BY <1>4 DEF Placed
<1>16. s2.lastId = IF Len(s2.got) = 0 THEN NoId ELSE s2.got[Len(s2.got)]
  BY <1>1, <1>4, <1>7
<1> QED
  BY <1>1, <1>4, <1>10, <1>11, <1>13, <1>14, <1>15, <1>16 DEF Sound


-----------------------------------------------------------------------------
LEMMA WrittenIs ==
    ASSUME NEW s \in StreamType, NEW ns \in Seq(Frame)
    PROVE  s.got \o (s.wire \o ns) = (s.got \o s.wire) \o ns
<1>1. PICK g \in Seq(Frame), v \in Seq(Frame) : g = s.got /\ v = s.wire
  BY DEF StreamType
<1>2. (g \o v) \o ns = g \o (v \o ns)
  BY JoinedTwice
<1> QED
  BY <1>1, <1>2

\* What the bus emits goes to a subscribed response, behind what is under way.
LEMMA WriteKeeps ==
    ASSUME NEW n \in Nat, NEW m \in Nat, n <= m, NEW ep \in Nat,
           NEW es, Batch(es, 0, n, ep), NEW ns, Batch(ns, n, m, ep),
           NEW es2, \A e \in Range(es2) : e \in Range(es) \/ e \in Range(ns),
           NEW s, Sound(s, es, n, ep), s.sub,
           NEW s2, s2 = [s EXCEPT !.wire = s.wire \o ns]
    PROVE  Sound(s2, es2, m, ep)
<1>1. PICK fs, gs, w, l, q : /\ fs = Full(s) /\ gs = Full(s2) /\ w = s.wire \o ns
                             /\ l = Len(fs) /\ q = Len(ns)
  OBVIOUS
<1>2. /\ s \in StreamType /\ s.got \in Seq(Frame) /\ s.wire \in Seq(Frame)
      /\ fs \in Seq(Frame) /\ l \in Nat
  <2>1. s \in StreamType
    BY DEF Sound
  <2> QED
    BY <1>1, <2>1, FullIs
<1>3. ns \in Seq(Frame) /\ q \in Nat /\ w \in Seq(Frame)
  <2>1. ns \in Seq(BusEvent)
    BY DEF Batch
  <2>2. ns \in Seq(Frame)
    BY <2>1 DEF Frame
  <2> QED
    BY <1>1, <1>2, <2>2
<1>4. /\ s2 \in StreamType /\ s2.got = s.got /\ s2.wire = w /\ s2.lastId = s.lastId
      /\ s2.stale = s.stale /\ s2.sub /\ s2.up = s.up /\ s2.phase = s.phase
  BY <1>1, <1>2, <1>3 DEF StreamType
<1>5. gs = fs \o ns
  <2>1. gs = s.got \o (s.wire \o ns)
    BY <1>1, <1>4 DEF Full
  <2>2. s.got \o (s.wire \o ns) = (s.got \o s.wire) \o ns
    BY <1>2, <1>3, WrittenIs
  <2>3. fs = s.got \o s.wire
    BY <1>1 DEF Full
  <2> QED
    BY <2>1, <2>2, <2>3
<1>6. gs \in Seq(Frame) /\ Joins(gs, fs, ns)
  BY <1>2, <1>3, <1>5, JoinsIs
<1>7. /\ Len(gs) = l + q
      /\ \A i \in 1 .. l : gs[i] = fs[i]
      /\ \A i \in 1 .. q : gs[l + i] = ns[i]
      /\ \A i \in 1 .. Len(gs) : i \in 1 .. l \/ \E k \in 1 .. q : i = l + k
  BY <1>1, <1>6 DEF Joins
<1>8. /\ Linked(fs) /\ Known(fs, n, ep)
      /\ ~s.stale => Covered(fs, Len(s.got), es, ep)
      /\ ~s.stale => \A e \in Range(es) : e \in Range(fs)
  BY <1>1 DEF Sound
<1>9. /\ \A i \in 1 .. q : /\ ns[i] \in BusEvent /\ ns[i] # Bootstrap /\ ns[i].epoch = ep
                           /\ ns[i].seq \in Nat /\ n < ns[i].seq /\ ns[i].seq <= m
      /\ \A i, j \in 1 .. q : i < j => ns[i].seq < ns[j].seq
  <2>1. \A i \in 1 .. q : ns[i] \in BusEvent
    BY <1>1 DEF Batch
  <2>2. \A i \in 1 .. q : ns[i] # Bootstrap
    BY <2>1, EventStreamAssumption DEF EventStreamAssumption
  <2> QED
    BY <1>1, <2>1, <2>2 DEF Batch
\* An event of this process among the frames so far has a number that was given out.
<1>10. ASSUME NEW i \in 1 .. l, fs[i] # Bootstrap
       PROVE  /\ fs[i].seq \in Nat /\ fs[i].epoch <= ep
              /\ fs[i].epoch = ep => fs[i].seq <= n
  <2>1. i \in 1 .. Len(fs)
    BY <1>1
  <2>2. fs[i] \in Frame
    BY <1>2, <2>1
  <2>3. fs[i].seq \in Nat
    BY <1>10, <2>2, FrameIs
  <2> QED
    BY <1>1, <1>8, <1>10, <2>3 DEF Known
<1>11. Linked(gs)
  <2> SUFFICES ASSUME NEW i \in 1 .. Len(gs) - 1, gs[i] # Bootstrap, gs[i + 1] # Bootstrap,
                      gs[i].epoch = gs[i + 1].epoch
               PROVE  gs[i].seq < gs[i + 1].seq
    BY DEF Linked
  <2>1. l \in Nat /\ q \in Nat
    BY <1>2, <1>3
  <2>2. i \in 1 .. l + q - 1
    <3>1. PICK z : z = Len(gs) /\ z = l + q
      BY <1>7
    <3>2. i \in 1 .. z - 1
      BY <3>1
    <3> QED
      BY <2>1, <3>1, <3>2
  <2>3. CASE i \in 1 .. l - 1
    <3>1. i \in 1 .. l /\ i + 1 \in 1 .. l
      BY <1>2, <2>3
    <3>2. gs[i] = fs[i] /\ gs[i + 1] = fs[i + 1]
      BY <1>7, <3>1
    <3> QED
      BY <1>1, <1>8, <2>3, <3>2 DEF Linked
  <2>4. CASE i = l
    <3>1. 1 \in 1 .. q /\ l \in 1 .. l
      BY <1>2, <1>3, <2>2, <2>4
    <3>2. gs[i] = fs[l] /\ gs[i + 1] = ns[1]
      BY <1>7, <2>4, <3>1
    <3>3. fs[l].epoch = ep /\ fs[l].seq \in Nat /\ fs[l].seq <= n
      BY <1>9, <1>10, <3>1, <3>2
    <3>4. n < ns[1].seq /\ ns[1].seq \in Nat
      BY <1>9, <3>1
    <3> QED
      BY <3>2, <3>3, <3>4
  <2>5. CASE i \notin 1 .. l
    <3>1. PICK k \in 1 .. q : i = l + k
      <4>1. i - l \in 1 .. q /\ i = l + (i - l)
        BY <1>2, <1>3, <2>2, <2>5
      <4> QED
        BY <4>1
    <3>2. k + 1 \in 1 .. q /\ i + 1 = l + (k + 1) /\ k < k + 1
      <4>1. k # q
        BY <2>1, <2>2, <3>1
      <4> QED
        BY <2>1, <3>1, <4>1
    <3>3. gs[i] = ns[k] /\ gs[i + 1] = ns[k + 1]
      BY <1>7, <3>1, <3>2
    <3> QED
      BY <1>9, <3>2, <3>3
  <2> QED
    BY <1>2, <1>3, <2>2, <2>3, <2>4, <2>5
<1>12. Known(gs, m, ep)
  <2> SUFFICES ASSUME NEW i \in 1 .. Len(gs), gs[i] # Bootstrap
               PROVE  gs[i].epoch <= ep /\ (gs[i].epoch = ep => gs[i].seq <= m)
    BY DEF Known
  <2>1. CASE i \in 1 .. l
    <3>1. gs[i] = fs[i] /\ fs[i].seq \in Nat /\ fs[i].epoch <= ep
          /\ (fs[i].epoch = ep => fs[i].seq <= n)
      BY <1>7, <1>10, <2>1
    <3> QED
      BY <3>1
  <2>2. CASE \E k \in 1 .. q : i = l + k
    BY <1>7, <1>9, <2>2
  <2> QED
    BY <1>7, <2>1, <2>2
<1>13. ~s.stale => Covered(gs, Len(s.got), es2, ep)
  <2> SUFFICES ASSUME ~s.stale, NEW i \in 1 .. Len(gs), Len(s.got) <= i, gs[i] # Bootstrap,
                      gs[i].epoch = ep, NEW e \in Range(es2), e.seq <= gs[i].seq
               PROVE  \E j \in 1 .. i : gs[j] = e
    BY DEF Covered
  <2>1. CASE e \in Range(ns)
    <3>1. PICK p \in 1 .. q : ns[p] = e
      BY <1>1, <1>3, <2>1, RangeIs
    <3>2. CASE i \in 1 .. l
      <4>1. gs[i] = fs[i] /\ fs[i].seq \in Nat /\ fs[i].seq <= n
        BY <1>7, <1>10, <3>2
      <4>2. n < e.seq /\ e.seq \in Nat
        BY <1>9, <3>1
      <4> QED
        BY <4>1, <4>2
    <3>3. CASE \E k \in 1 .. q : i = l + k
      <4>1. PICK k \in 1 .. q : i = l + k
        BY <3>3
      <4>2. gs[i] = ns[k] /\ gs[l + p] = e
        BY <1>7, <3>1, <4>1
      <4>3. ~ k < p
        <5>1. k < p => ns[k].seq < ns[p].seq
          BY <1>9
        <5>2. ns[k].seq \in Nat /\ ns[p].seq \in Nat /\ ns[p].seq <= ns[k].seq
          BY <1>9, <3>1, <4>2
        <5> QED
          BY <5>1, <5>2
      <4>4. l + p \in 1 .. i
        <5>1. l \in Nat /\ i = l + k /\ k \in 1 .. q /\ p \in 1 .. q /\ q \in Nat
          BY <1>2, <1>3, <4>1
        <5> QED
          BY <5>1, <4>3
      <4> QED
        BY <4>2, <4>4
    <3> QED
      BY <1>7, <3>2, <3>3
  <2>2. CASE e \in Range(es)
    <3>1. CASE i \in 1 .. l
      <4>1. gs[i] = fs[i] /\ i \in 1 .. Len(fs)
        BY <1>1, <1>7, <3>1
      <4>2. PICK j \in 1 .. i : fs[j] = e
        BY <1>8, <2>2, <4>1 DEF Covered
      <4>3. j \in 1 .. l
        BY <1>2, <3>1
      <4> QED
        BY <1>7, <4>2, <4>3
    <3>2. CASE \E k \in 1 .. q : i = l + k
      <4>1. PICK j \in 1 .. l : fs[j] = e
        BY <1>1, <1>2, <1>8, <2>2, RangeIs
      <4>2. j \in 1 .. i /\ gs[j] = e
        <5>1. l \in Nat /\ q \in Nat
          BY <1>2, <1>3
        <5>2. j \in 1 .. i
          BY <3>2, <5>1
        <5>3. gs[j] = fs[j]
          BY <1>7
        <5> QED
          BY <4>1, <5>2, <5>3
      <4> QED
        BY <4>2
    <3> QED
      BY <1>7, <3>1, <3>2
  <2> QED
    BY <2>1, <2>2
<1>14. ~s.stale => \A e \in Range(es2) : e \in Range(gs)
  <2>1. \A e : e \in Range(gs) <=> e \in Range(fs) \/ e \in Range(ns)
    <3>1. fs \in Seq(Frame) /\ ns \in Seq(Frame)
      BY <1>2, <1>3
    <3>2. \A e : e \in Range(fs \o ns) <=> e \in Range(fs) \/ e \in Range(ns)
      BY <3>1, RangeOfJoined
    <3> QED
      BY <1>5, <3>2
  <2> QED
    BY <1>8, <2>1
<1>15. Placed(s2)
  BY <1>4 DEF Sound, Placed
<1>16. s2.lastId = IF Len(s2.got) = 0 THEN NoId ELSE s2.got[Len(s2.got)]
  BY <1>4 DEF Sound
<1> QED
  BY <1>1, <1>4, <1>11, <1>12, <1>13, <1>14, <1>15, <1>16 DEF Sound

\* The ring goes on without a stream that is not subscribed.
LEMMA MissKeeps ==
    ASSUME NEW n \in Nat, NEW m \in Nat, n <= m, NEW ep \in Nat,
           NEW es, NEW ns, Batch(ns, n, m, ep),
           NEW es2, \A e \in Range(es2) : e \in Range(es) \/ e \in Range(ns),
           NEW s, Sound(s, es, n, ep), ~s.sub
    PROVE  Sound(s, es2, m, ep)
<1>1. PICK fs : fs = Full(s)
  OBVIOUS
<1>2. s \in StreamType /\ fs \in Seq(Frame)
  <2>1. s \in StreamType
    BY DEF Sound
  <2> QED
    BY <1>1, <2>1, FullIs
<1>3. Known(fs, n, ep) /\ (~s.stale => Covered(fs, Len(s.got), es, ep))
  BY <1>1 DEF Sound
<1>4. ASSUME NEW i \in 1 .. Len(fs), fs[i] # Bootstrap
      PROVE  /\ fs[i].seq \in Nat /\ fs[i].epoch <= ep
             /\ fs[i].epoch = ep => fs[i].seq <= n
  <2>1. fs[i] \in Frame
    BY <1>2
  <2>2. fs[i].seq \in Nat
    BY <1>4, <2>1, FrameIs
  <2> QED
    BY <1>3, <1>4, <2>2 DEF Known
<1>5. Known(fs, m, ep)
  BY <1>4 DEF Known
<1>6. ~s.stale => Covered(fs, Len(s.got), es2, ep)
  <2> SUFFICES ASSUME ~s.stale, NEW i \in 1 .. Len(fs), Len(s.got) <= i, fs[i] # Bootstrap,
                      fs[i].epoch = ep, NEW e \in Range(es2), e.seq <= fs[i].seq
               PROVE  \E j \in 1 .. i : fs[j] = e
    BY DEF Covered
  <2>1. fs[i].seq \in Nat /\ fs[i].seq <= n
    BY <1>4
  <2>2. e \in Range(ns) => e.seq \in Nat /\ n < e.seq
    <3> SUFFICES ASSUME e \in Range(ns) PROVE e.seq \in Nat /\ n < e.seq
      OBVIOUS
    <3>1. ns \in Seq(BusEvent)
      BY DEF Batch
    <3>2. PICK p \in 1 .. Len(ns) : ns[p] = e
      BY <3>1, RangeIs
    <3> QED
      BY <3>2 DEF Batch
  <2>3. e \in Range(es)
    BY <2>1, <2>2
  <2> QED
    BY <1>3, <2>3 DEF Covered
<1> QED
  BY <1>1, <1>5, <1>6 DEF Sound

-----------------------------------------------------------------------------
\* A stream whose frames a step leaves alone, and one whose connection is given up.
LEMMA SameKeeps ==
    ASSUME NEW es, NEW n \in Nat, NEW ep \in Nat, NEW s, Sound(s, es, n, ep),
           NEW s2 \in StreamType, Placed(s2), s2.got = s.got, s2.lastId = s.lastId,
           s2.stale = s.stale, s2.wire = s.wire, s2.sub => s.sub
    PROVE  Sound(s2, es, n, ep)
<1>1. s.wire \in Seq(Frame)
  BY DEF Sound, StreamType
<1>2. PICK k : k = Len(s.wire)
  OBVIOUS
<1>3. k \in 0 .. Len(s.wire) /\ SubSeq(s.wire, 1, k) = s.wire
  BY <1>1, <1>2
<1> QED
  BY <1>2, <1>3, CutKeeps

LEMMA GivenUpKeeps ==
    ASSUME NEW es, NEW n \in Nat, NEW ep \in Nat, NEW s, Sound(s, es, n, ep),
           NEW s2 \in StreamType, s2.got = s.got, s2.lastId = s.lastId,
           s2.stale = s.stale, s2.wire = <<>>, ~s2.sub, ~s2.up
    PROVE  Sound(s2, es, n, ep)
<1>1. s.wire \in Seq(Frame)
  BY DEF Sound, StreamType
<1>2. 0 \in 0 .. Len(s.wire) /\ SubSeq(s.wire, 1, 0) = <<>>
  BY <1>1
<1>3. Placed(s2)
  BY DEF Placed
<1> QED
  BY <1>2, <1>3, CutKeeps

\* What the rings and the streams are in every state.
Streams ==
    /\ counter \in Nat /\ drops \in 0 .. MaxDrops /\ epoch \in 0 .. drops
    /\ ring \in [Scopes -> Seq(BusEvent)] /\ stream \in [Clients -> StreamType]
    /\ \A x \in Scopes : Batch(ring[x], 0, counter, epoch) /\ Len(ring[x]) <= Capacity(x)
    /\ \A c \in Clients : Sound(stream[c], ring[ScopeOf[c]], counter, epoch)

LEMMA ScopeIs == \A c \in Clients : ScopeOf[c] \in Scopes
  BY EventStreamAssumption DEF EventStreamAssumption, Scopes

\* A step of one stream, in which nothing is published.
LEMMA OneStream ==
    ASSUME Streams, NEW c \in Clients, NEW s2, stream' = [stream EXCEPT ![c] = s2],
           Sound(s2, ring[ScopeOf[c]], counter, epoch), UNCHANGED <<counter, ring, epoch>>,
           drops' \in drops .. MaxDrops
    PROVE  Streams'
<1>1. counter' = counter /\ ring' = ring /\ epoch' = epoch
  OBVIOUS
<1>2. s2 \in StreamType
  BY DEF Sound
<1>3. stream' \in [Clients -> StreamType]
  BY <1>2 DEF Streams
<1>4. \A d \in Clients : stream'[d] = IF d = c THEN s2 ELSE stream[d]
  BY DEF Streams
<1>5. \A d \in Clients : Sound(stream'[d], ring[ScopeOf[d]], counter, epoch)
  BY <1>4 DEF Streams
<1>6. drops' \in 0 .. MaxDrops /\ epoch \in 0 .. drops'
  BY EventStreamAssumption DEF Streams, EventStreamAssumption
<1> QED
  BY <1>1, <1>3, <1>5, <1>6 DEF Streams

-----------------------------------------------------------------------------
NewsItem == [session : Sessions, body : RunEvent \cup {NoBody}]

\* The events that Publish makes of what it is given.
Emitted(news) ==
    [i \in DOMAIN news |-> [seq |-> counter + i, epoch |-> epoch,
                            session |-> news[i].session, body |-> news[i].body]]

LEMMA EmittedIs ==
    ASSUME counter \in Nat, epoch \in Nat, NEW news \in Seq(NewsItem)
    PROVE  Batch(Emitted(news), counter, counter + Len(news), epoch)
<1>1. PICK k, es : k = Len(news) /\ es = Emitted(news)
  OBVIOUS
<1>2. k \in Nat /\ DOMAIN news = 1 .. k /\ \A i \in 1 .. k : news[i] \in NewsItem
  BY <1>1
<1>3. es = [i \in 1 .. k |-> [seq |-> counter + i, epoch |-> epoch,
                              session |-> news[i].session, body |-> news[i].body]]
  BY <1>1, <1>2 DEF Emitted
<1>4. \A i \in 1 .. k : es[i] \in BusEvent /\ es[i].seq = counter + i /\ es[i].epoch = epoch
  <2> SUFFICES ASSUME NEW i \in 1 .. k
               PROVE  es[i] \in BusEvent /\ es[i].seq = counter + i /\ es[i].epoch = epoch
    OBVIOUS
  <2>1. news[i].session \in Sessions /\ news[i].body \in RunEvent \cup {NoBody}
    BY <1>2 DEF NewsItem
  <2>2. counter + i \in Nat
    OBVIOUS
  <2> QED
    BY <1>3, <2>1, <2>2 DEF BusEvent
<1>5. es \in [1 .. k -> BusEvent]
  BY <1>3, <1>4
<1>6. es \in Seq(BusEvent) /\ Len(es) = k
  BY <1>2, <1>5
<1>7. \A i \in 1 .. k : counter < es[i].seq /\ es[i].seq <= counter + k /\ es[i].seq \in Nat
  BY <1>2, <1>4
<1>8. \A i, j \in 1 .. k : i < j => es[i].seq < es[j].seq
  BY <1>4
<1> QED
  BY <1>1, <1>4, <1>6, <1>7, <1>8 DEF Batch

\* Those of them that go into the ring of x and to its subscribers.
Share(news, x) == Filter(Emitted(news), {e \in Range(Emitted(news)) : InScope(e, x)})

LEMMA PublishIs ==
    ASSUME Streams, NEW news \in Seq(NewsItem), Publish(news)
    PROVE  /\ counter \in Nat /\ counter' \in Nat /\ counter <= counter' /\ epoch \in Nat
           /\ drops' = drops /\ epoch' = epoch
           /\ ring' = [x \in Scopes |-> Tailing(ring[x] \o Share(news, x), Capacity(x))]
           /\ stream' = [c \in Clients |->
                 IF stream[c].sub
                 THEN [stream[c] EXCEPT !.wire = stream[c].wire \o Share(news, ScopeOf[c])]
                 ELSE stream[c]]
           /\ \A x : /\ Batch(Share(news, x), counter, counter', epoch)
                     /\ \A e \in Range(Share(news, x)) :
                           e \in Range(Emitted(news)) /\ InScope(e, x)
           /\ \A x \in Scopes :
                 /\ ring'[x] \in Seq(BusEvent)
                 /\ Batch(ring'[x], 0, counter', epoch) /\ Len(ring'[x]) <= Capacity(x)
                 /\ \A e \in Range(ring'[x]) : e \in Range(ring[x]) \/ e \in Range(Share(news, x))
<1>1. PICK es, m : es = Emitted(news) /\ m = counter + Len(news)
  OBVIOUS
<1>2. counter \in Nat /\ epoch \in Nat /\ m \in Nat /\ counter <= m
  BY <1>1 DEF Streams
<1>3. Batch(es, counter, m, epoch)
  BY <1>1, <1>2, EmittedIs
<1>4. /\ counter' = m /\ drops' = drops /\ epoch' = epoch
      /\ ring' = [x \in Scopes |-> Tailing(ring[x] \o Share(news, x), Capacity(x))]
      /\ stream' = [c \in Clients |->
            IF stream[c].sub
            THEN [stream[c] EXCEPT !.wire = stream[c].wire \o Share(news, ScopeOf[c])]
            ELSE stream[c]]
  BY <1>1 DEF Publish, Emitted, Share
<1>5. \A x : /\ Batch(Share(news, x), counter, m, epoch)
            /\ \A e \in Range(Share(news, x)) : e \in Range(es) /\ InScope(e, x)
  BY <1>1, <1>3, FilterBatch DEF Share
<1>6. ASSUME NEW x \in Scopes
      PROVE  /\ ring'[x] \in Seq(BusEvent)
             /\ Batch(ring'[x], 0, m, epoch) /\ Len(ring'[x]) <= Capacity(x)
             /\ \A e \in Range(ring'[x]) : e \in Range(ring[x]) \/ e \in Range(Share(news, x))
  <2>1. Batch(ring[x], 0, counter, epoch)
    BY <1>6 DEF Streams
  <2>2. Capacity(x) \in Nat
    BY EventStreamAssumption DEF EventStreamAssumption, Capacity
  <2>3. ring'[x] = Tailing(ring[x] \o Share(news, x), Capacity(x))
    BY <1>4, <1>6
  <2>4. Batch(Share(news, x), counter, m, epoch)
    BY <1>5
  <2>5. /\ Batch(ring'[x], 0, m, epoch) /\ Len(ring'[x]) <= Capacity(x)
        /\ \A e \in Range(ring'[x]) : e \in Range(ring[x]) \/ e \in Range(Share(news, x))
    BY <1>2, <2>1, <2>2, <2>3, <2>4, PushRing
  <2>6. ring'[x] \in Seq(BusEvent)
    BY <2>5 DEF Batch
  <2> QED
    BY <2>5, <2>6
<1> QED
  BY <1>1, <1>2, <1>4, <1>5, <1>6

LEMMA PublishStep ==
    ASSUME Streams, NEW news \in Seq(NewsItem), Publish(news)
    PROVE  Streams'
<1>1. /\ counter \in Nat /\ counter' \in Nat /\ counter <= counter' /\ epoch \in Nat
      /\ drops' = drops /\ epoch' = epoch
      /\ \A x \in Scopes :
            /\ ring'[x] \in Seq(BusEvent)
            /\ Batch(ring'[x], 0, counter', epoch) /\ Len(ring'[x]) <= Capacity(x)
  BY PublishIs
<1>2. ring' \in [Scopes -> Seq(BusEvent)]
  BY <1>1, PublishIs
<1>3. ASSUME NEW c \in Clients
      PROVE  Sound(stream'[c], ring'[ScopeOf[c]], counter', epoch)
  <2>1. PICK x \in Scopes : x = ScopeOf[c]
    BY <1>3, ScopeIs
  <2>2. PICK ns : ns = Share(news, x)
    OBVIOUS
  <2>3. /\ Sound(stream[c], ring[x], counter, epoch)
        /\ Batch(ring[x], 0, counter, epoch)
    BY <1>3, <2>1 DEF Streams
  <2>4. /\ Batch(ns, counter, counter', epoch)
        /\ \A e \in Range(ring'[x]) : e \in Range(ring[x]) \/ e \in Range(ns)
    BY <2>2, PublishIs
  <2>5. stream'[c] = IF stream[c].sub THEN [stream[c] EXCEPT !.wire = stream[c].wire \o ns]
                                      ELSE stream[c]
    BY <1>3, <2>1, <2>2, PublishIs
  <2>6. CASE stream[c].sub
    <3>1. stream'[c] = [stream[c] EXCEPT !.wire = stream[c].wire \o ns]
      BY <2>5, <2>6
    <3> QED
      BY <1>1, <2>1, <2>3, <2>4, <2>6, <3>1, WriteKeeps
  <2>7. CASE ~stream[c].sub
    BY <1>1, <2>1, <2>3, <2>4, <2>5, <2>7, MissKeeps
  <2> QED
    BY <2>6, <2>7
<1>4. stream' \in [Clients -> StreamType]
  <2>1. \A c \in Clients : stream'[c] \in StreamType
    BY <1>3 DEF Sound
  <2>2. stream' = [c \in Clients |-> stream'[c]]
    BY PublishIs
  <2> QED
    BY <2>1, <2>2
<1> QED
  BY <1>1, <1>2, <1>3, <1>4 DEF Streams

-----------------------------------------------------------------------------
\* The steps of the run table, with what they publish.
LEMMA NewsIs ==
    ASSUME TypeOK, TypeOK', NEW s \in Sessions
    PROVE  News(s) \in Seq(NewsItem)
<1>1. PICK old, new, a, b : /\ old = events[s] /\ new = events'[s]
                            /\ a = Len(old) /\ b = Len(new)
  OBVIOUS
<1>2. new \in Seq(RunEvent) /\ a \in Nat /\ b \in Nat
  BY <1>1 DEF TypeOK
<1>3. PICK k \in Nat : 1 .. b - a = 1 .. k
  <2>1. CASE b - a \in Nat
    BY <2>1
  <2>2. CASE b - a \notin Nat
    <3>1. 1 .. b - a = 1 .. 0
      BY <1>2, <2>2
    <3> QED
      BY <3>1
  <2> QED
    BY <2>1, <2>2
<1>4. News(s) = [i \in 1 .. k |-> [session |-> s, body |-> new[a + i]]]
  BY <1>1, <1>3 DEF News
<1>5. \A i \in 1 .. k : [session |-> s, body |-> new[a + i]] \in NewsItem
  <2> SUFFICES ASSUME NEW i \in 1 .. k
               PROVE  [session |-> s, body |-> new[a + i]] \in NewsItem
    OBVIOUS
  <2>1. a + i \in 1 .. b
    BY <1>2, <1>3
  <2>2. new[a + i] \in RunEvent
    BY <1>1, <1>2, <2>1
  <2> QED
    BY <2>2 DEF NewsItem
<1> QED
  BY <1>4, <1>5

\* A step of the table that publishes what it added to the events of a session.
LEMMA NewsKeep ==
    ASSUME Streams, IInv, IInv', NEW s \in Sessions, Publish(News(s))
    PROVE  Streams'
<1>1. PICK news : news = News(s)
  OBVIOUS
<1>2. TypeOK /\ TypeOK'
  BY DEF IInv, Bookkeeping
<1>3. news \in Seq(NewsItem)
  BY <1>1, <1>2, NewsIs
<1>4. Publish(news)
  BY <1>1
<1> QED
  BY <1>3, <1>4, PublishStep

LEMMA StartRunKeeps ==
    ASSUME IInv, Streams, NEW s \in Sessions, NEW r \in Runs, StartRun(s, r)
    PROVE  IInv' /\ Streams'
<1>1. IInv'
  BY NextIInv DEF StartRun, RunNext
<1> QED
  BY <1>1, NewsKeep DEF StartRun

LEMMA RunEndsKeeps ==
    ASSUME IInv, Streams, NEW r \in Runs, RunReturns(r) \/ RunThrows(r)
    PROVE  IInv' /\ Streams'
<1>1. TaskReturned(r) \/ TaskThrew(r)
  BY DEF RunReturns, RunThrows
<1>2. IInv'
  BY <1>1, NextIInv DEF RunNext
<1>3. owner[r] \in Sessions
  <2>1. task[r] # "none"
    BY <1>1 DEF TaskReturned, TaskThrew
  <2> QED
    BY <2>1 DEF IInv, Bookkeeping, TypeOK, TaskOfStarted
<1>4. Publish(News(owner[r]))
  BY DEF RunReturns, RunThrows
<1> QED
  BY <1>2, <1>3, <1>4, NewsKeep

LEMMA AbortRunKeeps ==
    ASSUME IInv, Streams, NEW s \in Sessions, AbortRun(s)
    PROVE  IInv' /\ Streams'
<1>1. IInv'
  BY NextIInv DEF AbortRun, RunNext
<1> QED
  BY <1>1, NewsKeep DEF AbortRun

LEMMA AbortRunsKeeps ==
    ASSUME IInv, Streams, AbortRuns
    PROVE  IInv' /\ Streams'
<1>1. IInv'
  BY NextIInv DEF AbortRuns, RunNext
<1>2. PICK busy : busy = {s \in Sessions : runs[s] # NoRun}
  OBVIOUS
<1>3. PICK order \in SetToSeqs(busy) :
         Publish([i \in DOMAIN order |->
                     [session |-> order[i], body |-> Event("aborted", runs[order[i]])]])
  BY <1>2 DEF AbortRuns
<1>4. PICK k \in Nat : order \in [1 .. k -> busy]
  <2>1. IsFiniteSet(busy)
    BY <1>2, FS_Subset, EventStreamAssumption DEF EventStreamAssumption
  <2>2. Cardinality(busy) \in Nat
    BY <2>1, FS_CardinalityType
  <2> QED
    BY <2>2 DEF SetToSeqs
<1>5. PICK news : news = [i \in 1 .. k |-> [session |-> order[i],
                                            body |-> Event("aborted", runs[order[i]])]]
  OBVIOUS
<1>6. \A i \in 1 .. k : [session |-> order[i],
                         body |-> Event("aborted", runs[order[i]])] \in NewsItem
  <2> SUFFICES ASSUME NEW i \in 1 .. k
               PROVE  [session |-> order[i],
                       body |-> Event("aborted", runs[order[i]])] \in NewsItem
    OBVIOUS
  <2>1. order[i] \in Sessions /\ runs[order[i]] # NoRun
    BY <1>2, <1>4
  <2>2. runs[order[i]] \in Runs
    BY <2>1 DEF IInv, Bookkeeping, TypeOK
  <2> QED
    BY <2>1, <2>2 DEF NewsItem, RunEvent, Event, Verdicts
<1>7. news \in Seq(NewsItem)
  BY <1>5, <1>6
<1>8. Publish(news)
  BY <1>3, <1>4, <1>5
<1> QED
  BY <1>1, <1>7, <1>8, PublishStep

LEMMA OtherKeeps ==
    ASSUME IInv, Streams, NEW s \in Sessions, Other(s)
    PROVE  IInv' /\ Streams'
<1>1. IInv'
  BY NextIInv DEF Other
<1>2. PICK news : news = <<[session |-> s, body |-> NoBody]>>
  OBVIOUS
<1>3. [session |-> s, body |-> NoBody] \in NewsItem
  BY DEF NewsItem
<1>4. news \in Seq(NewsItem) /\ Publish(news)
  BY <1>2, <1>3 DEF Other
<1> QED
  BY <1>1, <1>4, PublishStep

LEMMA ServerRestartsKeeps ==
    ASSUME IInv, Streams, ServerRestarts
    PROVE  IInv' /\ Streams'
<1>1. IInv'
  BY NextIInv DEF ServerRestarts, RunNext
<1>2. /\ counter' = 0 /\ drops' = drops + 1 /\ drops < MaxDrops /\ epoch' = epoch + 1
      /\ ring' = [x \in Scopes |-> <<>>]
      /\ stream' = [c \in Clients |-> [stream[c] EXCEPT !.up = FALSE, !.sub = FALSE]]
  BY DEF ServerRestarts
<1>3. counter \in Nat /\ epoch \in Nat /\ drops' \in 0 .. MaxDrops /\ epoch' \in 0 .. drops'
  <2>1. /\ counter \in Nat /\ MaxDrops \in Nat /\ drops \in 0 .. MaxDrops
        /\ epoch \in 0 .. drops
    BY EventStreamAssumption DEF Streams, EventStreamAssumption
  <2>2. drops < MaxDrops
    BY <1>2
  <2>3. drops + 1 \in 0 .. MaxDrops /\ epoch + 1 \in 0 .. drops + 1 /\ epoch \in Nat
    BY <2>1, <2>2
  <2>4. drops' = drops + 1 /\ epoch' = epoch + 1
    BY <1>2
  <2> QED
    BY <2>1, <2>3, <2>4
<1>4. ASSUME NEW x \in Scopes
      PROVE  ring'[x] = <<>> /\ Batch(<<>>, 0, 0, epoch') /\ Len(<<>>) <= Capacity(x)
  <2>1. Batch(<<>>, 0, 0, epoch')
    BY DEF Batch
  <2>2. Len(<<>>) <= Capacity(x)
    BY EventStreamAssumption DEF EventStreamAssumption, Capacity
  <2> QED
    BY <1>2, <2>1, <2>2
<1>5. \A c \in Clients : Sound(stream'[c], ring'[ScopeOf[c]], 0, epoch + 1)
  <2> SUFFICES ASSUME NEW c \in Clients
               PROVE  Sound(stream'[c], ring'[ScopeOf[c]], 0, epoch + 1)
    OBVIOUS
  <2>1. Sound(stream[c], ring[ScopeOf[c]], counter, epoch)
    BY DEF Streams
  <2>2. stream'[c] = [stream[c] EXCEPT !.up = FALSE, !.sub = FALSE]
    BY <1>2
  <2>3. Sound(stream'[c], <<>>, 0, epoch + 1)
    BY <1>3, <2>1, <2>2, RebootKeeps
  <2>4. ring'[ScopeOf[c]] = <<>>
    BY <1>4, ScopeIs
  <2> QED
    BY <2>3, <2>4
<1>6. stream' \in [Clients -> StreamType]
  <2>1. \A c \in Clients : stream'[c] \in StreamType
    BY <1>5 DEF Sound
  <2> QED
    BY <1>2, <2>1
<1>7. ring' \in [Scopes -> Seq(BusEvent)]
  <2>1. <<>> \in Seq(BusEvent)
    OBVIOUS
  <2> QED
    BY <1>2, <2>1
<1> QED
  BY <1>1, <1>2, <1>3, <1>4, <1>5, <1>6, <1>7 DEF Streams

-----------------------------------------------------------------------------
\* The steps of a client and of the network.
LEMMA StreamIs ==
    ASSUME Streams, NEW c \in Clients
    PROVE  /\ stream[c] \in StreamType
           /\ Sound(stream[c], ring[ScopeOf[c]], counter, epoch)
           /\ Batch(ring[ScopeOf[c]], 0, counter, epoch)
           /\ counter \in Nat /\ epoch \in Nat /\ drops \in drops .. MaxDrops
BY ScopeIs DEF Streams

LEMMA RunsIdle ==
    ASSUME IInv, UNCHANGED runVars
    PROVE  IInv'
BY NextIInv

LEMMA OpenKeeps ==
    ASSUME Streams, NEW c \in Clients, Open(c)
    PROVE  Streams'
<1>1. PICK s, s2 : s = stream[c] /\ s2 = [s EXCEPT !.phase = "fetching", !.up = TRUE]
  OBVIOUS
<1>2. s \in StreamType /\ s.phase = "unopened" /\ stream' = [stream EXCEPT ![c] = s2]
  BY <1>1, StreamIs DEF Open, Streams
<1>3. Sound(s2, ring[ScopeOf[c]], counter, epoch)
  <2>1. Sound(s, ring[ScopeOf[c]], counter, epoch) /\ counter \in Nat /\ epoch \in Nat
    BY <1>1, StreamIs
  <2>2. /\ s2 \in StreamType /\ s2.got = s.got /\ s2.lastId = s.lastId /\ s2.stale = s.stale
        /\ s2.wire = s.wire /\ s2.sub = s.sub /\ s2.up /\ s2.phase = "fetching"
    BY <1>1, <1>2 DEF StreamType
  <2>3. s.wire = <<>> /\ ~s.sub
    BY <1>2, <2>1 DEF Sound, Placed
  <2>4. Placed(s2)
    BY <2>2, <2>3 DEF Placed
  <2> QED
    BY <2>1, <2>2, <2>4, SameKeeps
<1>4. UNCHANGED <<counter, ring, epoch>> /\ drops' \in drops .. MaxDrops
  BY StreamIs DEF Open
<1> QED
  BY <1>2, <1>3, <1>4, OneStream

LEMMA ReconnectKeeps ==
    ASSUME Streams, NEW c \in Clients, Reconnect(c)
    PROVE  Streams'
<1>1. PICK s, s2 : s = stream[c] /\ s2 = [s EXCEPT !.phase = "fetching", !.up = TRUE]
  OBVIOUS
<1>2. s \in StreamType /\ s.phase = "waiting" /\ stream' = [stream EXCEPT ![c] = s2]
  BY <1>1, StreamIs DEF Reconnect, Streams
<1>3. Sound(s2, ring[ScopeOf[c]], counter, epoch)
  <2>1. Sound(s, ring[ScopeOf[c]], counter, epoch) /\ counter \in Nat /\ epoch \in Nat
    BY <1>1, StreamIs
  <2>2. /\ s2 \in StreamType /\ s2.got = s.got /\ s2.lastId = s.lastId /\ s2.stale = s.stale
        /\ s2.wire = s.wire /\ s2.sub = s.sub /\ s2.up /\ s2.phase = "fetching"
    BY <1>1, <1>2 DEF StreamType
  <2>3. s.wire = <<>> /\ ~s.sub
    BY <1>2, <2>1 DEF Sound, Placed
  <2>4. Placed(s2)
    BY <2>2, <2>3 DEF Placed
  <2> QED
    BY <2>1, <2>2, <2>4, SameKeeps
<1>4. UNCHANGED <<counter, ring, epoch>> /\ drops' \in drops .. MaxDrops
  BY StreamIs DEF Reconnect
<1> QED
  BY <1>2, <1>3, <1>4, OneStream

LEMMA ReplayIs ==
    ASSUME NEW x, NEW id, NEW n, NEW ep, Batch(ring[x], 0, n, ep)
    PROVE  /\ Batch(Replay(x, id), 0, n, ep)
           /\ \A e : e \in Range(Replay(x, id)) <=>
                        e \in Range(ring[x]) /\ (id = NoId \/ e.seq > EventSeq(id))
<1>1. CASE id = NoId
  BY <1>1 DEF Replay
<1>2. CASE id # NoId
  <2>1. PICK T : T = {e \in Range(ring[x]) : e.seq > EventSeq(id)}
    OBVIOUS
  <2>2. Replay(x, id) = Filter(ring[x], T)
    BY <1>2, <2>1 DEF Replay, After
  <2> QED
    BY <1>2, <2>1, <2>2, FilterBatch
<1> QED
  BY <1>1, <1>2

LEMMA ServeStepKeeps ==
    ASSUME Streams, NEW c \in Clients, Serve(c)
    PROVE  Streams'
<1>1. PICK s, x, rp, old, s2 :
         /\ s = stream[c] /\ x = ScopeOf[c] /\ rp = Replay(x, s.lastId)
         /\ old = (s.lastId \notin {NoId, Bootstrap} /\ (s.stale \/ s.lastId.epoch < epoch))
         /\ s2 = [s EXCEPT !.wire = Append(rp, Bootstrap), !.sub = TRUE, !.stale = old]
  OBVIOUS
<1>2. /\ s.phase = "fetching" /\ s.up /\ ~s.sub
      /\ stream' = [stream EXCEPT ![c] = s2]
  BY <1>1 DEF Serve, Streams
<1>3. /\ Sound(s, ring[x], counter, epoch) /\ Batch(ring[x], 0, counter, epoch)
      /\ counter \in Nat /\ epoch \in Nat
  BY <1>1, StreamIs
<1>4. /\ Batch(rp, 0, counter, epoch)
      /\ \A e : e \in Range(rp) <=>
                   e \in Range(ring[x]) /\ (s.lastId = NoId \/ e.seq > EventSeq(s.lastId))
  BY <1>1, <1>3, ReplayIs
<1>5. /\ old \in BOOLEAN
      /\ old <=> s.lastId \notin {NoId, Bootstrap} /\ (s.stale \/ s.lastId.epoch < epoch)
  BY <1>1
<1>6. s2 = [s EXCEPT !.wire = Append(rp, Bootstrap), !.sub = TRUE, !.stale = old]
  BY <1>1
<1>7. Sound(s2, ring[ScopeOf[c]], counter, epoch)
  <2>1. Sound(s2, ring[x], counter, epoch)
    BY <1>2, <1>3, <1>4, <1>5, <1>6, ServeKeeps
  <2> QED
    BY <1>1, <2>1
<1>8. UNCHANGED <<counter, ring, epoch>> /\ drops' \in drops .. MaxDrops
  BY StreamIs DEF Serve
<1> QED
  BY <1>2, <1>7, <1>8, OneStream

LEMMA ConnectedKeeps ==
    ASSUME Streams, NEW c \in Clients, Connected(c)
    PROVE  Streams'
<1>1. PICK s, rd, s2 : /\ s = stream[c]
                       /\ rd = IF s.settled THEN s.ready ELSE "resolved"
                       /\ s2 = [s EXCEPT !.phase = "open", !.ready = rd, !.settled = TRUE]
  OBVIOUS
<1>2. s \in StreamType /\ s.sub /\ stream' = [stream EXCEPT ![c] = s2]
  BY <1>1, StreamIs DEF Connected, Streams
<1>3. Sound(s2, ring[ScopeOf[c]], counter, epoch)
  <2>1. Sound(s, ring[ScopeOf[c]], counter, epoch) /\ counter \in Nat /\ epoch \in Nat
    BY <1>1, StreamIs
  <2>2. rd \in {"pending", "resolved", "rejected"}
    BY <1>1, <1>2 DEF StreamType
  <2>3. /\ s2 \in StreamType /\ s2.got = s.got /\ s2.lastId = s.lastId /\ s2.stale = s.stale
        /\ s2.wire = s.wire /\ s2.sub = s.sub /\ s2.up = s.up /\ s2.phase = "open"
    BY <1>1, <1>2, <2>2 DEF StreamType
  <2>4. Placed(s2)
    BY <1>2, <2>1, <2>3 DEF Sound, Placed
  <2> QED
    BY <2>1, <2>3, <2>4, SameKeeps
<1>4. UNCHANGED <<counter, ring, epoch>> /\ drops' \in drops .. MaxDrops
  BY StreamIs DEF Connected
<1> QED
  BY <1>2, <1>3, <1>4, OneStream

LEMMA ReceiveKeeps ==
    ASSUME Streams, NEW c \in Clients, Receive(c)
    PROVE  Streams'
<1>1. PICK s, s2 :
         /\ s = stream[c]
         /\ s2 = [s EXCEPT !.wire = Tail(s.wire), !.lastId = Head(s.wire),
                           !.got = Append(s.got, Head(s.wire))]
  OBVIOUS
<1>2. s.phase = "open" /\ s.wire # <<>> /\ stream' = [stream EXCEPT ![c] = s2]
  BY <1>1 DEF Receive, Streams
<1>3. Sound(s2, ring[ScopeOf[c]], counter, epoch)
  <2>1. Sound(s, ring[ScopeOf[c]], counter, epoch) /\ counter \in Nat /\ epoch \in Nat
    BY <1>1, StreamIs
  <2> QED
    BY <1>1, <1>2, <2>1, ReadKeeps
<1>4. UNCHANGED <<counter, ring, epoch>> /\ drops' \in drops .. MaxDrops
  BY StreamIs DEF Receive
<1> QED
  BY <1>2, <1>3, <1>4, OneStream

LEMMA LoseKeeps ==
    ASSUME Streams, NEW c \in Clients, Lose(c)
    PROVE  Streams'
<1>1. PICK s : s = stream[c]
  OBVIOUS
<1>2. PICK k \in 0 .. Len(s.wire) :
         stream' = [stream EXCEPT ![c].up = FALSE, ![c].sub = FALSE,
                                  ![c].wire = SubSeq(@, 1, k)]
  BY <1>1 DEF Lose
<1>3. PICK w, s2 : /\ w = SubSeq(s.wire, 1, k)
                   /\ s2 = [s EXCEPT !.up = FALSE, !.sub = FALSE, !.wire = w]
  OBVIOUS
<1>4. s \in StreamType /\ s.up /\ stream' = [stream EXCEPT ![c] = s2]
  BY <1>1, <1>2, <1>3, StreamIs DEF Lose, Streams
<1>5. Sound(s2, ring[ScopeOf[c]], counter, epoch)
  <2>1. Sound(s, ring[ScopeOf[c]], counter, epoch) /\ counter \in Nat /\ epoch \in Nat
    BY <1>1, StreamIs
  <2>2. w \in Seq(Frame)
    <3>1. s.wire \in Seq(Frame)
      BY <1>4 DEF StreamType
    <3> QED
      BY <1>3, <3>1
  <2>3. /\ s2 \in StreamType /\ s2.got = s.got /\ s2.lastId = s.lastId /\ s2.stale = s.stale
        /\ s2.wire = w /\ ~s2.sub /\ ~s2.up /\ s2.phase = s.phase
    BY <1>3, <1>4, <2>2 DEF StreamType
  <2>4. Placed(s2)
    BY <1>4, <2>1, <2>3 DEF Sound, Placed
  <2> QED
    BY <1>3, <2>1, <2>3, <2>4, CutKeeps
<1>6. UNCHANGED <<counter, ring, epoch>> /\ drops' \in drops .. MaxDrops
  <2>1. drops \in 0 .. MaxDrops /\ MaxDrops \in Nat
    BY EventStreamAssumption DEF Streams, EventStreamAssumption
  <2> QED
    BY <2>1 DEF Lose
<1> QED
  BY <1>4, <1>5, <1>6, OneStream

\* A connection that is given up, by a failure or by close().
LEMMA GiveUpKeeps ==
    ASSUME Streams, NEW c \in Clients, NEW s2 \in StreamType,
           stream' = [stream EXCEPT ![c] = s2], UNCHANGED <<counter, ring, drops, epoch>>,
           s2.got = stream[c].got, s2.lastId = stream[c].lastId, s2.stale = stream[c].stale,
           s2.wire = <<>>, ~s2.sub, ~s2.up
    PROVE  Streams'
<1>1. Sound(s2, ring[ScopeOf[c]], counter, epoch)
  BY StreamIs, GivenUpKeeps
<1>2. UNCHANGED <<counter, ring, epoch>> /\ drops' \in drops .. MaxDrops
  BY StreamIs
<1> QED
  BY <1>1, <1>2, OneStream

LEMMA RetryIs ==
    ASSUME NEW s \in StreamType
    PROVE  /\ Retry(s) \in StreamType
           /\ Retry(s).got = s.got /\ Retry(s).lastId = s.lastId /\ Retry(s).stale = s.stale
           /\ Retry(s).wire = <<>> /\ ~Retry(s).sub /\ ~Retry(s).up
<1>1. <<>> \in Seq(Frame)
  OBVIOUS
<1> QED
  BY <1>1 DEF Retry, StreamType

LEMMA GivingUpKeeps ==
    ASSUME Streams, NEW c \in Clients,
           FetchFails(c) \/ PumpEnds(c) \/ ConnectTimeout(c) \/ CloseStream(c)
    PROVE  Streams'
<1>1. PICK s, t : s = stream[c] /\ t = Retry(s)
  OBVIOUS
<1>2. s \in StreamType
  BY <1>1, StreamIs
<1>3. /\ t \in StreamType /\ t.got = s.got /\ t.lastId = s.lastId /\ t.stale = s.stale
      /\ t.wire = <<>> /\ ~t.sub /\ ~t.up
  BY <1>1, <1>2, RetryIs
<1>4. UNCHANGED <<counter, ring, drops, epoch>>
  BY DEF FetchFails, PumpEnds, ConnectTimeout, CloseStream
<1>5. CASE FetchFails(c)
  <2>1. PICK s2 : s2 = [t EXCEPT !.settled = TRUE]
    OBVIOUS
  <2>2. stream' = [stream EXCEPT ![c] = s2]
    BY <1>1, <1>5, <2>1 DEF FetchFails, Streams
  <2>3. /\ s2 \in StreamType /\ s2.got = t.got /\ s2.lastId = t.lastId /\ s2.stale = t.stale
        /\ s2.wire = t.wire /\ s2.sub = t.sub /\ s2.up = t.up
    BY <1>3, <2>1 DEF StreamType
  <2> QED
    BY <1>1, <1>3, <1>4, <2>2, <2>3, GiveUpKeeps
<1>6. CASE PumpEnds(c)
  <2>1. stream' = [stream EXCEPT ![c] = t]
    BY <1>1, <1>6 DEF PumpEnds, Streams
  <2> QED
    BY <1>1, <1>3, <1>4, <2>1, GiveUpKeeps
<1>7. CASE ConnectTimeout(c)
  <2>1. PICK s2 : s2 = [t EXCEPT !.settled = TRUE, !.ready = "rejected"]
    OBVIOUS
  <2>2. stream' = [stream EXCEPT ![c] = s2]
    BY <1>1, <1>7, <2>1 DEF ConnectTimeout, Streams
  <2>3. /\ s2 \in StreamType /\ s2.got = t.got /\ s2.lastId = t.lastId /\ s2.stale = t.stale
        /\ s2.wire = t.wire /\ s2.sub = t.sub /\ s2.up = t.up
    BY <1>3, <2>1 DEF StreamType
  <2> QED
    BY <1>1, <1>3, <1>4, <2>2, <2>3, GiveUpKeeps
<1>8. CASE CloseStream(c)
  <2>1. PICK s2 : s2 = Closed(s)
    OBVIOUS
  <2>2. stream' = [stream EXCEPT ![c] = s2]
    BY <1>1, <1>8, <2>1 DEF CloseStream, Streams
  <2>3. /\ s2 \in StreamType /\ s2.got = s.got /\ s2.lastId = s.lastId /\ s2.stale = s.stale
        /\ s2.wire = <<>> /\ ~s2.sub /\ ~s2.up
    <3>1. <<>> \in Seq(Frame)
      OBVIOUS
    <3> QED
      BY <1>2, <2>1, <3>1 DEF Closed, StreamType
  <2> QED
    BY <1>1, <1>4, <2>2, <2>3, GiveUpKeeps
<1> QED
  BY <1>5, <1>6, <1>7, <1>8

-----------------------------------------------------------------------------
\* The calls of promptAndWait keep their types, the first end of a run being one of a run.
Waits ==
    wait \in [Clients -> [pc : {"none", "posted", "connecting", "polling", "returned", "threw"},
                          run : Runs \cup {NoRun}, result : Runs \cup {NoRun}]]

LEMMA FirstEndIs ==
    ASSUME NEW c \in Clients, stream[c] \in StreamType, Ends(c) # {}
    PROVE  stream[c].got[Min(Ends(c))].body.run \in Runs
<1>1. PICK got : got = stream[c].got
  OBVIOUS
<1>2. got \in Seq(Frame)
  BY <1>1 DEF StreamType
<1>3. PICK T : T = Ends(c)
  OBVIOUS
<1>4. T = {i \in 1 .. Len(got) : IsEnd(got[i])}
  BY <1>1, <1>2, <1>3 DEF Ends
<1>5. Min(T) \in T
  <2>1. \E x \in T : \A y \in T : x <= y
    <3>1. T \subseteq Nat /\ T # {}
      BY <1>3, <1>4
    <3> QED
      BY <3>1, Least
  <2> QED
    BY <2>1 DEF Min
<1>6. PICK f : f = got[Min(T)]
  OBVIOUS
<1>7. f \in Frame /\ IsEnd(f)
  BY <1>2, <1>4, <1>5, <1>6
<1>8. f.body \in RunEvent
  BY <1>7 DEF IsEnd, Frame, BusEvent
<1>9. f.body.run \in Runs
  BY <1>8 DEF RunEvent
<1> QED
  BY <1>1, <1>3, <1>6, <1>9

LEMMA InitStreams == Init => IInv /\ Streams /\ Waits
<1> SUFFICES ASSUME Init PROVE IInv /\ Streams /\ Waits
  OBVIOUS
<1>1. IInv
  BY InitIInv DEF Init
<1>2. /\ counter = 0 /\ drops = 0 /\ epoch = 0
      /\ ring = [x \in Scopes |-> <<>>] /\ stream = [c \in Clients |-> Unopened]
  BY DEF Init, BusInit
<1>3. <<>> \in Seq(BusEvent) /\ <<>> \in Seq(Frame)
  OBVIOUS
<1>4. Unopened \in StreamType
  BY <1>3 DEF Unopened, StreamType
<1>5. ASSUME NEW x \in Scopes
      PROVE  Batch(ring[x], 0, counter, epoch) /\ Len(ring[x]) <= Capacity(x)
  <2>1. ring[x] = <<>>
    BY <1>2
  <2>2. Batch(<<>>, 0, 0, 0)
    BY DEF Batch
  <2>3. Len(<<>>) <= Capacity(x)
    BY EventStreamAssumption DEF EventStreamAssumption, Capacity
  <2> QED
    BY <1>2, <2>1, <2>2, <2>3
<1>6. Sound(Unopened, <<>>, 0, 0)
  <2>1. /\ Unopened.got = <<>> /\ Unopened.wire = <<>> /\ Unopened.lastId = NoId
        /\ ~Unopened.sub /\ ~Unopened.up
    BY DEF Unopened
  <2>2. Full(Unopened) = <<>> /\ Len(<<>>) = 0
    BY <2>1 DEF Full
  <2>3. Linked(<<>>) /\ Known(<<>>, 0, 0) /\ Covered(<<>>, 0, <<>>, 0)
    BY DEF Linked, Known, Covered
  <2>4. Placed(Unopened)
    BY <2>1 DEF Placed
  <2> QED
    BY <1>4, <2>1, <2>2, <2>3, <2>4 DEF Sound
<1>7. \A c \in Clients : Sound(stream[c], ring[ScopeOf[c]], counter, epoch)
  BY <1>2, <1>6, ScopeIs
<1>8. Streams
  <2>1. drops \in 0 .. MaxDrops /\ epoch \in 0 .. drops /\ counter \in Nat
    BY <1>2, EventStreamAssumption DEF EventStreamAssumption
  <2>2. ring \in [Scopes -> Seq(BusEvent)] /\ stream \in [Clients -> StreamType]
    BY <1>2, <1>3, <1>4
  <2> QED
    BY <1>5, <1>7, <2>1, <2>2 DEF Streams
<1>9. Waits
  BY DEF Init, Waits, NoWait
<1> QED
  BY <1>1, <1>8, <1>9

\* What a step of the table, of the network and of a stream keeps, whoever takes it.
LEMMA TableKeeps ==
    ASSUME IInv, Streams, TableStep
    PROVE  IInv' /\ Streams'
<1>1. ASSUME NEW s \in Sessions, NEW r \in Runs, StartRun(s, r) PROVE IInv' /\ Streams'
  BY <1>1, StartRunKeeps
<1>2. ASSUME NEW r \in Runs, RunReturns(r) \/ RunThrows(r) PROVE IInv' /\ Streams'
  BY <1>2, RunEndsKeeps
<1>3. ASSUME NEW s \in Sessions, AbortRun(s) PROVE IInv' /\ Streams'
  BY <1>3, AbortRunKeeps
<1>4. ASSUME NEW s \in Sessions, Other(s) PROVE IInv' /\ Streams'
  BY <1>4, OtherKeeps
<1>5. CASE AbortRuns
  BY <1>5, AbortRunsKeeps
<1>6. CASE ServerRestarts
  BY <1>6, ServerRestartsKeeps
<1> QED
  BY <1>1, <1>2, <1>3, <1>4, <1>5, <1>6 DEF TableStep

LEMMA ClientKeeps ==
    ASSUME IInv, Streams, NEW c \in Clients,
           ClientStep(c) \/ Lose(c) \/ ConnectTimeout(c) \/ Open(c) \/ CloseStream(c)
    PROVE  IInv' /\ Streams' /\ UNCHANGED runVars
<1>1. UNCHANGED runVars
  BY DEF ClientStep, Serve, Connected, Receive, FetchFails, PumpEnds, Reconnect, Lose,
         ConnectTimeout, Open, CloseStream
<1>2. IInv'
  BY <1>1, RunsIdle
<1>3. Streams'
  BY ServeStepKeeps, ConnectedKeeps, ReceiveKeeps, GivingUpKeeps, ReconnectKeeps, LoseKeeps,
     OpenKeeps DEF ClientStep
<1> QED
  BY <1>1, <1>2, <1>3

LEMMA NextStreams == IInv /\ Streams /\ Waits /\ [Next]_vars => (IInv /\ Streams /\ Waits)'
<1> SUFFICES ASSUME IInv, Streams, Waits, [Next]_vars PROVE (IInv /\ Streams /\ Waits)'
  OBVIOUS
<1>1. CASE TableStep /\ UNCHANGED wait
  BY <1>1, TableKeeps DEF Waits
<1>2. ASSUME NEW c \in Clients, (ClientStep(c) \/ Lose(c) \/ ConnectTimeout(c)) /\ UNCHANGED wait
      PROVE  (IInv /\ Streams /\ Waits)'
  BY <1>2, ClientKeeps DEF Waits
<1>3. ASSUME NEW c \in Clients, NEW r \in Runs, Post(c, r)
      PROVE  (IInv /\ Streams /\ Waits)'
  <2>1. ScopeOf[c] \in Sessions /\ StartRun(ScopeOf[c], r)
    BY <1>3, EventStreamAssumption DEF Post, EventStreamAssumption
  <2>2. IInv' /\ Streams'
    BY <1>3, <2>1, StartRunKeeps
  <2>3. Waits'
    BY <1>3 DEF Post, Waits
  <2> QED
    BY <2>2, <2>3
<1>4. ASSUME NEW c \in Clients, Subscribe(c) PROVE (IInv /\ Streams /\ Waits)'
  <2>1. IInv' /\ Streams'
    BY <1>4, ClientKeeps DEF Subscribe
  <2>2. Waits'
    BY <1>4 DEF Subscribe, Waits
  <2> QED
    BY <2>1, <2>2
<1>5. ASSUME NEW c \in Clients, ReadySettles(c) PROVE (IInv /\ Streams /\ Waits)'
  <2>1. UNCHANGED <<runVars, busVars>>
    BY <1>5 DEF ReadySettles
  <2>2. IInv'
    BY <2>1, RunsIdle
  <2>3. Streams'
    BY <2>1 DEF Streams, busVars
  <2>4. Waits'
    BY <1>5 DEF ReadySettles, Waits
  <2> QED
    BY <2>2, <2>3, <2>4
<1>6. ASSUME NEW c \in Clients, Poll(c) PROVE (IInv /\ Streams /\ Waits)'
  <2>1. IInv' /\ Streams'
    BY <1>6, ClientKeeps DEF Poll
  <2>2. PICK v \in Runs : v = stream[c].got[Min(Ends(c))].body.run
    BY <1>6, StreamIs, FirstEndIs DEF Poll
  <2>3. wait' = [wait EXCEPT ![c].pc = "returned", ![c].result = v]
    BY <1>6, <2>2 DEF Poll
  <2>4. Waits'
    BY <1>6, <2>2, <2>3 DEF Waits
  <2> QED
    BY <2>1, <2>4
<1>7. ASSUME NEW c \in Clients, Deadline(c) PROVE (IInv /\ Streams /\ Waits)'
  <2>1. IInv' /\ Streams'
    BY <1>7, ClientKeeps DEF Deadline
  <2>2. Waits'
    BY <1>7 DEF Deadline, Waits
  <2> QED
    BY <2>1, <2>2
<1>8. ASSUME NEW c \in Clients, OpenAlone(c) \/ CloseAlone(c)
      PROVE  (IInv /\ Streams /\ Waits)'
  BY <1>8, ClientKeeps DEF OpenAlone, CloseAlone, Waits
<1>9. CASE UNCHANGED vars
  <2>1. UNCHANGED <<runVars, busVars, wait>>
    BY <1>9 DEF vars
  <2>2. IInv'
    BY <2>1, RunsIdle
  <2>3. Streams' /\ Waits'
    BY <2>1 DEF Streams, Waits, busVars
  <2> QED
    BY <2>2, <2>3
<1> QED
  BY <1>1, <1>2, <1>3, <1>4, <1>5, <1>6, <1>7, <1>8, <1>9 DEF Next, WaitStep

-----------------------------------------------------------------------------
LEMMA StreamsInv == Spec => [](IInv /\ Streams /\ Waits)
  BY InitStreams, NextStreams, PTL DEF Spec

\* The run table, the rings, the streams and the calls of promptAndWait keep their types,
\* and no ring is ever longer than its capacity (event-replay.ts, sse.ts, client.ts).
THEOREM PromptTypeCorrect == Spec => []TypeInvariant
<1>1. IInv /\ Streams /\ Waits => TypeInvariant
  <2> SUFFICES ASSUME IInv, Streams, Waits PROVE TypeInvariant
    OBVIOUS
  <2>1. TypeOK
    BY DEF IInv, Bookkeeping
  <2>2. epoch \in 0 .. MaxDrops
    <3>1. MaxDrops \in Nat /\ drops \in 0 .. MaxDrops /\ epoch \in 0 .. drops
      BY EventStreamAssumption DEF Streams, EventStreamAssumption
    <3> QED
      BY <3>1
  <2> QED
    BY <2>1, <2>2 DEF Streams, Waits, TypeInvariant
<1> QED
  BY <1>1, StreamsInv, PTL

\* Under the bus, the SSE route and promptAndWait the run table does what it does alone:
\* whatever is proved of it holds there too.
THEOREM PromptImplementsRunState == Spec => RunSpec
<1>1. Init => RunInit
  BY DEF Init
<1>2. IInv /\ Streams /\ Waits /\ [Next]_vars => [RunNext]_runVars
  <2> SUFFICES ASSUME IInv, Streams, Waits, [Next]_vars PROVE [RunNext]_runVars
    OBVIOUS
  <2>1. CASE TableStep
    BY <2>1 DEF TableStep, StartRun, RunReturns, RunThrows, AbortRun, Other, AbortRuns,
                ServerRestarts, RunNext
  <2>2. ASSUME NEW c \in Clients,
               \/ ClientStep(c) \/ Lose(c) \/ ConnectTimeout(c)
               \/ Open(c) \/ CloseStream(c)
        PROVE  UNCHANGED runVars
    BY <2>2, ClientKeeps
  <2>3. ASSUME NEW c \in Clients, NEW r \in Runs, Post(c, r) PROVE RunNext
    <3>1. ScopeOf[c] \in Sessions
      BY <2>3, EventStreamAssumption DEF Post, EventStreamAssumption
    <3> QED
      BY <2>3, <3>1 DEF Post, StartRun, RunNext
  <2>4. ASSUME NEW c \in Clients, WaitStep(c) \/ Deadline(c) \/ OpenAlone(c) \/ CloseAlone(c)
        PROVE  UNCHANGED runVars
    <3>1. CASE ReadySettles(c)
      BY <3>1 DEF ReadySettles
    <3>2. CASE ~ReadySettles(c)
      <4>1. Open(c) \/ CloseStream(c)
        BY <2>4, <3>2 DEF WaitStep, Subscribe, Poll, Deadline, OpenAlone, CloseAlone
      <4> QED
        BY <2>2, <4>1
    <3> QED
      BY <3>1, <3>2
  <2>5. CASE UNCHANGED vars
    BY <2>5 DEF vars
  <2> QED
    BY <2>1, <2>2, <2>3, <2>4, <2>5 DEF Next
<1> QED
  BY <1>1, <1>2, StreamsInv, PTL DEF Spec, RunSpec

\* No client is told of an event twice or out of its order between two bootstrap frames,
\* for any capacities, losses, restarts and reconnects: the replay begins behind the last
\* frame read, and the live part behind the replay (event-replay.ts, routes/event.ts,
\* sse.ts).
THEOREM StreamsAscend == Spec => []Ascends
<1>1. Streams => Ascends
  <2> SUFFICES ASSUME Streams, NEW c \in Clients,
                      NEW i \in 1 .. Len(stream[c].got) - 1,
                      Bootstrap \notin {stream[c].got[i], stream[c].got[i + 1]},
                      stream[c].got[i].epoch = stream[c].got[i + 1].epoch
               PROVE  stream[c].got[i].seq < stream[c].got[i + 1].seq
    BY DEF Ascends
  <2>1. PICK got, fs, a, l : /\ got = stream[c].got /\ fs = Full(stream[c])
                             /\ a = Len(got) /\ l = Len(fs)
    OBVIOUS
  <2>2. /\ a \in Nat /\ l \in Nat /\ a <= l /\ Joins(fs, got, stream[c].wire)
        /\ Linked(fs)
    <3>1. /\ Joins(fs, got, stream[c].wire) /\ a \in Nat /\ l \in Nat
          /\ l = a + Len(stream[c].wire) /\ Len(stream[c].wire) \in Nat
      BY <2>1, StreamIs, FullIs
    <3>2. Linked(fs)
      BY <2>1, StreamIs DEF Sound
    <3> QED
      BY <3>1, <3>2
  <2>3. i \in 1 .. a - 1
    BY <2>1
  <2>4. i \in 1 .. a /\ i + 1 \in 1 .. a /\ i \in 1 .. l - 1
    BY <2>2, <2>3
  <2>5. fs[i] = got[i] /\ fs[i + 1] = got[i + 1]
    BY <2>1, <2>2, <2>4 DEF Joins
  <2> QED
    BY <2>1, <2>2, <2>4, <2>5 DEF Linked
<1> QED
  BY <1>1, StreamsInv, PTL

\* A response that is subscribed owes its client nothing: whatever the ring of its scope
\* still holds was read before, is in the replay, or is behind it on the connection.
THEOREM StreamsComplete == Spec => []ResumeIsComplete
<1>1. Streams => ResumeIsComplete
  <2> SUFFICES ASSUME Streams, NEW c \in Clients, stream[c].sub, ~stream[c].stale,
                      NEW e \in Range(ring[ScopeOf[c]])
               PROVE  e \in Range(stream[c].got) \cup Range(stream[c].wire)
    BY DEF ResumeIsComplete
  <2>1. PICK s : s = stream[c]
    OBVIOUS
  <2>2. s.got \in Seq(Frame) /\ s.wire \in Seq(Frame)
    BY <2>1, StreamIs, FullIs
  <2>3. e \in Range(Full(s))
    BY <2>1, StreamIs DEF Sound
  <2>4. e \in Range(s.got) \/ e \in Range(s.wire)
    BY <2>2, <2>3, RangeOfJoined DEF Full
  <2> QED
    BY <2>1, <2>4
<1> QED
  BY <1>1, StreamsInv, PTL

-----------------------------------------------------------------------------
\* What is said of a run stays true: its session and its end are settled once.
Settled ==
    /\ \A r \in Runs : owner[r] # NoSession => owner'[r] = owner[r]
    /\ \A r \in Runs : outcome[r] \in Verdicts => outcome'[r] = outcome[r]

\* A session's events are of runs of that session.
OwnEventsOf(s) == \A i \in 1 .. Len(events[s]) : owner[events[s][i].run] = s
OwnEvents == \A s \in Sessions : OwnEventsOf(s)

\* What a step does to the events of s.
Grows(s) ==
    \/ events'[s] \in {events[s], <<>>}
    \/ \E e \in RunEvent : owner'[e.run] = s /\ events'[s] = Append(events[s], e)
    \/ \E d, e \in RunEvent : /\ owner'[d.run] = s /\ owner'[e.run] = s
                              /\ events'[s] = Append(Append(events[s], d), e)

LEMMA EndOf ==
    ASSUME IInv, NEW s \in Sessions, runs[s] # NoRun, NEW v \in Verdicts
    PROVE  /\ Event(v, runs[s]) \in RunEvent /\ Event(v, runs[s]).run = runs[s]
           /\ runs[s] \in Runs /\ owner[runs[s]] = s /\ s # NoSession
           /\ outcome[runs[s]] = "none"
<1>1. runs[s] \in Runs /\ owner[runs[s]] = s
  BY DEF IInv, Bookkeeping, TypeOK, OwnEntry
<1>2. s # NoSession
  BY NoSessionAssumption
<1>3. outcome[runs[s]] = "none"
  BY <1>1, <1>2 DEF IInv, Bookkeeping, TrackedOrOver
<1> QED
  BY <1>1, <1>2, <1>3 DEF Event, RunEvent, Verdicts

\* An entry that goes, by its task or by abort().
LEMMA RetireGrows ==
    ASSUME IInv, NEW t \in Sessions, NEW v \in Verdicts, runs[t] # NoRun, Retire(t, v),
           UNCHANGED owner
    PROVE  Settled /\ \A s \in Sessions : Grows(s)
<1>1. /\ outcome' = [outcome EXCEPT ![runs[t]] = v] /\ owner' = owner
      /\ events' = [events EXCEPT ![t] = Append(@, Event(v, runs[t]))]
  BY DEF Retire
<1>2. TypeOK
  BY DEF IInv, Bookkeeping
<1>3. /\ Event(v, runs[t]) \in RunEvent /\ Event(v, runs[t]).run = runs[t]
      /\ owner[runs[t]] = t /\ outcome[runs[t]] = "none"
  BY EndOf
<1>4. Settled
  BY <1>1, <1>2, <1>3 DEF Settled, Verdicts, TypeOK
<1>5. ASSUME NEW s \in Sessions PROVE Grows(s)
  <2>1. CASE s = t
    BY <1>1, <1>2, <1>3, <2>1 DEF Grows, TypeOK
  <2>2. CASE s # t
    BY <1>1, <1>2, <2>2 DEF Grows, TypeOK
  <2> QED
    BY <2>1, <2>2
<1> QED
  BY <1>4, <1>5

LEMMA NothingGrows ==
    ASSUME UNCHANGED <<owner, outcome, events>>
    PROVE  Settled /\ \A s \in Sessions : Grows(s)
BY DEF Settled, Grows

LEMMA StartGrows ==
    ASSUME IInv, NEW t \in Sessions, NEW r \in Runs, Start(t, r)
    PROVE  Settled /\ \A s \in Sessions : Grows(s)
<1>1. TypeOK
  BY DEF IInv, Bookkeeping
<1>2. owner[r] = NoSession /\ owner' = [owner EXCEPT ![r] = t] /\ owner'[r] = t
  BY <1>1 DEF Start, TypeOK
<1>3. Event("started", r) \in RunEvent /\ Event("started", r).run = r
  BY DEF Event, RunEvent
<1>4. CASE StartIdle(t, r)
  <2>1. outcome' = outcome /\ events' = [events EXCEPT ![t] = Append(@, Event("started", r))]
    BY <1>4 DEF StartIdle
  <2>2. Settled
    BY <1>1, <1>2, <2>1 DEF Settled, TypeOK
  <2>3. ASSUME NEW s \in Sessions PROVE Grows(s)
    BY <1>1, <1>2, <1>3, <2>1 DEF Grows, TypeOK
  <2> QED
    BY <2>2, <2>3
<1>5. CASE StartBusy(t, r)
  <2>1. /\ runs[t] # NoRun
        /\ outcome' = [outcome EXCEPT ![runs[t]] = "aborted"]
        /\ events' = [events EXCEPT ![t] =
                         Append(Append(@, Event("aborted", runs[t])), Event("started", r))]
    BY <1>5 DEF StartBusy
  <2>2. /\ Event("aborted", runs[t]) \in RunEvent /\ Event("aborted", runs[t]).run = runs[t]
        /\ runs[t] \in Runs /\ owner[runs[t]] = t /\ t # NoSession
        /\ outcome[runs[t]] = "none"
    BY <2>1, EndOf DEF Verdicts
  <2>3. Settled
    BY <1>1, <1>2, <2>1, <2>2 DEF Settled, TypeOK, Verdicts
  <2>4. owner'[runs[t]] = t
    BY <1>1, <1>2, <2>2 DEF TypeOK
  <2>5. ASSUME NEW s \in Sessions PROVE Grows(s)
    <3>1. CASE s = t
      <4>1. events'[s] = Append(Append(events[s], Event("aborted", runs[t])),
                                Event("started", r))
        BY <1>1, <2>1, <3>1 DEF TypeOK
      <4> QED
        BY <1>2, <1>3, <2>2, <2>4, <3>1, <4>1 DEF Grows
    <3>2. CASE s # t
      BY <1>1, <2>1, <3>2 DEF Grows, TypeOK
    <3> QED
      BY <3>1, <3>2
  <2> QED
    BY <2>3, <2>5
<1> QED
  BY <1>4, <1>5 DEF Start

LEMMA AbortAllGrows ==
    ASSUME IInv, AbortAll
    PROVE  Settled /\ \A s \in Sessions : Grows(s)
<1>1. TypeOK /\ owner' = owner
  BY DEF IInv, Bookkeeping, AbortAll
<1>2. Settled
  <2> SUFFICES ASSUME NEW q \in Runs, outcome[q] \in Verdicts PROVE outcome'[q] = outcome[q]
    BY <1>1 DEF Settled
  <2>1. ASSUME NEW s \in Sessions, runs[s] # NoRun PROVE runs[s] # q
    <3>1. outcome[runs[s]] = "none"
      BY <2>1, EndOf DEF Verdicts
    <3> QED
      BY <3>1 DEF Verdicts
  <2>2. q \notin {runs[s] : s \in {t \in Sessions : runs[t] # NoRun}}
    BY <2>1
  <2> QED
    BY <2>2 DEF AbortAll
<1>3. ASSUME NEW s \in Sessions PROVE Grows(s)
  <2>1. CASE runs[s] = NoRun
    BY <2>1 DEF Grows, AbortAll
  <2>2. CASE runs[s] # NoRun
    <3>1. events'[s] = Append(events[s], Event("aborted", runs[s]))
      BY <2>2 DEF AbortAll
    <3>2. /\ Event("aborted", runs[s]) \in RunEvent
          /\ owner[Event("aborted", runs[s]).run] = s
      BY <2>2, EndOf DEF Verdicts
    <3> QED
      BY <1>1, <3>1, <3>2 DEF Grows
  <2> QED
    BY <2>1, <2>2
<1> QED
  BY <1>2, <1>3

LEMMA RunsGrow ==
    ASSUME IInv, [RunNext]_runVars
    PROVE  Settled /\ \A s \in Sessions : Grows(s)
<1>1. ASSUME NEW s \in Sessions, NEW r \in Runs, Start(s, r)
      PROVE  Settled /\ \A t \in Sessions : Grows(t)
  BY <1>1, StartGrows
<1>2. ASSUME NEW r \in Runs, TaskReturned(r) \/ TaskThrew(r)
      PROVE  Settled /\ \A t \in Sessions : Grows(t)
  <2>1. PICK v \in Verdicts : Finish(owner[r], r, v) /\ UNCHANGED owner
    BY <1>2 DEF TaskReturned, TaskThrew, Verdicts
  <2>2. owner[r] \in Sessions
    <3>1. task[r] # "none"
      BY <1>2 DEF TaskReturned, TaskThrew
    <3> QED
      BY <3>1 DEF IInv, Bookkeeping, TypeOK, TaskOfStarted
  <2>3. CASE runs[owner[r]] = r
    <3>1. runs[owner[r]] # NoRun
      BY <2>3, NoRunAssumption
    <3>2. Retire(owner[r], v)
      BY <2>1, <2>3 DEF Finish, Current
    <3> QED
      BY <2>1, <2>2, <3>1, <3>2, RetireGrows
  <2>4. CASE runs[owner[r]] # r
    BY <2>1, <2>4, NothingGrows DEF Finish, Current
  <2> QED
    BY <2>3, <2>4
<1>3. ASSUME NEW s \in Sessions, AbortSession(s)
      PROVE  Settled /\ \A t \in Sessions : Grows(t)
  <2>1. CASE runs[s] # NoRun
    BY <1>3, <2>1, RetireGrows DEF AbortSession, Abort, Verdicts
  <2>2. CASE runs[s] = NoRun
    BY <1>3, <2>2, NothingGrows DEF AbortSession, Abort
  <2> QED
    BY <2>1, <2>2
<1>4. CASE AbortAll
  BY <1>4, AbortAllGrows
<1>5. CASE Restart
  <2>1. Settled
    BY <1>5 DEF Restart, Settled, Verdicts
  <2>2. \A s \in Sessions : Grows(s)
    BY <1>5 DEF Restart, Grows
  <2> QED
    BY <2>1, <2>2
<1>6. CASE UNCHANGED runVars
  BY <1>6, NothingGrows DEF runVars
<1> QED
  BY <1>1, <1>2, <1>3, <1>4, <1>5, <1>6 DEF RunNext

LEMMA OwnEventsKeep ==
    ASSUME IInv, OwnEvents, [RunNext]_runVars
    PROVE  OwnEvents'
<1> SUFFICES ASSUME NEW s \in Sessions PROVE OwnEventsOf(s)'
  BY DEF OwnEvents
<1>1. Settled /\ Grows(s)
  BY RunsGrow
<1>2. PICK es : es = events[s] /\ es \in Seq(RunEvent)
  BY DEF IInv, Bookkeeping, TypeOK
<1>3. ASSUME NEW i \in 1 .. Len(es) PROVE owner'[es[i].run] = s
  <2>1. es[i] \in RunEvent
    BY <1>2
  <2>2. es[i].run \in Runs
    BY <2>1 DEF RunEvent
  <2>3. owner[es[i].run] = s /\ s # NoSession
    BY <1>2, NoSessionAssumption DEF OwnEvents, OwnEventsOf
  <2> QED
    BY <1>1, <2>2, <2>3 DEF Settled
<1>4. CASE events'[s] = es
  BY <1>3, <1>4 DEF OwnEventsOf
<1>5. CASE events'[s] = <<>>
  BY <1>5 DEF OwnEventsOf
<1>6. ASSUME NEW e \in RunEvent, owner'[e.run] = s, events'[s] = Append(es, e)
      PROVE  OwnEventsOf(s)'
  BY <1>2, <1>3, <1>6 DEF OwnEventsOf
<1>7. ASSUME NEW d \in RunEvent, NEW e \in RunEvent, owner'[d.run] = s, owner'[e.run] = s,
             events'[s] = Append(Append(es, d), e)
      PROVE  OwnEventsOf(s)'
  BY <1>2, <1>3, <1>7 DEF OwnEventsOf
<1> QED
  BY <1>1, <1>2, <1>4, <1>5, <1>6, <1>7 DEF Grows

-----------------------------------------------------------------------------
\* What an event says of a run of s is so: it is of a run of s, and how that run ended.
SaysSo(b, s) ==
    b # NoBody => /\ owner[b.run] = s
                  /\ b.kind \in Verdicts => outcome[b.run] = b.kind

Truthful(f, x) == f # Bootstrap => InScope(f, x) /\ SaysSo(f.body, f.session)

\* The rings and the streams carry nothing else.
Hear ==
    /\ OwnEvents
    /\ \A x \in Scopes : \A e \in Range(ring[x]) : Truthful(e, x)
    /\ \A c \in Clients : \A f \in Range(stream[c].got) \cup Range(stream[c].wire) :
          Truthful(f, ScopeOf[c])

LEMMA TruthStays ==
    ASSUME Settled, NEW f \in Frame, NEW x, Truthful(f, x)
    PROVE  Truthful(f, x)'
<1> SUFFICES ASSUME f # Bootstrap, f.body # NoBody PROVE SaysSo(f.body, f.session)'
  BY DEF Truthful, SaysSo
<1>1. f.session \in Sessions /\ f.body \in RunEvent
  BY DEF Frame, BusEvent
<1>2. f.body.run \in Runs /\ f.session # NoSession
  BY <1>1, NoSessionAssumption DEF RunEvent
<1>3. owner[f.body.run] = f.session /\ (f.body.kind \in Verdicts => outcome[f.body.run] = f.body.kind)
  BY DEF Truthful, SaysSo
<1> QED
  BY <1>2, <1>3 DEF Settled, SaysSo

\* What was on a ring or a stream before a step is true after it.
LEMMA HeardStays ==
    ASSUME Settled, Hear, Streams
    PROVE  /\ \A x \in Scopes : \A e \in Range(ring[x]) : Truthful(e, x)'
           /\ \A c \in Clients : \A f \in Range(stream[c].got) \cup Range(stream[c].wire) :
                 Truthful(f, ScopeOf[c])'
<1>1. ASSUME NEW x \in Scopes, NEW e \in Range(ring[x]) PROVE Truthful(e, x)'
  <2>1. ring[x] \in Seq(BusEvent)
    BY DEF Streams
  <2>2. e \in Frame
    BY <2>1, RangeIs DEF Frame
  <2> QED
    BY <2>2, TruthStays DEF Hear
<1>2. ASSUME NEW c \in Clients, NEW f \in Range(stream[c].got) \cup Range(stream[c].wire)
      PROVE  Truthful(f, ScopeOf[c])'
  <2>1. stream[c].got \in Seq(Frame) /\ stream[c].wire \in Seq(Frame)
    BY StreamIs, FullIs
  <2>2. f \in Frame
    BY <2>1, RangeIs
  <2>3. PICK x : x = ScopeOf[c]
    OBVIOUS
  <2>4. Truthful(f, x)
    BY <2>3 DEF Hear
  <2>5. Truthful(f, x)'
    BY <2>2, <2>4, TruthStays
  <2> QED
    BY <2>3, <2>5
<1> QED
  BY <1>1, <1>2

\* True news make true events.
LEMMA PublishHears ==
    ASSUME Streams, Settled, Hear, OwnEvents', NEW news \in Seq(NewsItem), Publish(news),
           \A i \in 1 .. Len(news) : SaysSo(news[i].body, news[i].session)'
    PROVE  Hear'
<1>1. ASSUME NEW x, NEW e \in Range(Share(news, x)) PROVE Truthful(e, x)'
  <2>1. e \in Range(Emitted(news)) /\ InScope(e, x)
    BY PublishIs
  <2>2. PICK i \in 1 .. Len(news) : e = Emitted(news)[i]
    BY <2>1 DEF Emitted, Range
  <2>3. e.session = news[i].session /\ e.body = news[i].body
    BY <2>2 DEF Emitted
  <2>4. SaysSo(news[i].body, news[i].session)'
    OBVIOUS
  <2>5. SaysSo(e.body, e.session)'
    BY <2>3, <2>4
  <2> QED
    BY <2>1, <2>5 DEF Truthful
<1>2. ASSUME NEW x \in Scopes, NEW e \in Range(ring'[x]) PROVE Truthful(e, x)'
  BY <1>1, HeardStays, PublishIs
<1>3. ASSUME NEW c \in Clients,
             NEW f \in Range(stream'[c].got) \cup Range(stream'[c].wire)
      PROVE  Truthful(f, ScopeOf[c])'
  <2>1. PICK s, ns : s = stream[c] /\ ns = Share(news, ScopeOf[c])
    OBVIOUS
  <2>2. s \in StreamType /\ s.got \in Seq(Frame) /\ s.wire \in Seq(Frame)
    BY <2>1, StreamIs, FullIs
  <2>3. ns \in Seq(Frame)
    <3>1. Batch(ns, counter, counter', epoch)
      BY <2>1, PublishIs
    <3>2. ns \in Seq(BusEvent)
      BY <3>1 DEF Batch
    <3> QED
      BY <3>2 DEF Frame
  <2>4. stream'[c] = IF s.sub THEN [s EXCEPT !.wire = s.wire \o ns] ELSE s
    BY <2>1, PublishIs
  <2>5. f \in Range(s.got) \/ f \in Range(s.wire) \/ f \in Range(ns)
    <3>1. PICK w : w = s.wire \o ns
      OBVIOUS
    <3>2. \A g : g \in Range(w) <=> g \in Range(s.wire) \/ g \in Range(ns)
      BY <2>2, <2>3, <3>1, RangeOfJoined
    <3>3. stream'[c] = IF s.sub THEN [s EXCEPT !.wire = w] ELSE s
      BY <2>4, <3>1
    <3>4. stream'[c].got = s.got /\ stream'[c].wire \in {s.wire, w}
      BY <2>2, <3>3 DEF StreamType
    <3> HIDE <2>4, <3>1, <3>3
    <3> QED
      BY <3>2, <3>4
  <2> QED
    BY <1>1, <2>1, <2>5, HeardStays
<1> QED
  BY <1>2, <1>3 DEF Hear

-----------------------------------------------------------------------------
\* The steps of the table publish true news.
LEMMA NewsTrue ==
    ASSUME IInv, IInv', OwnEvents', NEW s \in Sessions, NEW news, news = News(s)
    PROVE  /\ news \in Seq(NewsItem)
           /\ \A i \in 1 .. Len(news) : SaysSo(news[i].body, news[i].session)'
<1>1. TypeOK /\ TypeOK'
  BY DEF IInv, Bookkeeping
<1>2. news \in Seq(NewsItem)
  BY <1>1, NewsIs
<1>3. PICK es, a, b : es = events'[s] /\ a = Len(events[s]) /\ b = Len(events'[s])
  OBVIOUS
<1>4. es \in Seq(RunEvent) /\ a \in Nat /\ b \in Nat /\ Len(es) = b
  <2>1. events[s] \in Seq(RunEvent) /\ events'[s] \in Seq(RunEvent)
    BY <1>1 DEF TypeOK
  <2> QED
    BY <1>3, <2>1
<1>5. news = [i \in 1 .. b - a |-> [session |-> s, body |-> es[a + i]]]
  BY <1>3 DEF News
<1>6. ASSUME NEW i \in 1 .. Len(news) PROVE SaysSo(news[i].body, news[i].session)'
  <2>1. i \in 1 .. b - a
    <3> HIDE <1>1, <1>3
    <3>1. b - a \in Int /\ i \in 1 .. Len(news) /\ Len(news) \in Nat
      BY <1>2, <1>4
    <3>2. DOMAIN news = 1 .. b - a
      BY <1>5
    <3>3. DOMAIN news = 1 .. Len(news)
      <4> HIDE <1>5
      <4> QED
        BY <1>2
    <3> QED
      BY <3>2, <3>3
  <2>2. PICK k \in 1 .. b : k = a + i
    BY <1>4, <2>1
  <2>3. news[i].session = s /\ news[i].body = es[k]
    BY <1>5, <2>1, <2>2
  <2>4. es[k] \in RunEvent
    BY <1>4
  <2>5. owner'[es[k].run] = s
    BY <1>3, <1>4 DEF OwnEvents, OwnEventsOf
  <2>6. es[k].kind \in Verdicts => outcome'[es[k].run] = es[k].kind
    <3>1. "started" \notin Verdicts
      BY DEF Verdicts
    <3>2. EventsBracketRuns'
      BY DEF IInv
    <3> QED
      BY <1>3, <1>4, <3>1, <3>2 DEF EventsBracketRuns, Started
  <2> QED
    BY <2>3, <2>5, <2>6 DEF SaysSo
<1> QED
  BY <1>2, <1>6

LEMMA NewsHear ==
    ASSUME IInv, Streams, Hear, NEW s \in Sessions, [RunNext]_runVars, Publish(News(s))
    PROVE  Hear'
<1>1. IInv' /\ Settled /\ OwnEvents'
  BY NextIInv, RunsGrow, OwnEventsKeep DEF Hear
<1>2. PICK news : news = News(s)
  OBVIOUS
<1>3. /\ news \in Seq(NewsItem) /\ Publish(news)
      /\ \A i \in 1 .. Len(news) : SaysSo(news[i].body, news[i].session)'
  BY <1>1, <1>2, NewsTrue
<1> QED
  BY <1>1, <1>3, PublishHears

LEMMA AbortRunsHear ==
    ASSUME IInv, Streams, Hear, AbortRuns
    PROVE  Hear'
<1>1. [RunNext]_runVars /\ AbortAll
  BY DEF AbortRuns, RunNext
<1>2. IInv' /\ Settled /\ OwnEvents'
  BY <1>1, NextIInv, RunsGrow, OwnEventsKeep DEF Hear
<1>3. PICK busy : busy = {s \in Sessions : runs[s] # NoRun}
  OBVIOUS
<1>4. PICK order \in SetToSeqs(busy) :
         Publish([i \in DOMAIN order |->
                     [session |-> order[i], body |-> Event("aborted", runs[order[i]])]])
  BY <1>3 DEF AbortRuns
<1>5. PICK k \in Nat : order \in [1 .. k -> busy]
  <2>1. IsFiniteSet(busy)
    BY <1>3, FS_Subset, EventStreamAssumption DEF EventStreamAssumption
  <2>2. Cardinality(busy) \in Nat
    BY <2>1, FS_CardinalityType
  <2> QED
    BY <2>2 DEF SetToSeqs
<1>6. PICK news : news = [i \in 1 .. k |-> [session |-> order[i],
                                            body |-> Event("aborted", runs[order[i]])]]
  OBVIOUS
<1>7. ASSUME NEW i \in 1 .. k
      PROVE  news[i] \in NewsItem /\ SaysSo(news[i].body, news[i].session)'
  <2>1. PICK t \in Sessions : t = order[i] /\ runs[t] # NoRun
    BY <1>3, <1>5
  <2>2. PICK r \in Runs : r = runs[t]
    BY <2>1, EndOf DEF Verdicts
  <2>3. PICK b : b = Event("aborted", r)
    OBVIOUS
  <2>4. b \in RunEvent /\ b.run = r /\ b.kind = "aborted" /\ owner[r] = t /\ t # NoSession
    BY <2>1, <2>2, <2>3, EndOf DEF Verdicts, Event
  <2>5. owner'[r] = t
    BY <1>2, <2>2, <2>4 DEF Settled
  <2>6. outcome'[r] = "aborted"
    BY <1>1, <2>1, <2>2 DEF AbortAll
  <2>7. SaysSo(b, t)'
    BY <2>4, <2>5, <2>6 DEF SaysSo
  <2>8. news[i] = [session |-> t, body |-> b]
    BY <1>6, <2>1, <2>2, <2>3
  <2>9. news[i].session = t /\ news[i].body = b
    BY <2>8
  <2> QED
    BY <2>1, <2>4, <2>7, <2>8, <2>9 DEF NewsItem
<1>8. news \in Seq(NewsItem) /\ Len(news) = k
  BY <1>6, <1>7
<1>9. Publish(news)
  BY <1>4, <1>5, <1>6
<1>10. \A i \in 1 .. Len(news) : SaysSo(news[i].body, news[i].session)'
  BY <1>7, <1>8
<1> QED
  BY <1>2, <1>8, <1>9, <1>10, PublishHears

-----------------------------------------------------------------------------
LEMMA OtherHears ==
    ASSUME IInv, Streams, Hear, NEW s \in Sessions, Other(s)
    PROVE  Hear'
<1>1. Settled /\ OwnEvents'
  BY RunsGrow, OwnEventsKeep DEF Hear, Other
<1>2. PICK news : news = <<[session |-> s, body |-> NoBody]>>
  OBVIOUS
<1>3. [session |-> s, body |-> NoBody] \in NewsItem
  BY DEF NewsItem
<1>4. news \in Seq(NewsItem) /\ Publish(news)
  BY <1>2, <1>3 DEF Other
<1>5. \A i \in 1 .. Len(news) : SaysSo(news[i].body, news[i].session)'
  <2>1. \A i \in 1 .. Len(news) : news[i].body = NoBody
    BY <1>2
  <2> QED
    BY <2>1 DEF SaysSo
<1> QED
  BY <1>1, <1>4, <1>5, PublishHears

LEMMA RestartHears ==
    ASSUME IInv, Streams, Hear, ServerRestarts
    PROVE  Hear'
<1>1. Settled /\ OwnEvents'
  BY RunsGrow, OwnEventsKeep DEF Hear, ServerRestarts, RunNext
<1>2. ASSUME NEW x \in Scopes, NEW e \in Range(ring'[x]) PROVE FALSE
  <2>1. ring'[x] = <<>>
    BY DEF ServerRestarts
  <2> QED
    BY <1>2, <2>1 DEF Range
<1>3. ASSUME NEW c \in Clients PROVE stream'[c].got = stream[c].got /\ stream'[c].wire = stream[c].wire
  <2>1. PICK s : s = stream[c] /\ s \in StreamType
    BY StreamIs
  <2>2. stream'[c] = [s EXCEPT !.up = FALSE, !.sub = FALSE]
    BY <2>1 DEF ServerRestarts
  <2> QED
    BY <2>1, <2>2 DEF StreamType
<1> QED
  BY <1>1, <1>2, <1>3, HeardStays DEF Hear

LEMMA TableHears ==
    ASSUME IInv, Streams, Hear, TableStep
    PROVE  Hear'
<1>1. ASSUME NEW s \in Sessions, NEW r \in Runs, StartRun(s, r) PROVE Hear'
  BY <1>1, NewsHear DEF StartRun, RunNext
<1>2. ASSUME NEW r \in Runs, RunReturns(r) \/ RunThrows(r) PROVE Hear'
  <2>1. TaskReturned(r) \/ TaskThrew(r)
    BY <1>2 DEF RunReturns, RunThrows
  <2>2. owner[r] \in Sessions
    <3>1. task[r] # "none"
      BY <2>1 DEF TaskReturned, TaskThrew
    <3> QED
      BY <3>1 DEF IInv, Bookkeeping, TypeOK, TaskOfStarted
  <2>3. Publish(News(owner[r]))
    BY <1>2 DEF RunReturns, RunThrows
  <2>4. [RunNext]_runVars
    BY <2>1 DEF RunNext
  <2> QED
    BY <2>2, <2>3, <2>4, NewsHear
<1>3. ASSUME NEW s \in Sessions, AbortRun(s) PROVE Hear'
  BY <1>3, NewsHear DEF AbortRun, RunNext
<1>4. ASSUME NEW s \in Sessions, Other(s) PROVE Hear'
  BY <1>4, OtherHears
<1>5. CASE AbortRuns
  BY <1>5, AbortRunsHear
<1>6. CASE ServerRestarts
  BY <1>6, RestartHears
<1> QED
  BY <1>1, <1>2, <1>3, <1>4, <1>5, <1>6 DEF TableStep

\* A step of one stream brings nothing that was not on it or in the ring.
LEMMA OneHears ==
    ASSUME IInv, Streams, Hear, UNCHANGED runVars, NEW c \in Clients, NEW s2,
           stream' = [stream EXCEPT ![c] = s2], ring' = ring,
           \A f \in Range(s2.got) \cup Range(s2.wire) :
              \/ f \in Range(stream[c].got) \cup Range(stream[c].wire)
              \/ f \in Range(ring[ScopeOf[c]]) \/ f = Bootstrap
    PROVE  Hear'
<1>1. Settled /\ OwnEvents'
  BY RunsGrow, OwnEventsKeep DEF Hear
<1>2. \A x \in Scopes : \A e \in Range(ring'[x]) : Truthful(e, x)'
  BY <1>1, HeardStays
<1>3. ASSUME NEW d \in Clients, NEW f \in Range(stream'[d].got) \cup Range(stream'[d].wire)
      PROVE  Truthful(f, ScopeOf[d])'
  <2>1. CASE d # c
    <3>1. stream'[d] = stream[d]
      BY <2>1 DEF Streams
    <3> QED
      BY <1>1, <1>3, <3>1, HeardStays
  <2>2. CASE d = c
    <3>1. stream'[d] = s2
      BY <2>2 DEF Streams
    <3>2. CASE f = Bootstrap
      BY <3>2 DEF Truthful
    <3>3. CASE f # Bootstrap
      BY <1>1, <1>3, <2>2, <3>1, <3>3, HeardStays, ScopeIs
    <3> QED
      BY <3>2, <3>3
  <2> QED
    BY <2>1, <2>2
<1> QED
  BY <1>1, <1>2, <1>3 DEF Hear

LEMMA EmptyRange == \A f : f \notin Range(<<>>)
  BY DEF Range

LEMMA ServeHears ==
    ASSUME IInv, Streams, Hear, NEW c \in Clients, Serve(c)
    PROVE  Hear'
<1>1. PICK s, rp, old : /\ s = stream[c] /\ rp = Replay(ScopeOf[c], s.lastId)
                        /\ old = (s.lastId \notin {NoId, Bootstrap}
                                   /\ (s.stale \/ s.lastId.epoch < epoch))
  OBVIOUS
<1>2. s \in StreamType
  BY <1>1, StreamIs
<1>3. /\ Batch(rp, 0, counter, epoch)
      /\ \A e : e \in Range(rp) => e \in Range(ring[ScopeOf[c]])
  BY <1>1, StreamIs, ReplayIs
<1>4. rp \in Seq(Frame) /\ <<Bootstrap>> \in Seq(Frame)
  <2>1. rp \in Seq(BusEvent)
    BY <1>3 DEF Batch
  <2> QED
    BY <2>1 DEF Frame
<1>5. PICK w : w = Append(rp, Bootstrap)
  OBVIOUS
<1>6. \A f \in Range(w) : f \in Range(rp) \/ f = Bootstrap
  <2> SUFFICES ASSUME NEW f \in Range(w) PROVE f \in Range(rp) \/ f = Bootstrap
    OBVIOUS
  <2>1. w \in Seq(Frame)
    BY <1>4, <1>5 DEF Frame
  <2>2. PICK i \in 1 .. Len(w) : w[i] = f
    BY <2>1, RangeIs
  <2>3. f = Bootstrap \/ (i \in 1 .. Len(rp) /\ rp[i] = f)
    BY <1>4, <1>5, <2>2
  <2> QED
    BY <1>4, <2>3, RangeIs
<1>7. PICK s2 : s2 = [s EXCEPT !.wire = w, !.sub = TRUE, !.stale = old]
  OBVIOUS
<1>8. stream' = [stream EXCEPT ![c] = s2] /\ ring' = ring /\ UNCHANGED runVars
  BY <1>1, <1>5, <1>7 DEF Serve
<1>9. s2.got = s.got /\ s2.wire = w
  BY <1>2, <1>7 DEF StreamType
<1> QED
  BY <1>1, <1>3, <1>6, <1>8, <1>9, OneHears

\* Every other step of a stream leaves or loses what was on it, or moves a frame to what
\* was read.
LEMMA StreamHears ==
    ASSUME IInv, Streams, Hear, NEW c \in Clients,
           \/ Connected(c) \/ Receive(c) \/ FetchFails(c) \/ PumpEnds(c) \/ Reconnect(c)
           \/ Lose(c) \/ ConnectTimeout(c) \/ Open(c) \/ CloseStream(c)
    PROVE  Hear'
<1>1. PICK s, t : s = stream[c] /\ t = Retry(s)
  OBVIOUS
<1>2. s \in StreamType /\ s.got \in Seq(Frame) /\ s.wire \in Seq(Frame)
  BY <1>1, StreamIs, FullIs
<1>3. t.got = s.got /\ t.wire = <<>>
  BY <1>1, <1>2, RetryIs
<1>4. t \in StreamType
  BY <1>1, <1>2, RetryIs
<1>5. ring' = ring /\ UNCHANGED runVars
  BY DEF Connected, Receive, FetchFails, PumpEnds, Reconnect, Lose, ConnectTimeout, Open,
         CloseStream
<1>6. ASSUME NEW s2, stream' = [stream EXCEPT ![c] = s2], s2.got = s.got, s2.wire \in {s.wire, <<>>}
      PROVE  Hear'
  BY <1>1, <1>5, <1>6, OneHears, EmptyRange
<1>7. CASE Connected(c)
  <2>1. PICK s2 : s2 = [s EXCEPT !.phase = "open",
                                 !.ready = IF s.settled THEN s.ready ELSE "resolved",
                                 !.settled = TRUE]
    OBVIOUS
  <2>2. stream' = [stream EXCEPT ![c] = s2]
    BY <1>1, <1>7, <2>1 DEF Connected
  <2> QED
    BY <1>2, <1>6, <2>1, <2>2 DEF StreamType
<1>8. CASE Receive(c)
  <2>1. PICK f, w, g : f = Head(s.wire) /\ w = Tail(s.wire) /\ g = Append(s.got, f)
    OBVIOUS
  <2>2. PICK s2 : s2 = [s EXCEPT !.wire = w, !.lastId = f, !.got = g]
    OBVIOUS
  <2>3. stream' = [stream EXCEPT ![c] = s2] /\ s.wire # <<>>
    BY <1>1, <1>8, <2>1, <2>2 DEF Receive
  <2>4. s2.got = g /\ s2.wire = w
    BY <1>2, <2>2 DEF StreamType
  <2>5. f \in Range(s.wire) /\ \A h \in Range(w) : h \in Range(s.wire)
    <3>1. /\ w \in Seq(Frame) /\ Len(s.wire) \in Nat /\ 1 \in 1 .. Len(s.wire) /\ f = s.wire[1]
          /\ \A i \in 1 .. Len(w) : i + 1 \in 1 .. Len(s.wire) /\ w[i] = s.wire[i + 1]
      BY <1>2, <2>1, <2>3
    <3>2. f \in Range(s.wire)
      BY <1>2, <3>1, RangeIs
    <3>3. ASSUME NEW h \in Range(w) PROVE h \in Range(s.wire)
      <4>1. PICK i \in 1 .. Len(w) : w[i] = h
        BY <3>1, RangeIs
      <4>2. i + 1 \in 1 .. Len(s.wire) /\ s.wire[i + 1] = h
        BY <3>1, <4>1
      <4> QED
        BY <1>2, <4>2, RangeIs
    <3> QED
      BY <3>2, <3>3
  <2>6. \A h \in Range(g) : h \in Range(s.got) \/ h = f
    <3>1. f \in Frame
      BY <1>2, <2>1, <2>3
    <3>2. g \in Seq(Frame)
      BY <1>2, <2>1, <3>1
    <3> SUFFICES ASSUME NEW h \in Range(g) PROVE h \in Range(s.got) \/ h = f
      OBVIOUS
    <3>3. PICK i \in 1 .. Len(g) : g[i] = h
      BY <3>2, RangeIs
    <3>4. h = f \/ (i \in 1 .. Len(s.got) /\ s.got[i] = h)
      BY <1>2, <2>1, <3>3
    <3> QED
      BY <1>2, <3>4, RangeIs
  <2> HIDE <2>1, <2>2
  <2> QED
    BY <1>1, <1>5, <2>3, <2>4, <2>5, <2>6, OneHears
<1>9. CASE FetchFails(c)
  <2>1. PICK s2 : s2 = [t EXCEPT !.settled = TRUE]
    OBVIOUS
  <2>2. stream' = [stream EXCEPT ![c] = s2]
    BY <1>1, <1>9, <2>1 DEF FetchFails, Streams
  <2> QED
    BY <1>3, <1>4, <1>6, <2>1, <2>2 DEF StreamType
<1>10. CASE PumpEnds(c)
  <2>1. stream' = [stream EXCEPT ![c] = t]
    BY <1>1, <1>10 DEF PumpEnds, Streams
  <2> QED
    BY <1>3, <1>6, <2>1
<1>11. CASE Reconnect(c) \/ Open(c)
  <2>1. PICK s2 : s2 = [s EXCEPT !.phase = "fetching", !.up = TRUE]
    OBVIOUS
  <2>2. stream' = [stream EXCEPT ![c] = s2]
    BY <1>1, <1>11, <2>1 DEF Reconnect, Open
  <2> QED
    BY <1>2, <1>6, <2>1, <2>2 DEF StreamType
<1>12. CASE Lose(c)
  <2>1. PICK n \in 0 .. Len(s.wire) :
           stream' = [stream EXCEPT ![c].up = FALSE, ![c].sub = FALSE,
                                    ![c].wire = SubSeq(s.wire, 1, n)]
    BY <1>1, <1>12 DEF Lose
  <2>2. PICK w : w = SubSeq(s.wire, 1, n)
    OBVIOUS
  <2>3. PICK s2 : s2 = [s EXCEPT !.up = FALSE, !.sub = FALSE, !.wire = w]
    OBVIOUS
  <2>4. stream' = [stream EXCEPT ![c] = s2]
    BY <1>1, <2>1, <2>2, <2>3
  <2>5. s2.got = s.got /\ s2.wire = w
    BY <1>2, <2>3 DEF StreamType
  <2>6. \A h \in Range(w) : h \in Range(s.wire)
    <3>1. w \in Seq(Frame) /\ \A i \in 1 .. Len(w) : i \in 1 .. Len(s.wire) /\ w[i] = s.wire[i]
      BY <1>2, <2>2
    <3> HIDE <2>2
    <3> QED
      BY <1>2, <3>1, RangeIs
  <2> HIDE <2>1, <2>2, <2>3
  <2> QED
    BY <1>1, <1>5, <2>4, <2>5, <2>6, OneHears
<1>13. CASE ConnectTimeout(c)
  <2>1. PICK s2 : s2 = [t EXCEPT !.settled = TRUE, !.ready = "rejected"]
    OBVIOUS
  <2>2. stream' = [stream EXCEPT ![c] = s2]
    BY <1>1, <1>13, <2>1 DEF ConnectTimeout, Streams
  <2> QED
    BY <1>3, <1>4, <1>6, <2>1, <2>2 DEF StreamType
<1>14. CASE CloseStream(c)
  <2>1. PICK s2 : s2 = Closed(s)
    OBVIOUS
  <2>2. stream' = [stream EXCEPT ![c] = s2]
    BY <1>1, <1>14, <2>1 DEF CloseStream, Streams
  <2> QED
    BY <1>2, <1>6, <2>1, <2>2 DEF StreamType, Closed
<1> QED
  BY <1>7, <1>8, <1>9, <1>10, <1>11, <1>12, <1>13, <1>14

-----------------------------------------------------------------------------
\* Of a call of promptAndWait: it is about a session, and once it has returned its stream is
\* closed and the result is what the first end on it said.
Told(c) ==
    /\ wait[c].pc # "none" => ScopeOf[c] # All
    /\ wait[c].pc = "returned" =>
          /\ stream[c].phase = "closed" /\ Ends(c) # {}
          /\ wait[c].result = stream[c].got[Min(Ends(c))].body.run

\* Nothing more is read from a stream that is closed.
StaysClosed(c) ==
    stream[c].phase = "closed" => stream'[c].phase = "closed" /\ stream'[c].got = stream[c].got

LEMMA PublishStaysClosed ==
    ASSUME Streams, NEW news, Publish(news), NEW c \in Clients
    PROVE  StaysClosed(c)
<1>1. PICK s, w : /\ s = stream[c] /\ s \in StreamType
                  /\ stream'[c] = IF s.sub THEN [s EXCEPT !.wire = w] ELSE s
  <2> DEFINE of(x) ==
        LET es == [i \in DOMAIN news |->
                      [seq |-> counter + i, epoch |-> epoch,
                       session |-> news[i].session, body |-> news[i].body]]
        IN  Filter(es, {e \in Range(es) : InScope(e, x)})
  <2>1. stream'[c] = IF stream[c].sub THEN [stream[c] EXCEPT !.wire = @ \o of(ScopeOf[c])]
                                      ELSE stream[c]
    BY DEF Publish
  <2> HIDE DEF of
  <2>2. PICK s, w : s = stream[c] /\ w = s.wire \o of(ScopeOf[c])
    OBVIOUS
  <2>3. s \in StreamType
    BY <2>2, StreamIs
  <2>4. stream'[c] = IF s.sub THEN [s EXCEPT !.wire = w] ELSE s
    BY <2>1, <2>2
  <2> QED
    BY <2>2, <2>3, <2>4
<1>2. stream'[c].phase = s.phase /\ stream'[c].got = s.got
  BY <1>1 DEF StreamType
<1> QED
  BY <1>1, <1>2 DEF StaysClosed

LEMMA TableStaysClosed ==
    ASSUME Streams, TableStep, NEW c \in Clients
    PROVE  StaysClosed(c)
<1>1. CASE ServerRestarts
  <2>1. PICK s : s = stream[c] /\ s \in StreamType
    BY StreamIs
  <2>2. stream'[c] = [s EXCEPT !.up = FALSE, !.sub = FALSE]
    BY <1>1, <2>1 DEF ServerRestarts
  <2> QED
    BY <2>1, <2>2 DEF StreamType, StaysClosed
<1>2. CASE ~ServerRestarts
  <2>1. \E news : Publish(news)
    BY <1>2 DEF TableStep, StartRun, RunReturns, RunThrows, AbortRun, AbortRuns, Other
  <2> QED
    BY <2>1, PublishStaysClosed
<1> QED
  BY <1>1, <1>2

LEMMA ClientStaysClosed ==
    ASSUME Streams, NEW d \in Clients, NEW c \in Clients,
           ClientStep(d) \/ Lose(d) \/ ConnectTimeout(d) \/ Open(d) \/ CloseStream(d)
    PROVE  StaysClosed(c)
<1> SUFFICES ASSUME stream[c].phase = "closed"
             PROVE  stream'[c].phase = "closed" /\ stream'[c].got = stream[c].got
  BY DEF StaysClosed
<1>1. stream \in [Clients -> StreamType]
  BY DEF Streams
<1>2. CASE d # c
  <2>1. stream'[c] = stream[c]
    BY <1>1, <1>2 DEF ClientStep, Serve, Connected, Receive, FetchFails, PumpEnds, Reconnect,
                      Lose, ConnectTimeout, Open, CloseStream
  <2> QED
    BY <2>1
<1>3. CASE d = c
  <2>1. CASE Lose(c)
    <3>1. PICK w : stream' = [stream EXCEPT ![c].up = FALSE, ![c].sub = FALSE, ![c].wire = w]
      BY <2>1 DEF Lose
    <3> QED
      BY <1>1, <3>1 DEF StreamType
  <2>2. CASE CloseStream(c)
    <3>1. PICK s : s = stream[c] /\ s \in StreamType
      BY <1>1
    <3>2. stream'[c] = Closed(s)
      BY <1>1, <2>2, <3>1 DEF CloseStream
    <3> QED
      BY <3>1, <3>2 DEF Closed, StreamType
  <2>3. CASE ClientStep(c) \/ ConnectTimeout(c) \/ Open(c)
    BY <2>3 DEF ClientStep, Serve, Connected, Receive, FetchFails, PumpEnds, Reconnect,
                ConnectTimeout, Open
  <2> QED
    BY <1>3, <2>1, <2>2, <2>3
<1> QED
  BY <1>2, <1>3

\* A call that is not at work stays as it is told.
LEMMA ToldStays ==
    ASSUME NEW c \in Clients, Told(c), StaysClosed(c), wait'[c] = wait[c]
    PROVE  Told(c)'
<1>1. CASE wait[c].pc = "returned"
  <2>1. stream'[c].phase = "closed" /\ stream'[c].got = stream[c].got
    BY <1>1 DEF Told, StaysClosed
  <2>2. Ends(c)' = Ends(c)
    BY <2>1 DEF Ends
  <2>3. Min(Ends(c))' = Min(Ends(c))
    BY <2>2
  <2> QED
    BY <1>1, <2>1, <2>2, <2>3 DEF Told
<1>2. CASE wait[c].pc # "returned"
  BY <1>2 DEF Told
<1> QED
  BY <1>1, <1>2

LEMMA ToldBusy ==
    ASSUME NEW c \in Clients, ScopeOf[c] # All, wait'[c].pc # "returned"
    PROVE  Told(c)'
  BY DEF Told

LEMMA PollTells ==
    ASSUME Streams, Waits, NEW c \in Clients, Told(c), Poll(c)
    PROVE  Told(c)'
<1>1. PICK s : s = stream[c] /\ s \in StreamType
  BY StreamIs
<1>2. stream'[c] = Closed(s)
  BY <1>1 DEF Poll, CloseStream, Streams
<1>3. stream'[c].phase = "closed" /\ stream'[c].got = stream[c].got
  BY <1>1, <1>2 DEF Closed, StreamType
<1>4. Ends(c)' = Ends(c) /\ Ends(c) # {}
  BY <1>3 DEF Ends, Poll
<1>5. Min(Ends(c))' = Min(Ends(c))
  BY <1>4
<1>6. PICK v : v = stream[c].got[Min(Ends(c))].body.run
  OBVIOUS
<1>7. wait'[c].result = v /\ ScopeOf[c] # All
  <2>1. wait' = [wait EXCEPT ![c].pc = "returned", ![c].result = v]
    BY <1>6 DEF Poll
  <2> QED
    BY <2>1 DEF Poll, Waits, Told
<1> QED
  BY <1>3, <1>4, <1>5, <1>6, <1>7 DEF Told

AllTold == \A c \in Clients : Told(c)

LEMMA NextHears ==
    ASSUME IInv, Streams, Waits, Hear, AllTold, [Next]_vars
    PROVE  Hear' /\ AllTold'
<1>1. CASE TableStep /\ UNCHANGED wait
  BY <1>1, TableHears, TableStaysClosed, ToldStays DEF AllTold
<1>2. ASSUME NEW d \in Clients,
             ClientStep(d) \/ Lose(d) \/ ConnectTimeout(d) \/ Open(d) \/ CloseStream(d)
      PROVE  Hear' /\ \A c \in Clients : StaysClosed(c)
  BY <1>2, ServeHears, StreamHears, ClientStaysClosed DEF ClientStep
<1>3. ASSUME NEW d \in Clients,
             (ClientStep(d) \/ Lose(d) \/ ConnectTimeout(d)) /\ UNCHANGED wait
      PROVE  Hear' /\ AllTold'
  BY <1>2, <1>3, ToldStays DEF AllTold
<1>4. ASSUME NEW d \in Clients, OpenAlone(d) \/ CloseAlone(d)
      PROVE  Hear' /\ AllTold'
  BY <1>2, <1>4, ToldStays DEF AllTold, OpenAlone, CloseAlone
<1>5. ASSUME NEW d \in Clients, NEW r \in Runs, Post(d, r)
      PROVE  Hear' /\ AllTold'
  <2>1. ScopeOf[d] \in Sessions /\ ScopeOf[d] # All /\ StartRun(ScopeOf[d], r)
    BY <1>5, EventStreamAssumption DEF Post, EventStreamAssumption
  <2>2. TableStep
    BY <2>1 DEF TableStep
  <2>3. Hear' /\ \A c \in Clients : StaysClosed(c)
    BY <2>2, TableHears, TableStaysClosed
  <2>4. wait'[d].pc = "posted" /\ \A c \in Clients \ {d} : wait'[c] = wait[c]
    BY <1>5 DEF Post, Waits
  <2>5. ASSUME NEW c \in Clients PROVE Told(c)'
    BY <2>1, <2>3, <2>4, ToldStays, ToldBusy DEF AllTold
  <2> QED
    BY <2>3, <2>5 DEF AllTold
<1>6. ASSUME NEW d \in Clients, Subscribe(d) \/ Deadline(d) \/ ReadySettles(d)
      PROVE  Hear' /\ AllTold'
  <2>1. Hear' /\ \A c \in Clients : StaysClosed(c)
    <3>1. CASE ReadySettles(d)
      <4>1. UNCHANGED <<runVars, busVars>>
        BY <3>1 DEF ReadySettles
      <4>2. Settled /\ OwnEvents'
        BY <4>1, RunsGrow, OwnEventsKeep DEF Hear
      <4>3. ring' = ring /\ stream' = stream
        BY <4>1 DEF busVars
      <4>4. Hear'
        BY <4>2, <4>3, HeardStays DEF Hear
      <4> QED
        BY <4>3, <4>4 DEF StaysClosed
    <3>2. CASE Subscribe(d) \/ Deadline(d)
      BY <1>2, <3>2 DEF Subscribe, Deadline
    <3> QED
      BY <1>6, <3>1, <3>2
  <2>2. wait[d].pc # "none" /\ wait'[d].pc # "returned" /\ \A c \in Clients \ {d} : wait'[c] = wait[c]
    BY <1>6 DEF Subscribe, Deadline, ReadySettles, Waits
  <2>3. ScopeOf[d] # All
    BY <2>2 DEF AllTold, Told
  <2>4. ASSUME NEW c \in Clients PROVE Told(c)'
    BY <2>1, <2>2, <2>3, ToldStays, ToldBusy DEF AllTold
  <2> QED
    BY <2>1, <2>4 DEF AllTold
<1>7. ASSUME NEW d \in Clients, Poll(d)
      PROVE  Hear' /\ AllTold'
  <2>1. Hear' /\ \A c \in Clients : StaysClosed(c)
    BY <1>2, <1>7 DEF Poll
  <2>2. \A c \in Clients \ {d} : wait'[c] = wait[c]
    BY <1>7 DEF Poll, Waits
  <2>3. ASSUME NEW c \in Clients PROVE Told(c)'
    BY <1>7, <2>1, <2>2, ToldStays, PollTells DEF AllTold
  <2> QED
    BY <2>1, <2>3 DEF AllTold
<1>8. CASE UNCHANGED vars
  <2>1. UNCHANGED <<runVars, busVars, wait>>
    BY <1>8 DEF vars
  <2>2. Settled /\ OwnEvents'
    BY <2>1, RunsGrow, OwnEventsKeep DEF Hear
  <2>3. ring' = ring /\ stream' = stream
    BY <2>1 DEF busVars
  <2>4. Hear'
    BY <2>2, <2>3, HeardStays DEF Hear
  <2>5. ASSUME NEW c \in Clients PROVE Told(c)'
    BY <2>1, <2>3, ToldStays DEF AllTold, StaysClosed
  <2> QED
    BY <2>4, <2>5 DEF AllTold
<1> QED
  BY <1>1, <1>3, <1>4, <1>5, <1>6, <1>7, <1>8 DEF Next, WaitStep

LEMMA InitHears == Init => Hear /\ AllTold
<1> SUFFICES ASSUME Init PROVE Hear /\ AllTold
  OBVIOUS
<1>1. \A s \in Sessions : events[s] = <<>>
  BY DEF Init, RunInit
<1>2. \A x \in Scopes : ring[x] = <<>>
  BY DEF Init, BusInit
<1>3. \A c \in Clients : stream[c].got = <<>> /\ stream[c].wire = <<>>
  BY DEF Init, BusInit, Unopened
<1>4. OwnEvents
  BY <1>1 DEF OwnEvents, OwnEventsOf
<1>5. Hear
  BY <1>2, <1>3, <1>4, EmptyRange DEF Hear
<1>6. AllTold
  BY DEF Init, NoWait, AllTold, Told
<1> QED
  BY <1>5, <1>6

\* What promptAndWait reports is true, for any sessions, runs and clients, and whatever was
\* lost, replayed or restarted in between: its session's run ended as it says, even where
\* that is not the run it started (client.ts).  Every event on a ring or a stream is of a
\* run of its session and, if it is an end, is how that run ended (Hear); a run's session
\* and end are settled once (RunsGrow); and the stream of a call that has returned is
\* closed, so that the first end on it stays the first (Told).
THEOREM PromptReportsTrue == Spec => []ReportIsTrue
<1>1. Init => Hear /\ AllTold
  BY InitHears
<1>2. (IInv /\ Streams /\ Waits) /\ (Hear /\ AllTold) /\ [Next]_vars => (Hear /\ AllTold)'
  BY NextHears
<1>3. Streams /\ Hear /\ AllTold => ReportIsTrue
  <2> SUFFICES ASSUME Streams, Hear, AllTold, NEW c \in Clients, wait[c].pc = "returned"
               PROVE  LET e == stream[c].got[Min(Ends(c))].body
                      IN  /\ e.run = wait[c].result
                          /\ owner[e.run] = ScopeOf[c]
                          /\ outcome[e.run] = e.kind
    BY DEF ReportIsTrue
  <2>1. PICK got : got = stream[c].got /\ got \in Seq(Frame)
    BY StreamIs, FullIs
  <2>2. PICK T : T = Ends(c) /\ T # {} /\ T = {i \in 1 .. Len(got) : IsEnd(got[i])}
    <3>1. Ends(c) # {}
      BY DEF AllTold, Told
    <3>2. Ends(c) = {i \in 1 .. Len(got) : IsEnd(got[i])}
      BY <2>1 DEF Ends
    <3> QED
      BY <3>1, <3>2
  <2>3. PICK m \in T : m = Min(T)
    <3>1. \E x \in T : \A y \in T : x <= y
      <4>1. T \subseteq Nat /\ T # {}
        BY <2>2
      <4> QED
        BY <4>1, Least
    <3> QED
      BY <3>1 DEF Min
  <2>4. PICK f : f = got[m]
    OBVIOUS
  <2>5. IsEnd(f) /\ f \in Range(got)
    BY <2>1, <2>2, <2>4, RangeIs
  <2>6. InScope(f, ScopeOf[c]) /\ SaysSo(f.body, f.session)
    BY <2>1, <2>5 DEF Hear, Truthful, IsEnd
  <2>7. ScopeOf[c] # All /\ wait[c].result = f.body.run
    BY <2>1, <2>2, <2>3, <2>4 DEF AllTold, Told
  <2>8. owner[f.body.run] = ScopeOf[c] /\ outcome[f.body.run] = f.body.kind
    BY <2>5, <2>6, <2>7 DEF InScope, SaysSo, IsEnd
  <2> QED
    BY <2>1, <2>2, <2>3, <2>4, <2>7, <2>8
<1> QED
  BY <1>1, <1>2, <1>3, StreamsInv, PTL DEF Spec

\* What is proved of the run table holds under the bus and its clients: its events bracket
\* the runs, and it implements the abstract life of a run.
THEOREM PromptEventsCorrect == Spec => [](EventsBracketRuns /\ StatusMatchesEvents)
  BY PromptImplementsRunState, RunEventsCorrect

THEOREM PromptImplementsLifecycle == Spec => ImplementsLifecycle
  BY PromptImplementsRunState, RunStateImplementsLifecycle

=============================================================================
