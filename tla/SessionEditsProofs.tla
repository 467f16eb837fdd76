------------------------- MODULE SessionEditsProofs -------------------------
(***************************************************************************)
(* What holds of the transcripts of sessions under everything that writes  *)
(* them, for any sessions, runs, requests, messages and bounds.  First     *)
(* what the operators of Transcript return, and that they keep the groups  *)
(* of a request and its results (Paired) and the names of messages (Named);*)
(* then the fresh ids; then the holders of copies, the invariant, and a    *)
(* lemma for each action.                                                  *)
(***************************************************************************)
EXTENDS SessionEdits, WellFoundedInduction, FiniteSetTheorems, TLAPS

\* Every set of natural numbers has a least one.
LEMMA Least ==
    ASSUME NEW T, T \subseteq Nat, T # {}
    PROVE  Min(T) \in T /\ \A y \in T : Min(T) <= y
<1> DEFINE R == {ss \in Nat \X Nat : ss[1] < ss[2]}
<1>1. IsWellFoundedOn(R, Nat)
  <2>1. R = OpToRel(<, Nat)
    BY Zenon DEF OpToRel
  <2> QED
    BY <2>1, NatLessThanWellFounded, Zenon
<1> HIDE DEF R
<1>2. PICK x \in T : \A y \in T : <<y, x>> \notin R
  BY <1>1, WFMin
<1>3. \A y \in T : x <= y
  <2> SUFFICES ASSUME NEW y \in T PROVE x <= y
    OBVIOUS
  <2>1. x \in Nat /\ y \in Nat
    OBVIOUS
  <2>2. ~ y < x
    BY <1>2, <2>1 DEF R
  <2> QED
    BY <2>1, <2>2
<1> QED
  BY <1>3 DEF Min

\* A bounded one has a greatest.
LEMMA Greatest ==
    ASSUME NEW n \in Nat, NEW T, T \subseteq 1 .. n, T # {}
    PROVE  Max(T) \in T /\ \A y \in T : y <= Max(T)
<1> DEFINE D == {n - t : t \in T}
<1>1. D \subseteq Nat /\ D # {}
  <2>1. PICK t \in T : TRUE
    OBVIOUS
  <2>2. n - t \in D
    OBVIOUS
  <2> QED
    BY <2>2
<1>2. PICK d \in D : \A y \in D : d <= y
  BY <1>1, Least
<1>3. PICK x \in T : d = n - x
  OBVIOUS
<1>4. ASSUME NEW y \in T PROVE y <= x
  <2>1. n - y \in D
    OBVIOUS
  <2>2. d <= n - y
    BY <1>2, <2>1
  <2> QED
    BY <1>3, <2>2
<1> QED
  BY <1>4 DEF Max
-----------------------------------------------------------------------------
\* Sequences.

LEMMA Part ==
    ASSUME NEW S, NEW ms \in Seq(S), NEW a \in 1 .. Len(ms) + 1, NEW b \in a - 1 .. Len(ms)
    PROVE  /\ SubSeq(ms, a, b) \in Seq(S)
           /\ Len(SubSeq(ms, a, b)) = b - a + 1
           /\ \A i \in 1 .. b - a + 1 : SubSeq(ms, a, b)[i] = ms[a + i - 1]
OBVIOUS

LEMMA Joined ==
    ASSUME NEW S, NEW s \in Seq(S), NEW t \in Seq(S)
    PROVE  /\ s \o t \in Seq(S)
           /\ Len(s \o t) = Len(s) + Len(t)
           /\ \A i \in 1 .. Len(s) : (s \o t)[i] = s[i]
           /\ \A i \in 1 .. Len(t) : (s \o t)[Len(s) + i] = t[i]
OBVIOUS

\* What is left of a transcript when all from behind the first h messages up to k goes.
LEMMA Rest ==
    ASSUME NEW S, NEW ms \in Seq(S), NEW h \in 0 .. Len(ms), NEW k \in h + 1 .. Len(ms) + 1
    PROVE  LET v == SubSeq(ms, 1, h) \o SubSeq(ms, k, Len(ms))
           IN  /\ v \in Seq(S)
               /\ Len(v) = Len(ms) - (k - 1 - h)
               /\ \A i \in 1 .. h : v[i] = ms[i]
               /\ \A i \in h + 1 .. Len(v) : v[i] = ms[i + (k - 1 - h)]
<1> DEFINE p == SubSeq(ms, 1, h)
           q == SubSeq(ms, k, Len(ms))
<1>1. p \in Seq(S) /\ Len(p) = h /\ \A i \in 1 .. h : p[i] = ms[i]
  BY Part
<1>2. /\ q \in Seq(S) /\ Len(q) = Len(ms) - k + 1
      /\ \A i \in 1 .. Len(ms) - k + 1 : q[i] = ms[k + i - 1]
  BY Part
<1> HIDE DEF p, q
<1> DEFINE v == p \o q
<1>3. /\ v \in Seq(S) /\ Len(v) = h + Len(q)
      /\ \A i \in 1 .. h : v[i] = p[i]
      /\ \A i \in 1 .. Len(q) : v[h + i] = q[i]
  <2>1. p \in Seq(S) /\ q \in Seq(S)
    BY <1>1, <1>2
  <2>2. /\ v \in Seq(S) /\ Len(v) = Len(p) + Len(q)
        /\ \A i \in 1 .. Len(p) : v[i] = p[i]
        /\ \A i \in 1 .. Len(q) : v[Len(p) + i] = q[i]
    BY <2>1 DEF v
  <2> QED
    BY <1>1, <2>2
<1> HIDE DEF v
<1>4. \A i \in 1 .. h : v[i] = ms[i]
  BY <1>1, <1>3
<1>5. ASSUME NEW i \in h + 1 .. Len(v) PROVE v[i] = ms[i + (k - 1 - h)]
  <2>1. i - h \in 1 .. Len(q) /\ Len(q) = Len(ms) - k + 1
    BY <1>2, <1>3
  <2>2. v[h + (i - h)] = q[i - h]
    BY <1>3, <2>1
  <2>3. q[i - h] = ms[k + (i - h) - 1]
    BY <1>2, <2>1
  <2> QED
    BY <2>2, <2>3
<1>6. Len(v) = Len(ms) - (k - 1 - h)
  BY <1>2, <1>3
<1> QED
  BY <1>3, <1>4, <1>5, <1>6 DEF p, q, v
-----------------------------------------------------------------------------
\* What the operations on transcripts return.

LEMMA PrimedIs ==
    ASSUME NEW ms \in Seq(Messages)
    PROVE  Primed(ms) \in Seq(Messages)
<1>1. Message(UserQuery, "user", 0) \in Messages
  BY DEF Message, Messages, Roles, Ids, UserQuery
<1> QED
  BY <1>1 DEF Primed

LEMMA WithTextIs ==
    ASSUME NEW ms \in Seq(Messages), NEW id \in Ids
    PROVE  /\ WithText(ms, id) \in Seq(Messages)
           /\ Len(WithText(ms, id)) = Len(ms) + 1
           /\ \A i \in 1 .. Len(ms) : WithText(ms, id)[i] = ms[i]
           /\ WithText(ms, id)[Len(ms) + 1] = Message(id, "text", 0)
<1>1. Message(id, "text", 0) \in Messages
  BY DEF Message, Messages, Roles
<1> QED
  BY <1>1 DEF WithText

LEMMA WithStepIs ==
    ASSUME NEW ms \in Seq(Messages), NEW n \in Nat, NEW ids \in [1 .. n -> Ids]
    PROVE  /\ WithStep(ms, ids) \in Seq(Messages)
           /\ Len(WithStep(ms, ids)) = Len(ms) + 1 + n
           /\ \A i \in 1 .. Len(ms) : WithStep(ms, ids)[i] = ms[i]
           /\ WithStep(ms, ids)[Len(ms) + 1] = Message(Step(Len(ms)), "call", n)
           /\ \A j \in 1 .. n : WithStep(ms, ids)[Len(ms) + 1 + j] = Message(ids[j], "tool", 0)
<1> DEFINE c == Message(Step(Len(ms)), "call", n)
           t == [j \in 1 .. n |-> Message(ids[j], "tool", 0)]
           a == Append(ms, c)
<1>1. c \in Messages /\ \A j \in 1 .. n : Message(ids[j], "tool", 0) \in Messages
  BY DEF Message, Messages, Roles, Step, Ids
<1>2. t \in Seq(Messages) /\ Len(t) = n /\ \A j \in 1 .. n : t[j] = Message(ids[j], "tool", 0)
  BY <1>1
<1>3. a \in Seq(Messages) /\ Len(a) = Len(ms) + 1 /\ a[Len(ms) + 1] = c
      /\ \A i \in 1 .. Len(ms) : a[i] = ms[i]
  BY <1>1
<1>4. WithStep(ms, ids) = a \o t
  <2>1. Len(ids) = n /\ DOMAIN ids = 1 .. n
    OBVIOUS
  <2> QED
    BY <2>1 DEF WithStep
<1> HIDE DEF a, t, c
<1>5. /\ a \o t \in Seq(Messages) /\ Len(a \o t) = Len(ms) + 1 + n
      /\ \A i \in 1 .. Len(ms) + 1 : (a \o t)[i] = a[i]
      /\ \A j \in 1 .. n : (a \o t)[Len(ms) + 1 + j] = t[j]
  <2>1. /\ a \o t \in Seq(Messages) /\ Len(a \o t) = Len(a) + Len(t)
        /\ \A i \in 1 .. Len(a) : (a \o t)[i] = a[i]
        /\ \A i \in 1 .. Len(t) : (a \o t)[Len(a) + i] = t[i]
    BY <1>2, <1>3
  <2> QED
    BY <1>2, <1>3, <2>1
<1> QED
  BY <1>2, <1>3, <1>4, <1>5 DEF c

LEMMA HeadTail ==
    ASSUME NEW ms \in Seq(Messages)
    PROVE  Head0(ms) \in {0, 1} /\ Head0(ms) <= Len(ms) /\ Tail0(ms) \in 0 .. Len(ms) - Head0(ms)
           /\ (Head0(ms) = 1 => ms[1].role = "system")
BY TranscriptAssumption DEF TranscriptAssumption, Head0, Tail0

LEMMA CutIs ==
    ASSUME NEW ms \in Seq(Messages), NEW budget \in Nat
    PROVE  Cut(ms, budget) \in Head0(ms) + 1 .. Len(ms) + 1 /\ GroupBegins(ms, Cut(ms, budget))
<1> DEFINE T == {k \in Head0(ms) + 1 .. Len(ms) + 1 :
               /\ GroupBegins(ms, k)
               /\ \/ Head0(ms) + Len(ms) + 1 - k <= budget
                  \/ Head0(ms) + Len(ms) + 1 - k <= Head0(ms) + Tail0(ms)}
<1>1. T \subseteq Nat /\ Len(ms) + 1 \in T
  BY HeadTail DEF GroupBegins
<1>2. Min(T) \in T
  BY <1>1, Least
<1>3. Cut(ms, budget) = Min(T)
  BY DEF Cut
<1> HIDE DEF T
<1> QED
  BY <1>2, <1>3 DEF T

LEMMA DropGroupsIs ==
    ASSUME NEW ms \in Seq(Messages), NEW budget \in Nat
    PROVE  /\ DropGroups(ms, budget) \in Seq(Messages)
           /\ LET h == Head0(ms)
                  d == Cut(ms, budget) - 1 - Head0(ms)
              IN  /\ d \in Nat /\ Len(DropGroups(ms, budget)) = Len(ms) - d
                  /\ \A i \in 1 .. h : DropGroups(ms, budget)[i] = ms[i]
                  /\ \A i \in h + 1 .. Len(ms) - d : DropGroups(ms, budget)[i] = ms[i + d]
<1>1. /\ Head0(ms) \in 0 .. Len(ms)
      /\ Cut(ms, budget) \in Head0(ms) + 1 .. Len(ms) + 1
  BY CutIs, HeadTail
<1> DEFINE h == Head0(ms)
           k == Cut(ms, budget)
           v == SubSeq(ms, 1, h) \o SubSeq(ms, k, Len(ms))
<1>2. v = DropGroups(ms, budget)
  BY DEF DropGroups
<1>3. h \in 0 .. Len(ms) /\ k \in h + 1 .. Len(ms) + 1
  BY <1>1
<1> HIDE DEF h, k
<1>4. /\ v \in Seq(Messages)
      /\ Len(v) = Len(ms) - (k - 1 - h)
      /\ \A i \in 1 .. h : v[i] = ms[i]
      /\ \A i \in h + 1 .. Len(v) : v[i] = ms[i + (k - 1 - h)]
  BY <1>3, Rest
<1> HIDE DEF v
<1>5. k - 1 - h \in Nat
  BY <1>3
<1> QED
  BY <1>2, <1>4, <1>5 DEF h, k

LEMMA EditedIs ==
    ASSUME NEW ms \in Seq(Messages), NEW id
    PROVE  /\ Edited(ms, id) \in Seq(Messages) /\ Len(Edited(ms, id)) = Len(ms)
           /\ \A i \in 1 .. Len(ms) : /\ Edited(ms, id)[i].id = ms[i].id
                                      /\ Edited(ms, id)[i].role = ms[i].role
                                      /\ Edited(ms, id)[i].results = ms[i].results
                                      /\ ms[i].id # id => Edited(ms, id)[i] = ms[i]
<1> DEFINE e == Edited(ms, id)
<1>1. \A i \in 1 .. Len(ms) :
         e[i] = IF i \in Editable(ms, id) THEN [ms[i] EXCEPT !.ver = 1] ELSE ms[i]
  BY DEF Edited
<1>2. DOMAIN e = 1 .. Len(ms)
  BY DEF Edited
<1>3. ASSUME NEW i \in 1 .. Len(ms)
      PROVE  /\ e[i] \in Messages /\ e[i].id = ms[i].id /\ e[i].role = ms[i].role
             /\ e[i].results = ms[i].results
             /\ ms[i].id # id => e[i] = ms[i]
  <2>1. ms[i] \in Messages
    OBVIOUS
  <2>2. CASE i \in Editable(ms, id)
    <3>1. ms[i].id = id
      BY <2>2 DEF Editable
    <3>2. e[i] = [ms[i] EXCEPT !.ver = 1]
      BY <1>1, <2>2
    <3> QED
      BY <2>1, <3>1, <3>2 DEF Messages
  <2>3. CASE i \notin Editable(ms, id)
    BY <1>1, <2>1, <2>3
  <2> QED
    BY <2>2, <2>3
<1>4. e \in [1 .. Len(ms) -> Messages]
  BY <1>3, <1>2 DEF Edited
<1>5. e \in Seq(Messages) /\ Len(e) = Len(ms)
  BY <1>4
<1> QED
  BY <1>3, <1>5

LEMMA KeptIs ==
    ASSUME NEW ms \in Seq(Messages), UserTurns(ms) # {}
    PROVE  /\ LastTurn(ms) \in 1 .. Len(ms) /\ ms[LastTurn(ms)].role = "user"
           /\ Kept(ms) \in Seq(Messages) /\ Len(Kept(ms)) = LastTurn(ms)
           /\ \A i \in 1 .. LastTurn(ms) : Kept(ms)[i] = ms[i]
<1>1. UserTurns(ms) \subseteq 1 .. Len(ms)
  BY DEF UserTurns
<1>2. LastTurn(ms) = Max(UserTurns(ms))
  BY DEF LastTurn, Max
<1>3. LastTurn(ms) \in UserTurns(ms)
  BY <1>1, <1>2, Greatest
<1> QED
  BY <1>1, <1>3, Part DEF UserTurns, Kept
-----------------------------------------------------------------------------
\* The operations keep requests and results together.

LEMMA PairedCall ==
    ASSUME NEW ms \in Seq(Messages), Paired(ms), NEW i \in 1 .. Len(ms), ms[i].role = "call",
           NEW n, n = ms[i].results
    PROVE  /\ n \in Nat /\ i + n <= Len(ms)
           /\ \A k \in i + 1 .. i + n : ms[k].role = "tool"
           /\ i + n < Len(ms) => ms[i + n + 1].role # "tool"
<1>1. HasResults(ms, i) /\ ms[i] \in Messages
  BY DEF Paired
<1>2. n \in Nat
  BY <1>1 DEF Messages
<1> QED
  BY <1>1, <1>2 DEF HasResults

LEMMA PairedTool ==
    ASSUME NEW ms \in Seq(Messages), Paired(ms), NEW i \in 1 .. Len(ms), ms[i].role = "tool"
    PROVE  i > 1 /\ ms[i - 1].role \in {"tool", "call"}
BY DEF Paired

LEMMA PairedPrimed ==
    ASSUME NEW ms \in Seq(Messages), Paired(ms)
    PROVE  Paired(Primed(ms))
<1>1. Message(UserQuery, "user", 0).role = "user"
  BY DEF Message
<1> DEFINE u == <<Message(UserQuery, "user", 0)>>
<1>2. DOMAIN u = {1} /\ u[1].role = "user"
  BY <1>1
<1> HIDE DEF u
<1>3. Paired(u)
  BY <1>2 DEF Paired
<1> QED
  BY <1>3 DEF Primed, u

LEMMA PairedText ==
    ASSUME NEW ms \in Seq(Messages), NEW id \in Ids, Paired(ms)
    PROVE  Paired(WithText(ms, id))
<1> DEFINE u == WithText(ms, id)
           L == Len(ms)
<1>1. /\ u \in Seq(Messages) /\ Len(u) = L + 1
      /\ \A i \in 1 .. L : u[i] = ms[i]
      /\ u[L + 1] = Message(id, "text", 0)
  BY WithTextIs
<1>2. L \in Nat
  OBVIOUS
<1> HIDE DEF u
<1>3. u[L + 1].role = "text"
  BY <1>1 DEF Message
<1>4. \A i \in DOMAIN u : i \in 1 .. L \/ i = L + 1
  BY <1>1, <1>2, <1>3
<1>5. ASSUME NEW i \in DOMAIN u, u[i].role = "call" PROVE HasResults(u, i)
  <2>1. i \in 1 .. L /\ u[i] = ms[i] /\ ms[i] \in Messages
    BY <1>1, <1>2, <1>3, <1>4, <1>5
  <2>2. HasResults(ms, i) /\ ms[i].results \in Nat
    BY <1>5, <2>1 DEF Paired, Messages
  <2> DEFINE e == i + ms[i].results
  <2>3. /\ e \in 1 .. L /\ (\A k \in i + 1 .. e : ms[k].role = "tool")
        /\ (e < L => ms[e + 1].role # "tool")
    BY <2>1, <2>2 DEF HasResults
  <2> HIDE DEF e
  <2>4. \A k \in i + 1 .. e : u[k].role = "tool"
    BY <1>1, <1>2, <1>3, <2>1, <2>3
  <2>5. e < L + 1 => u[e + 1].role # "tool"
    <3>1. CASE e = L
      BY <1>1, <1>2, <1>3, <3>1
    <3>2. CASE e < L
      BY <1>1, <1>2, <1>3, <2>3, <3>2
    <3> QED
      BY <1>1, <1>2, <1>3, <2>3, <3>1, <3>2
  <2> QED
    BY <1>1, <1>2, <1>3, <2>1, <2>3, <2>4, <2>5 DEF HasResults, e
<1>6. ASSUME NEW i \in DOMAIN u, u[i].role = "tool"
      PROVE  i > 1 /\ u[i - 1].role \in {"tool", "call"}
  <2>1. i \in 1 .. L /\ u[i] = ms[i]
    BY <1>1, <1>2, <1>3, <1>4, <1>6
  <2>2. i > 1 /\ ms[i - 1].role \in {"tool", "call"}
    BY <1>6, <2>1 DEF Paired
  <2> QED
    BY <1>1, <1>2, <1>3, <2>1, <2>2
<1> QED
  BY <1>5, <1>6 DEF Paired, u

LEMMA PairedStep ==
    ASSUME NEW ms \in Seq(Messages), NEW n \in Nat, NEW ids \in [1 .. n -> Ids], Paired(ms)
    PROVE  Paired(WithStep(ms, ids))
<1> DEFINE u == WithStep(ms, ids)
           L == Len(ms)
<1>1. /\ u \in Seq(Messages) /\ Len(u) = L + 1 + n
      /\ \A i \in 1 .. L : u[i] = ms[i]
      /\ u[L + 1] = Message(Step(L), "call", n)
      /\ \A j \in 1 .. n : u[L + 1 + j] = Message(ids[j], "tool", 0)
  BY WithStepIs
<1>2. L \in Nat /\ n \in Nat
  OBVIOUS
<1> HIDE DEF u
<1>3. u[L + 1].role = "call" /\ u[L + 1].results = n
  BY <1>1 DEF Message
<1>4. ASSUME NEW k \in L + 2 .. L + 1 + n PROVE u[k].role = "tool"
  <2>1. k - (L + 1) \in 1 .. n /\ L + 1 + (k - (L + 1)) = k
    BY <1>1, <1>2
  <2>2. u[k] = Message(ids[k - (L + 1)], "tool", 0)
    BY <1>1, <1>2, <2>1
  <2> QED
    BY <2>2 DEF Message
<1>5. DOMAIN u = 1 .. L + 1 + n
  BY <1>1, <1>2
<1>6. ASSUME NEW i \in DOMAIN u, u[i].role = "call" PROVE HasResults(u, i)
  <2>1. CASE i \in 1 .. L
    <3>1. u[i] = ms[i] /\ ms[i] \in Messages
      BY <1>1, <1>2, <2>1
    <3>2. HasResults(ms, i) /\ ms[i].results \in Nat
      BY <1>6, <2>1, <3>1 DEF Paired, Messages
    <3> DEFINE e == i + ms[i].results
    <3>3. /\ e \in 1 .. L /\ (\A k \in i + 1 .. e : ms[k].role = "tool")
          /\ (e < L => ms[e + 1].role # "tool")
      BY <2>1, <3>2 DEF HasResults
    <3> HIDE DEF e
    <3>4. ASSUME NEW k \in i + 1 .. e PROVE u[k].role = "tool"
      <4>1. k \in 1 .. L
        BY <1>2, <2>1, <3>3
      <4> QED
        BY <1>1, <3>3, <4>1
    <3>5. u[e + 1].role # "tool"
      <4>1. CASE e = L
        BY <1>3, <4>1
      <4>2. CASE e < L
        <5>1. e + 1 \in 1 .. L
          BY <1>2, <3>3, <4>2
        <5> QED
          BY <1>1, <3>3, <4>2, <5>1
      <4> QED
        BY <1>1, <1>2, <3>3, <4>1, <4>2
    <3> QED
      BY <1>1, <1>2, <3>1, <3>3, <3>4, <3>5 DEF HasResults, e
  <2>2. CASE i = L + 1
    <3>1. i + u[i].results = L + 1 + n
      BY <1>3, <2>2
    <3>2. \A k \in i + 1 .. L + 1 + n : u[k].role = "tool"
      BY <1>1, <1>2, <1>4, <2>2
    <3> QED
      BY <1>1, <1>2, <3>1, <3>2 DEF HasResults
  <2> QED
    BY <1>1, <1>2, <1>4, <1>5, <1>6, <2>1, <2>2
<1>7. ASSUME NEW i \in DOMAIN u, u[i].role = "tool"
      PROVE  i > 1 /\ u[i - 1].role \in {"tool", "call"}
  <2>1. CASE i \in 1 .. L
    <3>1. i > 1 /\ ms[i - 1].role \in {"tool", "call"}
      BY <1>1, <1>2, <1>7, <2>1 DEF Paired
    <3> QED
      BY <1>1, <1>2, <2>1, <3>1
  <2>2. CASE i = L + 2
    BY <1>1, <1>2, <1>3, <2>2
  <2>3. CASE i > L + 2
    <3>1. i - 1 \in L + 2 .. L + 1 + n
      BY <1>1, <1>2, <1>5, <2>3
    <3> QED
      BY <1>1, <1>2, <1>4, <1>5, <3>1
  <2>4. i # L + 1
    BY <1>3, <1>7
  <2>5. i \in 1 .. L \/ i = L + 1 \/ i = L + 2 \/ i > L + 2
    BY <1>1, <1>2, <1>5
  <2> QED
    BY <2>1, <2>2, <2>3, <2>4, <2>5
<1> QED
  BY <1>6, <1>7 DEF Paired, u

\* Pass 4 of the optimiser: what is left begins with a whole group.
LEMMA PairedDrop ==
    ASSUME NEW ms \in Seq(Messages), NEW budget \in Nat, Paired(ms)
    PROVE  Paired(DropGroups(ms, budget))
<1> DEFINE v == DropGroups(ms, budget)
           h == Head0(ms)
           k == Cut(ms, budget)
           d == k - 1 - h
<1>1. /\ v \in Seq(Messages) /\ d \in Nat /\ Len(v) = Len(ms) - d
      /\ \A i \in 1 .. h : v[i] = ms[i]
      /\ \A i \in h + 1 .. Len(v) : v[i] = ms[i + d]
  BY DropGroupsIs
<1>2. h \in {0, 1} /\ h <= Len(ms) /\ (h = 1 => ms[1].role = "system")
  BY HeadTail
<1>3. k \in h + 1 .. Len(ms) + 1 /\ GroupBegins(ms, k)
  BY CutIs
<1> HIDE DEF v, h
<1> HIDE DEF k
<1>4. h \in Nat /\ d \in Nat /\ Len(v) = Len(ms) - d /\ Len(ms) \in Nat
  BY <1>1, <1>2
<1> HIDE DEF d
<1>5. ASSUME NEW i \in DOMAIN v, v[i].role \in {"call", "tool"}
      PROVE  i \in h + 1 .. Len(v) /\ i + d \in k .. Len(ms) /\ v[i] = ms[i + d]
  <2>1. i \notin 1 .. h
    BY <1>1, <1>2, <1>5
  <2>2. i \in h + 1 .. Len(v)
    BY <1>1, <1>2, <2>1
  <2>3. i + d \in k .. Len(ms)
    BY <1>4, <1>3, <2>2 DEF d
  <2> QED
    BY <1>1, <2>2, <2>3
<1>6. ASSUME NEW i \in DOMAIN v, v[i].role = "call" PROVE HasResults(v, i)
  <2>1. i \in h + 1 .. Len(v) /\ i + d \in k .. Len(ms) /\ v[i] = ms[i + d]
    BY <1>5, <1>6
  <2>2. i + d \in DOMAIN ms /\ ms[i + d] \in Messages
    BY <1>4, <1>1, <1>2, <1>3, <2>1 DEF d
  <2>3. PICK p : p = i + d
    OBVIOUS
  <2> DEFINE n == v[i].results
             e == i + n
  <2>4. p \in 1 .. Len(ms) /\ ms[p].role = "call" /\ n = ms[p].results
    BY <1>6, <2>1, <2>2, <2>3
  <2>5. /\ n \in Nat /\ p + n <= Len(ms)
        /\ \A j \in p + 1 .. p + n : ms[j].role = "tool"
        /\ p + n < Len(ms) => ms[p + n + 1].role # "tool"
    BY <2>4, PairedCall
  <2>6. n \in Nat
    BY <2>5
  <2> HIDE DEF n
  <2>7. p + n = e + d /\ p + 1 = i + d + 1
    BY <1>4, <1>1, <2>1, <2>3, <2>6
  <2>8. /\ e + d <= Len(ms) /\ (\A j \in i + d + 1 .. e + d : ms[j].role = "tool")
        /\ (e + d < Len(ms) => ms[e + d + 1].role # "tool")
    BY <2>5, <2>7
  <2>9. i \in Nat /\ h + 1 <= i /\ i <= e /\ e \in Nat
    <3>1. i \in h + 1 .. Len(v)
      BY <2>1
    <3> QED
      BY <1>4, <2>6, <3>1
  <2> HIDE DEF e
  <2>10. ASSUME NEW j \in i + 1 .. e PROVE v[j].role = "tool"
    <3>1. e <= Len(v)
      BY <1>4, <2>8, <2>9
    <3>2. j \in h + 1 .. Len(v) /\ j + d \in i + d + 1 .. e + d
      BY <1>4, <2>9, <3>1
    <3> QED
      BY <1>1, <2>8, <3>2
  <2>11. ASSUME e < Len(v) PROVE v[e + 1].role # "tool"
    <3>1. e + 1 \in h + 1 .. Len(v) /\ e + d < Len(ms) /\ (e + 1) + d = e + d + 1
      BY <1>4, <2>11, <2>9
    <3> QED
      BY <1>1, <2>8, <3>1
  <2>12. e <= Len(v)
    BY <1>4, <2>8, <2>9
  <2> QED
    BY <2>6, <2>10, <2>11, <2>12 DEF HasResults, n, e
<1>7. ASSUME NEW i \in DOMAIN v, v[i].role = "tool"
      PROVE  i > 1 /\ v[i - 1].role \in {"tool", "call"}
  <2>1. i \in h + 1 .. Len(v) /\ i + d \in k .. Len(ms) /\ v[i] = ms[i + d]
    BY <1>5, <1>7
  <2>2. i + d \in DOMAIN ms
    BY <1>4, <1>1, <1>2, <1>3, <2>1 DEF d
  <2>3. i + d > 1 /\ ms[i + d - 1].role \in {"tool", "call"}
    <3>1. PICK p : p = i + d
      OBVIOUS
    <3>2. p \in 1 .. Len(ms) /\ ms[p].role = "tool"
      BY <1>7, <2>1, <2>2, <3>1
    <3>3. p > 1 /\ ms[p - 1].role \in {"tool", "call"}
      BY <3>2, PairedTool
    <3>4. p \in Nat
      BY <1>4, <3>2
    <3>5. p - 1 = i + d - 1
      <4>1. i \in Nat
        BY <1>4, <2>1
      <4> QED
        BY <1>4, <3>1, <3>4, <4>1
    <3> QED
      BY <3>1, <3>3, <3>4, <3>5
  <2>4. CASE i > h + 1
    <3>1. i \in Nat /\ i <= Len(v)
      BY <1>4, <2>1
    <3>2. i - 1 \in h + 1 .. Len(v) /\ (i - 1) + d = i + d - 1
      BY <1>4, <2>4, <3>1
    <3>3. v[i - 1] = ms[(i - 1) + d]
      BY <1>1, <3>2
    <3> QED
      BY <1>2, <2>1, <2>3, <2>4, <3>2, <3>3
  <2>5. CASE i = h + 1 /\ d # 0
    <3>1. i + d = k /\ k # h + 1 /\ k # Len(ms) + 1 /\ k - 1 = i + d - 1
      BY <1>4, <1>1, <1>2, <1>3, <2>1, <2>5 DEF d
    <3>2. ms[k].role = "tool"
      BY <1>7, <2>1, <3>1
    <3> QED
      BY <1>3, <2>3, <3>1, <3>2 DEF GroupBegins, h
  <2>6. CASE i = h + 1 /\ d = 0
    <3>1. i + d - 1 = h /\ i - 1 = h
      BY <1>2, <2>6
    <3>2. h = 1
      BY <1>2, <2>3, <2>6
    <3>3. v[h] = ms[h]
      BY <1>1, <3>2
    <3> QED
      BY <2>3, <2>6, <3>3, <3>1, <3>2
  <2> QED
    BY <1>4, <1>1, <1>2, <2>1, <2>4, <2>5, <2>6
<1> QED
  BY <1>6, <1>7 DEF Paired, v

LEMMA PairedEdited ==
    ASSUME NEW ms \in Seq(Messages), NEW id, Paired(ms)
    PROVE  Paired(Edited(ms, id))
<1> DEFINE v == Edited(ms, id)
<1>1. /\ v \in Seq(Messages) /\ Len(v) = Len(ms)
      /\ \A i \in 1 .. Len(ms) : v[i].role = ms[i].role /\ v[i].results = ms[i].results
  BY EditedIs
<1> HIDE DEF v
<1>2. DOMAIN v = 1 .. Len(ms) /\ DOMAIN ms = 1 .. Len(ms)
  BY <1>1
<1>3. ASSUME NEW i \in DOMAIN v, v[i].role = "call" PROVE HasResults(v, i)
  <2>1. HasResults(ms, i) /\ ms[i].results = v[i].results /\ ms[i] \in Messages
    BY <1>1, <1>2, <1>3 DEF Paired
  <2>2. ms[i].results \in Nat
    BY <2>1 DEF Messages
  <2> QED
    BY <1>1, <1>2, <2>1, <2>2 DEF HasResults
<1>4. ASSUME NEW i \in DOMAIN v, v[i].role = "tool"
      PROVE  i > 1 /\ v[i - 1].role \in {"tool", "call"}
  <2>1. i > 1 /\ ms[i - 1].role \in {"tool", "call"}
    BY <1>1, <1>2, <1>4 DEF Paired
  <2> QED
    BY <1>1, <1>2, <2>1
<1> QED
  BY <1>3, <1>4 DEF Paired, v

LEMMA PairedKept ==
    ASSUME NEW ms \in Seq(Messages), UserTurns(ms) # {}, Paired(ms)
    PROVE  Paired(Kept(ms))
<1> DEFINE v == Kept(ms)
           l == LastTurn(ms)
<1>1. /\ l \in 1 .. Len(ms) /\ ms[l].role = "user" /\ v \in Seq(Messages) /\ Len(v) = l
      /\ \A i \in 1 .. l : v[i] = ms[i]
  BY KeptIs
<1> HIDE DEF v, l
<1>2. ASSUME NEW i \in DOMAIN v, v[i].role = "call" PROVE HasResults(v, i)
  <2>1. i \in 1 .. l /\ i # l /\ v[i] = ms[i] /\ ms[i] \in Messages
    BY <1>1, <1>2
  <2> DEFINE n == v[i].results
             e == i + n
  <2>2. n \in Nat /\ i + n <= Len(ms)
        /\ (\A k \in i + 1 .. i + n : ms[k].role = "tool")
        /\ (i + n < Len(ms) => ms[i + n + 1].role # "tool")
    BY <1>1, <1>2, <2>1, PairedCall
  <2>3. /\ e \in i .. Len(ms) /\ (\A j \in i + 1 .. e : ms[j].role = "tool")
        /\ (e < Len(ms) => ms[e + 1].role # "tool")
    BY <1>1, <2>1, <2>2
  <2> HIDE DEF e
  <2>4. e < l
    BY <1>1, <2>1, <2>3
  <2>5. \A j \in i + 1 .. e : v[j].role = "tool"
    BY <1>1, <2>1, <2>3, <2>4
  <2>6. v[e + 1].role # "tool"
    BY <1>1, <2>1, <2>3, <2>4
  <2>7. i + v[i].results = e
    BY DEF e
  <2>8. e <= Len(v) /\ (e < Len(v) => v[e + 1].role # "tool")
    BY <1>1, <2>3, <2>4, <2>6
  <2> QED
    BY <2>5, <2>7, <2>8 DEF HasResults
<1>3. ASSUME NEW i \in DOMAIN v, v[i].role = "tool"
      PROVE  i > 1 /\ v[i - 1].role \in {"tool", "call"}
  <2>1. i \in 1 .. l /\ v[i] = ms[i]
    BY <1>1
  <2>2. i > 1 /\ ms[i - 1].role \in {"tool", "call"}
    BY <1>1, <1>3, <2>1 DEF Paired
  <2> QED
    BY <1>1, <2>1, <2>2
<1> QED
  BY <1>2, <1>3 DEF Paired, v
-----------------------------------------------------------------------------
\* New ids.

LEMMA FiniteImage ==
    ASSUME NEW S, IsFiniteSet(S), NEW f, DOMAIN f = S
    PROVE  IsFiniteSet({f[x] : x \in S})
<1> DEFINE T == {f[x] : x \in S}
           g == [x \in S |-> f[x]]
<1>1. g \in Surjection(S, T)
  BY DEF Surjection
<1> QED
  BY <1>1, FS_Surjection

\* Among the numbers up to Cardinality(UsedIds) + n there are n free ones.
LEMMA EnoughFree ==
    ASSUME IsFiniteSet(UsedIds), NEW n \in Nat
    PROVE  LET N == Cardinality(UsedIds) + n
           IN  N \in Nat /\ Cardinality(FreeUpTo(N)) >= n
<1> DEFINE N == Cardinality(UsedIds) + n
           taken == {j \in 1 .. N : Fresh(j) \in UsedIds}
           f == [j \in taken |-> Fresh(j)]
<1>1. Cardinality(UsedIds) \in Nat /\ N \in Nat
  BY FS_CardinalityType
<1>2. IsFiniteSet(1 .. N) /\ Cardinality(1 .. N) = N
  BY <1>1, FS_Interval
<1>3. f \in Injection(taken, UsedIds)
  BY DEF Injection, IsInjective, Fresh
<1>4. Cardinality(taken) <= Cardinality(UsedIds) /\ IsFiniteSet(taken)
  BY <1>3, FS_Injection
<1>5. FreeUpTo(N) = (1 .. N) \ taken /\ (1 .. N) \cap taken = taken
  BY DEF FreeUpTo
<1>6. Cardinality(FreeUpTo(N)) = N - Cardinality(taken)
  BY <1>2, <1>5, FS_Difference
<1>7. Cardinality(taken) \in Nat
  BY <1>4, FS_CardinalityType
<1> HIDE DEF taken
<1> QED
  BY <1>1, <1>4, <1>6, <1>7

LEMMA NewIdIs ==
    ASSUME IsFiniteSet(UsedIds), NEW n \in Nat \ {0}
    PROVE  \E k \in Nat : /\ NewId(n) = Fresh(k) /\ Fresh(k) \notin UsedIds
                          /\ Cardinality(FreeUpTo(k)) = n
<1> DEFINE N == Cardinality(UsedIds) + n
           T == {k \in 0 .. N : Cardinality(FreeUpTo(k)) >= n}
<1>1. N \in Nat /\ N \in T
  BY EnoughFree
<1>2. PICK k \in T : \A j \in T : k <= j
  <2>1. T \subseteq Nat /\ T # {}
    BY <1>1
  <2> HIDE DEF T
  <2>2. Min(T) \in T /\ \A y \in T : Min(T) <= y
    BY <2>1, Least
  <2> QED
    BY <2>2
<1>3. FreeUpTo(0) = {} /\ Cardinality(FreeUpTo(0)) = 0
  BY FS_EmptySet DEF FreeUpTo
<1>4. k # 0 /\ k \in 1 .. N
  BY <1>1, <1>2, <1>3
<1>5. k - 1 \notin T
  BY <1>2, <1>4
<1>6. IsFiniteSet(FreeUpTo(k - 1))
  <2>1. FreeUpTo(k - 1) \subseteq 1 .. k - 1 /\ IsFiniteSet(1 .. k - 1)
    BY <1>4, FS_Interval DEF FreeUpTo
  <2> QED
    BY <2>1, FS_Subset
<1>7. Cardinality(FreeUpTo(k - 1)) \in Nat /\ Cardinality(FreeUpTo(k - 1)) < n
  BY <1>1, <1>4, <1>5, <1>6, FS_CardinalityType
<1>8. Cardinality(FreeUpTo(k)) >= n
  BY <1>2
<1>9. CASE Fresh(k) \in UsedIds
  <2>1. FreeUpTo(k) = FreeUpTo(k - 1)
    BY <1>4, <1>9 DEF FreeUpTo
  <2> QED
    BY <1>7, <1>8, <2>1
<1>10. CASE Fresh(k) \notin UsedIds
  <2>1. FreeUpTo(k) = FreeUpTo(k - 1) \cup {k} /\ k \notin FreeUpTo(k - 1) /\ k \in FreeUpTo(k)
    BY <1>4, <1>10 DEF FreeUpTo
  <2>2. Cardinality(FreeUpTo(k)) = Cardinality(FreeUpTo(k - 1)) + 1
    BY <1>6, <2>1, FS_AddElement
  <2>3. Cardinality(FreeUpTo(k)) = n
    BY <1>7, <1>8, <2>2
  <2> DEFINE c == CHOOSE x \in 1 .. N : x \in FreeUpTo(x) /\ Cardinality(FreeUpTo(x)) = n
  <2>4. c \in 1 .. N /\ c \in FreeUpTo(c) /\ Cardinality(FreeUpTo(c)) = n
    BY <1>4, <2>1, <2>3
  <2>5. NewId(n) = Fresh(c)
    BY DEF NewId
  <2> HIDE DEF c
  <2>6. c \in Nat /\ Fresh(c) \notin UsedIds
    BY <1>1, <2>4 DEF FreeUpTo
  <2> QED
    BY <2>4, <2>5, <2>6
<1> QED
  BY <1>9, <1>10

LEMMA NewIdFresh ==
    ASSUME IsFiniteSet(UsedIds)
    PROVE  /\ \A n \in Nat \ {0} : /\ NewId(n) \in Ids /\ NewId(n) \notin UsedIds
                                   /\ \A x \in Nat : NewId(n) # Step(x)
           /\ \A m, n \in Nat \ {0} : NewId(m) = NewId(n) => m = n
<1>1. ASSUME NEW n \in Nat \ {0}
      PROVE  /\ NewId(n) \in Ids /\ NewId(n) \notin UsedIds
             /\ \A x \in Nat : NewId(n) # Step(x)
  <2>1. PICK k \in Nat : NewId(n) = Fresh(k) /\ Fresh(k) \notin UsedIds
    BY NewIdIs
  <2> QED
    BY <2>1 DEF Ids, Fresh, Step
<1>2. ASSUME NEW m \in Nat \ {0}, NEW n \in Nat \ {0}, NewId(m) = NewId(n) PROVE m = n
  <2>1. PICK k \in Nat : NewId(m) = Fresh(k) /\ Cardinality(FreeUpTo(k)) = m
    BY NewIdIs
  <2>2. PICK l \in Nat : NewId(n) = Fresh(l) /\ Cardinality(FreeUpTo(l)) = n
    BY NewIdIs
  <2>3. Fresh(k) = Fresh(l)
    BY <1>2, <2>1, <2>2
  <2>4. k = l
    BY <2>3 DEF Fresh
  <2> QED
    BY <2>1, <2>2, <2>4
<1> QED
  BY <1>1, <1>2

\* What a client knows is a finite set, as every transcript is.
ViewsFinite == \A s \in Sessions : IsFiniteSet(view[s])

LEMMA UsedFinite ==
    ASSUME TypeInvariant, ViewsFinite
    PROVE  IsFiniteSet(UsedIds)
<1> USE SessionEditsAssumption DEF SessionEditsAssumption
<1> DEFINE A == {store[s].msgs : s \in Existing}
           B == {run[r].msgs : r \in Runs}
           C == {route[a].msgs : a \in Routes}
<1>1. IsFiniteSet(A)
  <2> DEFINE f == [s \in Existing |-> store[s].msgs]
  <2>1. IsFiniteSet(Existing)
    BY FS_Subset DEF Existing
  <2>2. IsFiniteSet({f[s] : s \in Existing})
    BY <2>1, FiniteImage
  <2>3. {f[s] : s \in Existing} = A
    OBVIOUS
  <2> QED
    BY <2>2, <2>3
<1>2. IsFiniteSet(B)
  <2> DEFINE f == [r \in Runs |-> run[r].msgs]
  <2>1. IsFiniteSet({f[r] : r \in Runs})
    BY FiniteImage
  <2>2. {f[r] : r \in Runs} = B
    OBVIOUS
  <2> QED
    BY <2>1, <2>2
<1>3. IsFiniteSet(C)
  <2> DEFINE f == [a \in Routes |-> route[a].msgs]
  <2>1. IsFiniteSet({f[a] : a \in Routes})
    BY FiniteImage
  <2>2. {f[a] : a \in Routes} = C
    OBVIOUS
  <2> QED
    BY <2>1, <2>2
<1>4. IsFiniteSet(Transcripts)
  <2>1. IsFiniteSet(A \cup B)
    BY <1>1, <1>2, FS_Union
  <2>2. IsFiniteSet((A \cup B) \cup C)
    BY <1>3, <2>1, FS_Union
  <2>3. Transcripts = (A \cup B) \cup C
    BY DEF Transcripts
  <2> QED
    BY <2>2, <2>3
<1>5. \A ms \in Transcripts : ms \in Seq(Messages)
  BY DEF Transcripts, TypeInvariant, RunType, RouteType, Stored, Existing
<1> DEFINE ids(ms) == {ms[i].id : i \in DOMAIN ms}
           seen(s) == {v.id : v \in view[s]}
<1>6. ASSUME NEW ms \in Transcripts PROVE IsFiniteSet(ids(ms))
  <2> DEFINE f == [i \in DOMAIN ms |-> ms[i].id]
  <2>1. DOMAIN ms = 1 .. Len(ms) /\ Len(ms) \in Nat
    BY <1>5
  <2>2. IsFiniteSet(DOMAIN ms)
    BY <2>1, FS_Interval
  <2>3. IsFiniteSet({f[i] : i \in DOMAIN ms})
    BY <2>2, FiniteImage
  <2>4. {f[i] : i \in DOMAIN ms} = ids(ms)
    OBVIOUS
  <2> QED
    BY <2>3, <2>4
<1>7. ASSUME NEW s \in Sessions PROVE IsFiniteSet(seen(s))
  <2> DEFINE f == [v \in view[s] |-> v.id]
  <2>1. IsFiniteSet({f[v] : v \in view[s]})
    BY FiniteImage DEF ViewsFinite
  <2>2. {f[v] : v \in view[s]} = seen(s)
    OBVIOUS
  <2> QED
    BY <2>1, <2>2
<1> DEFINE X == {{ms[i].id : i \in DOMAIN ms} : ms \in Transcripts}
           Y == {{v.id : v \in view[s]} : s \in Sessions}
<1>8. IsFiniteSet(X)
  <2> DEFINE f == [ms \in Transcripts |-> ids(ms)]
  <2>1. IsFiniteSet({f[ms] : ms \in Transcripts})
    BY <1>4, FiniteImage
  <2>2. {f[ms] : ms \in Transcripts} = X
    OBVIOUS
  <2> QED
    BY <2>1, <2>2
<1>9. IsFiniteSet(Y)
  <2> DEFINE f == [s \in Sessions |-> seen(s)]
  <2>1. IsFiniteSet({f[s] : s \in Sessions})
    BY FiniteImage
  <2>2. {f[s] : s \in Sessions} = Y
    OBVIOUS
  <2> QED
    BY <2>1, <2>2
<1>10. (\A x \in X : IsFiniteSet(x)) /\ (\A y \in Y : IsFiniteSet(y))
  BY <1>6, <1>7
<1>11. IsFiniteSet(UNION X) /\ IsFiniteSet(UNION Y)
  BY <1>8, <1>9, <1>10, FS_UNION
<1>12. UsedIds = (UNION X) \cup (UNION Y)
  BY DEF UsedIds
<1> QED
  BY <1>11, <1>12, FS_Union

LEMMA SeenFinite ==
    ASSUME NEW ms \in Seq(Messages)
    PROVE  IsFiniteSet(Seen(ms)) /\ Seen(ms) \subseteq [id : Ids, ver : 0 .. 1]
<1> DEFINE f == [i \in DOMAIN ms |-> [id |-> ms[i].id, ver |-> ms[i].ver]]
<1>1. DOMAIN ms = 1 .. Len(ms) /\ Len(ms) \in Nat
  OBVIOUS
<1>2. IsFiniteSet(DOMAIN ms)
  BY <1>1, FS_Interval
<1>3. IsFiniteSet({f[i] : i \in DOMAIN ms})
  BY <1>2, FiniteImage
<1>4. {f[i] : i \in DOMAIN ms} = Seen(ms)
  BY DEF Seen
<1>5. Seen(ms) \subseteq [id : Ids, ver : 0 .. 1]
  <2>1. \A m \in Messages : [id |-> m.id, ver |-> m.ver] \in [id : Ids, ver : 0 .. 1]
    BY DEF Messages
  <2>2. \A i \in DOMAIN ms : ms[i] \in Messages
    OBVIOUS
  <2> QED
    BY <2>1, <2>2 DEF Seen
<1> QED
  BY <1>3, <1>4, <1>5
-----------------------------------------------------------------------------
\* The operations keep the names of messages apart.

\* The loop names its steps by the length of the transcript, so a step's number is below its
\* place.
Placed(ms) == \A i \in DOMAIN ms : \A n \in Nat : ms[i].id = Step(n) => n < i

Named(ms) == DistinctIds(ms) /\ Placed(ms)

\* ms has what old has, and goes on.
Extends(ms, old) == Len(old) <= Len(ms) /\ \A i \in DOMAIN old : ms[i] = old[i]

\* A transcript whose ids are those of a part of another one.
LEMMA NamedPart ==
    ASSUME NEW ms \in Seq(Messages), NEW v \in Seq(Messages), Len(v) <= Len(ms),
           \A i \in 1 .. Len(v) : v[i].id = ms[i].id, Named(ms)
    PROVE  Named(v)
BY DEF Named, DistinctIds, Placed

LEMMA NamedEmpty == Named(<<>>)
BY DEF Named, DistinctIds, Placed

LEMMA NamedPrimed ==
    ASSUME NEW ms \in Seq(Messages), Named(ms)
    PROVE  Named(Primed(ms)) /\ Extends(Primed(ms), ms)
<1>1. CASE ms # <<>>
  BY <1>1 DEF Primed, Extends
<1>2. CASE ms = <<>>
  <2> DEFINE u == <<Message(UserQuery, "user", 0)>>
  <2>1. u[1].id = UserQuery /\ DOMAIN u = {1} /\ Len(u) = 1
    BY DEF Message
  <2>2. Primed(ms) = u
    BY <1>2 DEF Primed
  <2> HIDE DEF u
  <2>3. Named(u)
    BY <2>1 DEF Named, DistinctIds, Placed, UserQuery, Step
  <2> QED
    BY <1>2, <2>1, <2>2, <2>3 DEF Extends
<1> QED
  BY <1>1, <1>2

LEMMA NamedText ==
    ASSUME NEW ms \in Seq(Messages), NEW id \in Ids, Named(ms),
           \A i \in DOMAIN ms : ms[i].id # id, \A x \in Nat : id # Step(x)
    PROVE  Named(WithText(ms, id)) /\ Extends(WithText(ms, id), ms)
<1> DEFINE u == WithText(ms, id)
           L == Len(ms)
<1>1. /\ u \in Seq(Messages) /\ Len(u) = L + 1
      /\ \A i \in 1 .. L : u[i] = ms[i]
      /\ u[L + 1] = Message(id, "text", 0)
  BY WithTextIs
<1>2. L \in Nat
  OBVIOUS
<1> HIDE DEF u
<1>3. u[L + 1].id = id
  BY <1>1 DEF Message
<1>4. \A i \in DOMAIN u : i \in 1 .. L \/ i = L + 1
  BY <1>1, <1>2
<1>5. DistinctIds(u)
  <2> SUFFICES ASSUME NEW i \in DOMAIN u, NEW j \in DOMAIN u, u[i].id = u[j].id PROVE i = j
    BY DEF DistinctIds
  <2>1. CASE i \in 1 .. L /\ j \in 1 .. L
    BY <1>1, <2>1 DEF Named, DistinctIds
  <2> QED
    BY <1>1, <1>3, <1>4, <2>1
<1>6. Placed(u)
  BY <1>1, <1>3, <1>4 DEF Named, Placed
<1>7. Extends(u, ms)
  BY <1>1, <1>2 DEF Extends
<1> QED
  BY <1>5, <1>6, <1>7 DEF Named, u

LEMMA NamedStep ==
    ASSUME NEW ms \in Seq(Messages), NEW n \in Nat, NEW ids \in [1 .. n -> Ids], Named(ms),
           \A j \in 1 .. n : /\ \A i \in DOMAIN ms : ms[i].id # ids[j]
                             /\ \A x \in Nat : ids[j] # Step(x),
           \A j, k \in 1 .. n : ids[j] = ids[k] => j = k
    PROVE  Named(WithStep(ms, ids)) /\ Extends(WithStep(ms, ids), ms)
<1> DEFINE u == WithStep(ms, ids)
           L == Len(ms)
<1>1. /\ u \in Seq(Messages) /\ Len(u) = L + 1 + n
      /\ \A i \in 1 .. L : u[i] = ms[i]
      /\ u[L + 1] = Message(Step(L), "call", n)
      /\ \A j \in 1 .. n : u[L + 1 + j] = Message(ids[j], "tool", 0)
  BY WithStepIs
<1>2. L \in Nat /\ n \in Nat
  OBVIOUS
<1> HIDE DEF u
<1>3. u[L + 1].id = Step(L)
  BY <1>1 DEF Message
<1>4. \A i \in 1 .. L : u[i].id = ms[i].id /\ u[i].id # Step(L)
  BY <1>1, <1>2 DEF Named, Placed
<1>5. ASSUME NEW i \in L + 2 .. L + 1 + n
      PROVE  /\ i - (L + 1) \in 1 .. n /\ u[i].id = ids[i - (L + 1)]
             /\ \A x \in Nat : u[i].id # Step(x)
             /\ \A j \in 1 .. L : u[i].id # ms[j].id
  <2>1. i - (L + 1) \in 1 .. n /\ L + 1 + (i - (L + 1)) = i
    BY <1>2
  <2>2. u[i] = Message(ids[i - (L + 1)], "tool", 0)
    BY <1>1, <2>1
  <2>3. u[i].id = ids[i - (L + 1)]
    BY <2>2 DEF Message
  <2> QED
    BY <2>1, <2>3
<1>6. \A i \in DOMAIN u : i \in 1 .. L \/ i = L + 1 \/ i \in L + 2 .. L + 1 + n
  BY <1>1, <1>2
<1>7. DistinctIds(u)
  <2> SUFFICES ASSUME NEW i \in DOMAIN u, NEW j \in DOMAIN u, u[i].id = u[j].id PROVE i = j
    BY DEF DistinctIds
  <2>1. CASE i \in 1 .. L
    <3>1. j \in 1 .. L
      BY <1>2, <1>3, <1>4, <1>5, <1>6, <2>1
    <3> QED
      BY <1>4, <2>1, <3>1 DEF Named, DistinctIds
  <2>2. CASE i = L + 1
    BY <1>2, <1>3, <1>4, <1>5, <1>6, <2>2
  <2>3. CASE i \in L + 2 .. L + 1 + n
    <3>1. j \in L + 2 .. L + 1 + n
      BY <1>2, <1>3, <1>4, <1>5, <1>6, <2>3
    <3>2. i - (L + 1) = j - (L + 1)
      BY <1>5, <2>3, <3>1
    <3> QED
      BY <1>2, <2>3, <3>1, <3>2
  <2> QED
    BY <1>6, <2>1, <2>2, <2>3
<1>8. Placed(u)
  <2> SUFFICES ASSUME NEW i \in DOMAIN u, NEW x \in Nat, u[i].id = Step(x) PROVE x < i
    BY DEF Placed
  <2>1. CASE i \in 1 .. L
    BY <1>4, <2>1 DEF Named, Placed
  <2>2. CASE i = L + 1
    BY <1>2, <1>3, <2>2 DEF Step
  <2> QED
    BY <1>5, <1>6, <2>1, <2>2
<1>9. Extends(u, ms)
  <2>1. Len(ms) <= Len(u) /\ DOMAIN ms = 1 .. L
    BY <1>1, <1>2
  <2> QED
    BY <1>1, <2>1 DEF Extends
<1> QED
  BY <1>7, <1>8, <1>9 DEF Named, u

LEMMA NamedEdited ==
    ASSUME NEW ms \in Seq(Messages), NEW id, Named(ms)
    PROVE  Named(Edited(ms, id))
<1>1. /\ Edited(ms, id) \in Seq(Messages) /\ Len(Edited(ms, id)) = Len(ms)
      /\ \A i \in 1 .. Len(ms) : Edited(ms, id)[i].id = ms[i].id
  BY EditedIs
<1> QED
  BY <1>1, NamedPart

LEMMA NamedKept ==
    ASSUME NEW ms \in Seq(Messages), UserTurns(ms) # {}, Named(ms)
    PROVE  Named(Kept(ms))
<1>1. /\ Kept(ms) \in Seq(Messages) /\ Len(Kept(ms)) <= Len(ms)
      /\ \A i \in 1 .. Len(Kept(ms)) : Kept(ms)[i].id = ms[i].id
  BY KeptIs
<1> QED
  BY <1>1, NamedPart
-----------------------------------------------------------------------------
\* Steps of the holders.

\* Whoever is at work has a session, and a retry found a turn to go back to.
Located ==
    /\ \A r \in Runs : run[r].pc \notin {"idle", "over"} => run[r].s \in Sessions
    /\ \A a \in Routes : route[a].op # "none" => route[a].s \in Sessions
    /\ \A a \in Routes : route[a].op = "retry" => UserTurns(route[a].msgs) # {}

Typed == TypeInvariant /\ ViewsFinite /\ Located

\* A session that is stored stays so, with its messages.
StillThere(s) ==
    s \in Sessions /\ s \in Existing => s \in Existing' /\ store'[s].msgs = store[s].msgs

\* A holder that does nothing: it may only be overtaken, and is if its session changes.
RunRests(q) ==
    /\ run'[q].pc = run[q].pc /\ run'[q].s = run[q].s /\ run'[q].msgs = run[q].msgs
    /\ run'[q].prev = run[q].prev /\ run'[q].compacted = run[q].compacted
    /\ run'[q].current => run[q].current /\ StillThere(run[q].s)

RouteRests(a) ==
    /\ route'[a].op = route[a].op /\ route'[a].s = route[a].s /\ route'[a].msgs = route[a].msgs
    /\ route'[a].current => route[a].current /\ StillThere(route[a].s)

LEMMA WriteIs ==
    ASSUME TypeInvariant, NEW s \in Sessions, NEW ms \in Seq(Messages), NEW mk \in BOOLEAN,
           Write(s, ms, mk)
    PROVE  /\ store' \in [Sessions -> Stored \cup {NotStored}]
           /\ store'[s].msgs = ms /\ s \in Existing'
           /\ \A t \in Sessions \ {s} : store'[t] = store[t]
<1> DEFINE f == [msgs |-> ms, marked |-> mk, old |-> FALSE]
<1>1. f \in Stored /\ f # NotStored /\ f.msgs = ms
  <2>1. f \in Stored /\ f.msgs = ms
    BY DEF Stored
  <2> HIDE DEF f
  <2> QED
    BY <2>1, SessionEditsAssumption DEF SessionEditsAssumption
<1>2. store' = [store EXCEPT ![s] = f]
  BY DEF Write
<1>3. store \in [Sessions -> Stored \cup {NotStored}]
  BY DEF TypeInvariant
<1> HIDE DEF f
<1> QED
  BY <1>1, <1>2, <1>3 DEF Existing

\* What it means to be overtaken.
LEMMA Overtaken ==
    ASSUME NEW x \in RunType, NEW b \in BOOLEAN
    PROVE  LET y == [x EXCEPT !.current = @ /\ b]
           IN  /\ y \in RunType /\ y.pc = x.pc /\ y.s = x.s /\ y.msgs = x.msgs
               /\ y.prev = x.prev /\ y.compacted = x.compacted /\ y.marked = x.marked
               /\ y.current => x.current /\ b
BY DEF RunType

LEMMA OvertakenRoute ==
    ASSUME NEW x \in RouteType, NEW b \in BOOLEAN
    PROVE  LET y == [x EXCEPT !.current = @ /\ b]
           IN  /\ y \in RouteType /\ y.op = x.op /\ y.s = x.s /\ y.msgs = x.msgs
               /\ y.marked = x.marked /\ y.id = x.id
               /\ y.current => x.current /\ b
BY DEF RouteType

\* A step that changes nothing but session s, and tells all holders of it but those in R and A.
LEMMA OutdatedIs ==
    ASSUME TypeInvariant, NEW s \in Sessions, NEW h, Outdated(s, h),
           h.run \in Runs => h.to \in RunType,
           h.route \in Routes => h.to \in RouteType,
           \A t \in Sessions \ {s} : store'[t] = store[t]
    PROVE  /\ run' \in [Runs -> RunType] /\ route' \in [Routes -> RouteType]
           /\ h.run \in Runs => run'[h.run] = h.to
           /\ h.route \in Routes => route'[h.route] = h.to
           /\ \A q \in Runs : q # h.run => RunRests(q)
           /\ \A a \in Routes : a # h.route => RouteRests(a)
<1>1. ASSUME NEW q \in Runs, q # h.run
      PROVE  run'[q] \in RunType /\ RunRests(q)
  <2>1. run[q] \in RunType
    BY DEF TypeInvariant
  <2>2. run'[q] = [run[q] EXCEPT !.current = @ /\ run[q].s # s]
    BY <1>1 DEF Outdated
  <2> DEFINE b == run[q].s # s
             y == [run[q] EXCEPT !.current = @ /\ b]
  <2>3. b \in BOOLEAN
    OBVIOUS
  <2> HIDE DEF b
  <2>4. /\ y \in RunType /\ y.pc = run[q].pc /\ y.s = run[q].s /\ y.msgs = run[q].msgs
        /\ y.prev = run[q].prev /\ y.compacted = run[q].compacted
        /\ y.current => run[q].current /\ b
    BY <2>1, <2>3, Overtaken
  <2>5. run'[q] = y
    BY <2>2 DEF b
  <2> HIDE DEF y
  <2>6. b => StillThere(run[q].s)
    BY DEF StillThere, Existing, b
  <2> QED
    BY <2>4, <2>5, <2>6 DEF RunRests
<1>2. ASSUME NEW a \in Routes, a # h.route
      PROVE  route'[a] \in RouteType /\ RouteRests(a)
  <2>1. route[a] \in RouteType
    BY DEF TypeInvariant
  <2>2. route'[a] = [route[a] EXCEPT !.current = @ /\ route[a].s # s]
    BY <1>2 DEF Outdated
  <2> DEFINE b == route[a].s # s
             y == [route[a] EXCEPT !.current = @ /\ b]
  <2>3. b \in BOOLEAN
    OBVIOUS
  <2> HIDE DEF b
  <2>4. /\ y \in RouteType /\ y.op = route[a].op /\ y.s = route[a].s /\ y.msgs = route[a].msgs
        /\ y.current => route[a].current /\ b
    BY <2>1, <2>3, OvertakenRoute
  <2>5. route'[a] = y
    BY <2>2 DEF b
  <2> HIDE DEF y
  <2>6. b => StillThere(route[a].s)
    BY DEF StillThere, Existing, b
  <2> QED
    BY <2>4, <2>5, <2>6 DEF RouteRests
<1>3. h.run \in Runs => run'[h.run] = h.to
  BY DEF Outdated
<1>4. h.route \in Routes => route'[h.route] = h.to
  BY DEF Outdated
<1>5. \A q \in Runs : run'[q] \in RunType
  BY <1>1, <1>3
<1>6. \A a \in Routes : route'[a] \in RouteType
  BY <1>2, <1>4
<1>7. run' \in [Runs -> RunType]
  <2>1. run' = [q \in Runs |-> run'[q]]
    BY DEF Outdated
  <2> QED
    BY <1>5, <2>1
<1>8. route' \in [Routes -> RouteType]
  <2>1. route' = [a \in Routes |-> route'[a]]
    BY DEF Outdated
  <2> QED
    BY <1>6, <2>1
<1> QED
  BY <1>1, <1>2, <1>3, <1>4, <1>7, <1>8

LEMMA SaveByRun ==
    ASSUME TypeInvariant, NEW r \in Runs, NEW s \in Sessions, NEW ms \in Seq(Messages),
           NEW mk \in BOOLEAN, NEW to \in RunType,
           Write(s, ms, mk), Outdated(s, ByRun(r, to))
    PROVE  /\ store' \in [Sessions -> Stored \cup {NotStored}]
           /\ run' \in [Runs -> RunType] /\ route' \in [Routes -> RouteType]
           /\ store'[s].msgs = ms /\ s \in Existing'
           /\ \A t \in Sessions \ {s} : store'[t] = store[t]
           /\ run'[r] = to
           /\ \A q \in Runs \ {r} : RunRests(q)
           /\ \A a \in Routes : RouteRests(a)
<1> DEFINE h == ByRun(r, to)
<1>1. h.run = r /\ h.to = to /\ h.route = NotStored
  BY DEF ByRun
<1>2. NotStored \notin Routes
  BY SessionEditsAssumption DEF SessionEditsAssumption
<1>3. Outdated(s, h)
  OBVIOUS
<1> HIDE DEF h
<1>4. /\ store' \in [Sessions -> Stored \cup {NotStored}]
      /\ store'[s].msgs = ms /\ s \in Existing'
      /\ \A t \in Sessions \ {s} : store'[t] = store[t]
  BY WriteIs
<1>5. /\ run' \in [Runs -> RunType] /\ route' \in [Routes -> RouteType]
      /\ h.run \in Runs => run'[h.run] = h.to
      /\ \A q \in Runs : q # h.run => RunRests(q)
      /\ \A a \in Routes : a # h.route => RouteRests(a)
  BY <1>1, <1>2, <1>3, <1>4, OutdatedIs
<1> QED
  BY <1>1, <1>2, <1>4, <1>5

LEMMA SaveByRoute ==
    ASSUME TypeInvariant, NEW b \in Routes, NEW s \in Sessions, NEW ms \in Seq(Messages),
           NEW mk \in BOOLEAN, NEW to \in RouteType,
           Write(s, ms, mk), Outdated(s, ByRoute(b, to))
    PROVE  /\ store' \in [Sessions -> Stored \cup {NotStored}]
           /\ run' \in [Runs -> RunType] /\ route' \in [Routes -> RouteType]
           /\ store'[s].msgs = ms /\ s \in Existing'
           /\ \A t \in Sessions \ {s} : store'[t] = store[t]
           /\ route'[b] = to
           /\ \A q \in Runs : RunRests(q)
           /\ \A a \in Routes \ {b} : RouteRests(a)
<1> DEFINE h == ByRoute(b, to)
<1>1. h.run = NotStored /\ h.to = to /\ h.route = b
  BY DEF ByRoute
<1>2. NotStored \notin Runs
  BY SessionEditsAssumption DEF SessionEditsAssumption
<1>3. Outdated(s, h)
  OBVIOUS
<1> HIDE DEF h
<1>4. /\ store' \in [Sessions -> Stored \cup {NotStored}]
      /\ store'[s].msgs = ms /\ s \in Existing'
      /\ \A t \in Sessions \ {s} : store'[t] = store[t]
  BY WriteIs
<1>5. /\ run' \in [Runs -> RunType] /\ route' \in [Routes -> RouteType]
      /\ h.route \in Routes => route'[h.route] = h.to
      /\ \A q \in Runs : q # h.run => RunRests(q)
      /\ \A a \in Routes : a # h.route => RouteRests(a)
  BY <1>1, <1>2, <1>3, <1>4, OutdatedIs
<1> QED
  BY <1>1, <1>2, <1>4, <1>5

LEMMA RemoveIs ==
    ASSUME TypeInvariant, NEW s \in Sessions, store' = [store EXCEPT ![s] = NotStored],
           Outdated(s, ByRun(NotStored, IdleRun))
    PROVE  /\ store' \in [Sessions -> Stored \cup {NotStored}]
           /\ run' \in [Runs -> RunType] /\ route' \in [Routes -> RouteType]
           /\ s \notin Existing'
           /\ \A t \in Sessions \ {s} : store'[t] = store[t]
           /\ \A q \in Runs : RunRests(q)
           /\ \A a \in Routes : RouteRests(a)
<1> DEFINE h == ByRun(NotStored, IdleRun)
<1>1. h.run = NotStored /\ h.route = NotStored
  BY DEF ByRun
<1>2. NotStored \notin Runs /\ NotStored \notin Routes
  BY SessionEditsAssumption DEF SessionEditsAssumption
<1>3. Outdated(s, h)
  OBVIOUS
<1> HIDE DEF h
<1>4. /\ store' \in [Sessions -> Stored \cup {NotStored}] /\ s \notin Existing'
      /\ \A t \in Sessions \ {s} : store'[t] = store[t]
  BY DEF TypeInvariant, Existing
<1>5. /\ run' \in [Runs -> RunType] /\ route' \in [Routes -> RouteType]
      /\ \A q \in Runs : q # h.run => RunRests(q)
      /\ \A a \in Routes : a # h.route => RouteRests(a)
  BY <1>1, <1>2, <1>3, <1>4, OutdatedIs
<1> QED
  BY <1>1, <1>2, <1>4, <1>5
-----------------------------------------------------------------------------
\* The invariant.

\* Run r will announce the message at place i of session s, when it returns or is caught.
Owes(r, s, i) ==
    /\ run[r].s = s /\ run[r].prev < i
    /\ run[r].pc \in {"running", "returned", "threw", "caught"}

Item(m) == [id |-> m.id, ver |-> m.ver]

\* A client knows nothing but what is stored, and whatever it does not know yet is owed by a
\* run at work.
Follows(s) ==
    s \notin excused =>
        /\ s \notin Existing => view[s] = {}
        /\ s \in Existing =>
              /\ Named(store[s].msgs)
              /\ view[s] \subseteq Seen(store[s].msgs)
              /\ \A i \in DOMAIN store[s].msgs :
                    Item(store[s].msgs[i]) \in view[s] \/ \E r \in Runs : Owes(r, s, i)

\* A run that nobody has overtaken has what is stored, and more behind it while it works.
RunKnows(r) ==
    LET s == run[r].s
        works == run[r].pc \in {"running", "returned"}
        loads == run[r].pc \in {"loaded", "caught", "clearing"}
    IN  s \in Sessions /\ s \notin excused =>
        /\ loads \/ (works /\ ~run[r].compacted) => Named(run[r].msgs)
        /\ run[r].current /\ loads => s \in Existing /\ run[r].msgs = store[s].msgs
        /\ run[r].current /\ works /\ ~run[r].compacted =>
              /\ s \in Existing /\ run[r].prev <= Len(store[s].msgs)
              /\ Extends(run[r].msgs, store[s].msgs)

RouteKnows(a) ==
    LET s == route[a].s
    IN  s \in Sessions /\ s \notin excused =>
        /\ Named(route[a].msgs)
        /\ route[a].current => s \in Existing /\ route[a].msgs = store[s].msgs

Pairs == ~Compressing => PairsKept

EditsInv ==
    /\ Typed /\ Pairs
    /\ \A s \in Sessions : Follows(s)
    /\ \A r \in Runs : RunKnows(r)
    /\ \A a \in Routes : RouteKnows(a)

LEMMA RunFrame ==
    ASSUME NEW q \in Runs, RunKnows(q), RunRests(q), excused \subseteq excused'
    PROVE  RunKnows(q)'
BY DEF RunKnows, RunRests, StillThere

LEMMA RouteFrame ==
    ASSUME NEW a \in Routes, RouteKnows(a), RouteRests(a), excused \subseteq excused'
    PROVE  RouteKnows(a)'
BY DEF RouteKnows, RouteRests, StillThere

LEMMA FollowsFrame ==
    ASSUME NEW t \in Sessions, Follows(t), excused \subseteq excused',
           store'[t] = store[t], view'[t] = view[t],
           \A q \in Runs : RunRests(q) \/ \A i \in Nat : ~Owes(q, t, i),
           Typed
    PROVE  Follows(t)'
<1> SUFFICES ASSUME t \notin excused' PROVE Follows(t)'
  BY DEF Follows
<1>1. (t \in Existing' <=> t \in Existing) /\ t \notin excused
  BY DEF Existing
<1>2. CASE t \notin Existing
  BY <1>1, <1>2 DEF Follows
<1>3. CASE t \in Existing
  <2>1. store[t].msgs \in Seq(Messages)
    BY <1>3 DEF Typed, TypeInvariant, Stored, Existing
  <2>2. ASSUME NEW i \in DOMAIN store[t].msgs, NEW q \in Runs, Owes(q, t, i) PROVE Owes(q, t, i)'
    <3>1. i \in Nat
      BY <2>1
    <3>2. RunRests(q)
      BY <2>2, <3>1
    <3> QED
      BY <2>2, <3>2 DEF Owes, RunRests
  <2> QED
    BY <1>1, <1>3, <2>2 DEF Follows
<1> QED
  BY <1>2, <1>3

\* A step that moves some holders and what belongs to session s.
LEMMA SessionMoves ==
    ASSUME EditsInv, NEW s \in Sessions,
           store' \in [Sessions -> Stored \cup {NotStored}],
           run' \in [Runs -> RunType], route' \in [Routes -> RouteType],
           view' \in [Sessions -> SUBSET [id : Ids, ver : 0 .. 1]], IsFiniteSet(view'[s]),
           \A t \in Sessions \ {s} : store'[t] = store[t] /\ view'[t] = view[t],
           \A q \in Runs :
              \/ RunRests(q)
              \/ /\ \A t \in Sessions \ {s} : \A i \in Nat : ~Owes(q, t, i)
                 /\ run'[q].pc \notin {"idle", "over"} => run'[q].s \in Sessions
                 /\ RunKnows(q)'
                 /\ ~Compressing => Paired(run'[q].msgs),
           \A a \in Routes :
              \/ RouteRests(a)
              \/ /\ route'[a].op # "none" => route'[a].s \in Sessions
                 /\ route'[a].op = "retry" => UserTurns(route'[a].msgs) # {}
                 /\ RouteKnows(a)'
                 /\ ~Compressing => Paired(route'[a].msgs),
           excused \subseteq excused', excused' \subseteq Sessions, sweep' \subseteq Sessions,
           edits' \in 0 .. MaxEdits, Follows(s)',
           ~Compressing /\ s \in Existing' => Paired(store'[s].msgs)
    PROVE  EditsInv'
<1>1. Typed'
  <2>1. TypeInvariant'
    BY DEF EditsInv, Typed, TypeInvariant
  <2>2. ViewsFinite'
    BY DEF EditsInv, Typed, ViewsFinite
  <2>3. Located'
    BY DEF EditsInv, Typed, Located, RunRests, RouteRests
  <2> QED
    BY <2>1, <2>2, <2>3 DEF Typed
<1>2. Pairs'
  <2> SUFFICES ASSUME ~Compressing PROVE PairsKept'
    BY DEF Pairs
  <2>1. PairsKept
    BY DEF EditsInv, Pairs
  <2>2. \A q \in Runs : Paired(run'[q].msgs)
    BY <2>1 DEF RunRests, PairsKept, Transcripts
  <2>3. \A a \in Routes : Paired(route'[a].msgs)
    BY <2>1 DEF RouteRests, PairsKept, Transcripts
  <2>4. \A t \in Existing' : Paired(store'[t].msgs)
    BY <2>1 DEF Existing, PairsKept, Transcripts
  <2> QED
    BY <2>2, <2>3, <2>4 DEF PairsKept, Transcripts
<1>3. ASSUME NEW t \in Sessions PROVE Follows(t)'
  <2>1. CASE t = s
    BY <2>1
  <2>2. CASE t # s
    BY <2>2, FollowsFrame DEF EditsInv
  <2> QED
    BY <2>1, <2>2
<1>4. ASSUME NEW q \in Runs PROVE RunKnows(q)'
  BY RunFrame DEF EditsInv
<1>5. ASSUME NEW a \in Routes PROVE RouteKnows(a)'
  BY RouteFrame DEF EditsInv
<1> QED
  BY <1>1, <1>2, <1>3, <1>4, <1>5 DEF EditsInv

\* A step of run r, and of route b.
LEMMA RunMoves ==
    ASSUME EditsInv, NEW r \in Runs, NEW s \in Sessions,
           store' \in [Sessions -> Stored \cup {NotStored}],
           run' \in [Runs -> RunType], route' \in [Routes -> RouteType],
           \A t \in Sessions \ {s} : store'[t] = store[t] /\ view'[t] = view[t],
           \A q \in Runs \ {r} : RunRests(q),
           \A a \in Routes : RouteRests(a),
           \A t \in Sessions \ {s} : \A i \in Nat : ~Owes(r, t, i),
           excused \subseteq excused', excused' \subseteq Sessions, sweep' \subseteq Sessions,
           edits' \in 0 .. MaxEdits,
           view' \in [Sessions -> SUBSET [id : Ids, ver : 0 .. 1]], IsFiniteSet(view'[s]),
           run'[r].pc \notin {"idle", "over"} => run'[r].s \in Sessions,
           Follows(s)', RunKnows(r)',
           ~Compressing => Paired(run'[r].msgs) /\ (s \in Existing' => Paired(store'[s].msgs))
    PROVE  EditsInv'
BY SessionMoves

LEMMA RouteMoves ==
    ASSUME EditsInv, NEW b \in Routes, NEW s \in Sessions,
           store' \in [Sessions -> Stored \cup {NotStored}],
           run' \in [Runs -> RunType], route' \in [Routes -> RouteType],
           \A t \in Sessions \ {s} : store'[t] = store[t] /\ view'[t] = view[t],
           \A q \in Runs : RunRests(q),
           \A a \in Routes \ {b} : RouteRests(a),
           excused \subseteq excused', excused' \subseteq Sessions, sweep' \subseteq Sessions,
           edits' \in 0 .. MaxEdits,
           view' \in [Sessions -> SUBSET [id : Ids, ver : 0 .. 1]], IsFiniteSet(view'[s]),
           route'[b].op # "none" => route'[b].s \in Sessions,
           route'[b].op = "retry" => UserTurns(route'[b].msgs) # {},
           Follows(s)', RouteKnows(b)',
           ~Compressing => Paired(route'[b].msgs) /\ (s \in Existing' => Paired(store'[s].msgs))
    PROVE  EditsInv'
BY SessionMoves

\* What stands in store s grows, and whatever becomes of the debts of it is announced.
LEMMA FollowsGrows ==
    ASSUME NEW s \in Sessions, Follows(s), s \notin excused, s \in Existing,
           NEW old \in Seq(Messages), old = store[s].msgs,
           NEW ms \in Seq(Messages), store'[s].msgs = ms, s \in Existing',
           Extends(ms, old), Named(ms),
           view[s] \subseteq view'[s], view'[s] \subseteq view[s] \cup Seen(ms),
           \A i \in DOMAIN ms : i > Len(old) =>
              Item(ms[i]) \in view'[s] \/ \E q \in Runs : Owes(q, s, i)',
           \A i \in DOMAIN old : \A q \in Runs : Owes(q, s, i) =>
              Owes(q, s, i)' \/ Item(ms[i]) \in view'[s]
    PROVE  Follows(s)'
<1>1. view[s] \subseteq Seen(old)
  BY DEF Follows
<1>2. DOMAIN old = 1 .. Len(old) /\ DOMAIN ms = 1 .. Len(ms) /\ Len(old) \in Nat
  OBVIOUS
<1>3. Seen(old) \subseteq Seen(ms)
  <2>1. \A i \in DOMAIN old : i \in DOMAIN ms /\ ms[i] = old[i]
    BY <1>2 DEF Extends
  <2> QED
    BY <2>1 DEF Seen
<1>4. ASSUME NEW i \in DOMAIN ms
      PROVE  Item(ms[i]) \in view'[s] \/ \E q \in Runs : Owes(q, s, i)'
  <2>1. CASE i > Len(old)
    BY <2>1
  <2>2. CASE i \in DOMAIN old
    <3>1. ms[i] = old[i]
      BY <2>2 DEF Extends
    <3>2. Item(old[i]) \in view[s] \/ \E q \in Runs : Owes(q, s, i)
      BY <2>2 DEF Follows
    <3> QED
      BY <2>2, <3>1, <3>2
  <2> QED
    BY <1>2, <2>1, <2>2
<1> QED
  BY <1>1, <1>3, <1>4 DEF Follows

\* What Added announces.
LEMMA AddedIs ==
    ASSUME NEW ms \in Seq(Messages), NEW n \in Nat
    PROVE  LET new == Seen(SubSeq(ms, n + 1, Len(ms)))
           IN  /\ new \subseteq Seen(ms)
               /\ \A i \in DOMAIN ms : i > n => Item(ms[i]) \in new
<1> DEFINE v == SubSeq(ms, n + 1, Len(ms))
<1>1. DOMAIN ms = 1 .. Len(ms) /\ Len(ms) \in Nat
  OBVIOUS
<1>2. CASE n <= Len(ms)
  <2>1. /\ v \in Seq(Messages) /\ Len(v) = Len(ms) - n
        /\ \A i \in 1 .. Len(ms) - n : v[i] = ms[n + i]
    <3>1. n + 1 \in 1 .. Len(ms) + 1 /\ Len(ms) \in (n + 1) - 1 .. Len(ms)
      BY <1>1, <1>2
    <3>2. /\ v \in Seq(Messages) /\ Len(v) = Len(ms) - (n + 1) + 1
          /\ \A i \in 1 .. Len(ms) - (n + 1) + 1 : v[i] = ms[(n + 1) + i - 1]
      BY <3>1, Part
    <3> HIDE DEF v
    <3> QED
      BY <1>1, <3>2
  <2> HIDE DEF v
  <2>2. DOMAIN v = 1 .. Len(ms) - n
    BY <2>1
  <2>3. ASSUME NEW i \in DOMAIN v PROVE n + i \in DOMAIN ms /\ v[i] = ms[n + i]
    BY <1>1, <2>1, <2>2
  <2>4. ASSUME NEW i \in DOMAIN ms, i > n PROVE i - n \in DOMAIN v /\ v[i - n] = ms[i]
    <3>1. i - n \in 1 .. Len(ms) - n /\ n + (i - n) = i
      BY <1>1, <2>4
    <3> QED
      BY <2>1, <2>2, <3>1
  <2> QED
    BY <2>3, <2>4 DEF Seen, Item, v
<1>3. CASE n > Len(ms)
  <2>1. v = <<>>
    BY <1>1, <1>3
  <2>2. Seen(v) = {}
    BY <2>1 DEF Seen
  <2> QED
    BY <1>1, <1>3, <2>2
<1> QED
  BY <1>1, <1>2, <1>3

LEMMA LocalRun ==
    ASSUME TypeInvariant, NEW r \in Runs, NEW to \in RunType, run' = [run EXCEPT ![r] = to],
           UNCHANGED <<store, route>>
    PROVE  /\ store' \in [Sessions -> Stored \cup {NotStored}]
           /\ run' \in [Runs -> RunType] /\ route' \in [Routes -> RouteType]
           /\ Existing' = Existing /\ run'[r] = to
           /\ \A q \in Runs \ {r} : RunRests(q)
           /\ \A a \in Routes : RouteRests(a)
<1>1. Existing' = Existing
  BY DEF Existing
<1>2. /\ store' \in [Sessions -> Stored \cup {NotStored}]
      /\ run' \in [Runs -> RunType] /\ route' \in [Routes -> RouteType] /\ run'[r] = to
  BY DEF TypeInvariant
<1>3. \A s : StillThere(s)
  BY <1>1 DEF StillThere
<1>4. \A q \in Runs \ {r} : run'[q] = run[q]
  BY DEF TypeInvariant
<1> QED
  BY <1>1, <1>2, <1>3, <1>4 DEF RunRests, RouteRests
-----------------------------------------------------------------------------
\* The steps of a run.

\* A run at work on a session, and what is known of both.
LEMMA AtWork ==
    ASSUME EditsInv, NEW r \in Runs, run[r].pc \notin {"idle", "over"}
    PROVE  /\ run[r] \in RunType /\ run[r].s \in Sessions /\ run[r].msgs \in Seq(Messages)
           /\ run[r].prev \in Nat /\ run[r].marked \in BOOLEAN
           /\ TypeInvariant /\ Follows(run[r].s) /\ RunKnows(r)
           /\ ~Compressing => Paired(run[r].msgs)
           /\ \A t \in Sessions \ {run[r].s} : \A i \in Nat : ~Owes(r, t, i)
<1>1. TypeInvariant /\ Located
  BY DEF EditsInv, Typed
<1>2. run[r] \in RunType
  BY <1>1 DEF TypeInvariant
<1>3. run[r].s \in Sessions
  BY <1>1 DEF Located
<1>4. Follows(run[r].s) /\ RunKnows(r)
  BY <1>3 DEF EditsInv
<1>5. run[r].msgs \in Transcripts
  BY DEF Transcripts
<1>6. ~Compressing => Paired(run[r].msgs)
  BY <1>5 DEF EditsInv, Pairs, PairsKept
<1>7. \A t \in Sessions \ {run[r].s} : \A i \in Nat : ~Owes(r, t, i)
  BY DEF Owes
<1>8. /\ run[r].msgs \in Seq(Messages) /\ run[r].prev \in Nat /\ run[r].marked \in BOOLEAN
  BY <1>2 DEF RunType
<1> QED
  BY <1>1, <1>2, <1>3, <1>4, <1>6, <1>7, <1>8

LEMMA StoredIs ==
    ASSUME EditsInv, NEW s \in Existing
    PROVE  /\ s \in Sessions /\ store[s] \in Stored /\ store[s].msgs \in Seq(Messages)
           /\ store[s].marked \in BOOLEAN
           /\ ~Compressing => Paired(store[s].msgs)
<1>1. s \in Sessions /\ store[s] \in Stored
  BY DEF EditsInv, Typed, TypeInvariant, Existing
<1>2. store[s].msgs \in Seq(Messages) /\ store[s].marked \in BOOLEAN
  BY <1>1 DEF Stored
<1>3. store[s].msgs \in Transcripts
  BY DEF Transcripts
<1> QED
  BY <1>1, <1>2, <1>3 DEF EditsInv, Pairs, PairsKept

\* The parts of the state that most steps leave alone.
LEMMA RestIs ==
    ASSUME EditsInv
    PROVE  /\ sweep \subseteq Sessions /\ excused \subseteq Sessions /\ edits \in 0 .. MaxEdits
           /\ view \in [Sessions -> SUBSET [id : Ids, ver : 0 .. 1]]
           /\ \A s \in Sessions : IsFiniteSet(view[s])
           /\ MaxEdits \in Nat
           /\ \A s \in Sessions : Follows(s)
           /\ IsFiniteSet(UsedIds)
BY UsedFinite, SessionEditsAssumption
   DEF EditsInv, Typed, TypeInvariant, ViewsFinite, SessionEditsAssumption

\* A step of run r that only changes what the run holds.
LEMMA LocalStep ==
    ASSUME EditsInv, NEW r \in Runs, NEW s \in Sessions, run[r].s = s,
           run[r].pc \notin {"idle", "over"},
           NEW to \in RunType, run' = [run EXCEPT ![r] = to],
           UNCHANGED <<store, route, sweep, view, excused>>, edits' \in 0 .. MaxEdits,
           to.pc \notin {"idle", "over"} => to.s = s,
           s \in Existing => \A i \in DOMAIN store[s].msgs : Owes(r, s, i) => Owes(r, s, i)',
           RunKnows(r)',
           ~Compressing => Paired(to.msgs)
    PROVE  EditsInv'
<1>1. /\ s \in Sessions /\ TypeInvariant /\ Follows(s)
      /\ \A t \in Sessions \ {s} : \A i \in Nat : ~Owes(r, t, i)
  BY AtWork
<1>2. /\ store' \in [Sessions -> Stored \cup {NotStored}]
      /\ run' \in [Runs -> RunType] /\ route' \in [Routes -> RouteType]
      /\ Existing' = Existing /\ run'[r] = to
      /\ \A q \in Runs \ {r} : RunRests(q)
      /\ \A a \in Routes : RouteRests(a)
  BY <1>1, LocalRun
<1>3. Follows(s)'
  <2> SUFFICES ASSUME s \notin excused, s \in Existing,
                      NEW i \in DOMAIN store[s].msgs, NEW q \in Runs, Owes(q, s, i)
               PROVE  Owes(q, s, i)'
    BY <1>1, <1>2 DEF Follows
  <2>1. CASE q = r
    BY <2>1
  <2>2. CASE q # r
    BY <1>2, <2>2 DEF Owes, RunRests
  <2> QED
    BY <2>1, <2>2
<1>4. ~Compressing => Paired(run'[r].msgs) /\ (s \in Existing' => Paired(store'[s].msgs))
  BY <1>2, StoredIs
<1>5. run'[r].pc \notin {"idle", "over"} => run'[r].s \in Sessions
  BY <1>1, <1>2
<1>6. /\ \A t \in Sessions \ {s} : store'[t] = store[t] /\ view'[t] = view[t]
      /\ excused \subseteq excused' /\ excused' \subseteq Sessions /\ sweep' \subseteq Sessions
      /\ view' \in [Sessions -> SUBSET [id : Ids, ver : 0 .. 1]] /\ IsFiniteSet(view'[s])
  BY <1>1, RestIs
<1> QED
  BY <1>1, <1>2, <1>3, <1>4, <1>5, <1>6, RunMoves

\* A save of run r, excused if the run was overtaken or has optimised.
LEMMA SaveStep ==
    ASSUME EditsInv, NEW r \in Runs, NEW s \in Sessions, run[r].s = s,
           run[r].pc \notin {"idle", "over"},
           NEW ms \in Seq(Messages), NEW mk \in BOOLEAN, NEW to \in RunType,
           Write(s, ms, mk), Outdated(s, ByRun(r, to)),
           to.pc \notin {"idle", "over"} => to.s = s,
           excused \subseteq excused', excused' \subseteq Sessions, sweep' = sweep, edits' = edits,
           view' = [view EXCEPT ![s] = view'[s]],
           view'[s] \subseteq view[s] \cup Seen(ms), view[s] \subseteq view'[s],
           s \notin excused' =>
              /\ s \in Existing /\ Extends(ms, store[s].msgs) /\ Named(ms)
              /\ \A i \in DOMAIN ms : i > Len(store[s].msgs) =>
                    Item(ms[i]) \in view'[s] \/ (to.s = s /\ to.prev < i
                       /\ to.pc \in {"running", "returned", "threw", "caught"})
              /\ \A i \in DOMAIN store[s].msgs : Owes(r, s, i) =>
                    \/ Item(ms[i]) \in view'[s]
                    \/ to.s = s /\ to.prev < i
                       /\ to.pc \in {"running", "returned", "threw", "caught"},
           s \notin excused' /\ to.s = s /\ to.pc \in {"running", "returned"} =>
              /\ to.prev <= Len(ms) /\ Extends(to.msgs, ms) /\ Named(to.msgs),
           s \notin excused' /\ to.s = s => to.pc \notin {"loaded", "caught", "clearing"},
           to.pc \in {"idle", "over"} => to.s \notin Sessions,
           ~Compressing => Paired(ms) /\ Paired(to.msgs)
    PROVE  EditsInv'
<1>1. TypeInvariant /\ Follows(s) /\ \A t \in Sessions \ {s} : \A i \in Nat : ~Owes(r, t, i)
  BY AtWork
<1>2. /\ store' \in [Sessions -> Stored \cup {NotStored}]
      /\ run' \in [Runs -> RunType] /\ route' \in [Routes -> RouteType]
      /\ store'[s].msgs = ms /\ s \in Existing'
      /\ \A t \in Sessions \ {s} : store'[t] = store[t]
      /\ run'[r] = to
      /\ \A q \in Runs \ {r} : RunRests(q)
      /\ \A a \in Routes : RouteRests(a)
  BY <1>1, SaveByRun
<1>3. Follows(s)'
  <2>1. CASE s \in excused'
    BY <2>1 DEF Follows
  <2>2. CASE s \notin excused'
    <3>1. PICK old : old = store[s].msgs
      OBVIOUS
    <3>2. /\ s \in Existing /\ s \notin excused /\ old \in Seq(Messages)
          /\ Extends(ms, old) /\ Named(ms)
      BY <2>2, <3>1, StoredIs
    <3>3. ASSUME NEW i \in DOMAIN ms, i > Len(old)
          PROVE  Item(ms[i]) \in view'[s] \/ \E q \in Runs : Owes(q, s, i)'
      BY <1>2, <2>2, <3>1, <3>3 DEF Owes
    <3>4. ASSUME NEW i \in DOMAIN old, NEW q \in Runs, Owes(q, s, i)
          PROVE  Owes(q, s, i)' \/ Item(ms[i]) \in view'[s]
      <4>1. CASE q = r
        BY <1>2, <2>2, <3>1, <3>4, <4>1 DEF Owes
      <4>2. CASE q # r
        BY <1>2, <3>4, <4>2 DEF Owes, RunRests
      <4> QED
        BY <4>1, <4>2
    <3> QED
      BY <1>1, <1>2, <3>1, <3>2, <3>3, <3>4, FollowsGrows
  <2> QED
    BY <2>1, <2>2
<1>4. RunKnows(r)'
  <2> SUFFICES ASSUME to.s \in Sessions, to.s \notin excused'
               PROVE  RunKnows(r)'
    BY <1>2 DEF RunKnows
  <2>1. to.s = s
    OBVIOUS
  <2> QED
    BY <1>2, <2>1 DEF RunKnows
<1>5. run'[r].pc \notin {"idle", "over"} => run'[r].s \in Sessions
  BY <1>2
<1>6. ~Compressing => Paired(run'[r].msgs) /\ (s \in Existing' => Paired(store'[s].msgs))
  BY <1>2
<1>7. /\ sweep' \subseteq Sessions /\ edits' \in 0 .. MaxEdits
      /\ view' \in [Sessions -> SUBSET [id : Ids, ver : 0 .. 1]] /\ IsFiniteSet(view'[s])
      /\ \A t \in Sessions \ {s} : view'[t] = view[t]
  <2>1. /\ view \in [Sessions -> SUBSET [id : Ids, ver : 0 .. 1]] /\ IsFiniteSet(view[s])
        /\ sweep \subseteq Sessions /\ edits \in 0 .. MaxEdits
    BY RestIs
  <2>2. /\ Seen(ms) \subseteq [id : Ids, ver : 0 .. 1] /\ IsFiniteSet(Seen(ms))
    BY SeenFinite
  <2>3. IsFiniteSet(view[s] \cup Seen(ms))
    BY <2>1, <2>2, FS_Union
  <2>4. IsFiniteSet(view'[s])
    BY <2>3, FS_Subset
  <2>5. view'[s] \subseteq [id : Ids, ver : 0 .. 1]
    BY <2>1, <2>2
  <2> QED
    BY <2>1, <2>4, <2>5
<1> QED
  BY <1>1, <1>2, <1>3, <1>4, <1>5, <1>6, <1>7, RunMoves
-----------------------------------------------------------------------------
\* The actions of a run.

LEMMA UsedHas ==
    ASSUME NEW r \in Runs, NEW i \in DOMAIN run[r].msgs
    PROVE  run[r].msgs[i].id \in UsedIds
BY DEF UsedIds, Transcripts

LEMMA ExcuseIs ==
    ASSUME EditsInv, NEW s \in Sessions, NEW why \in BOOLEAN, Excuse(s, why)
    PROVE  /\ excused \subseteq excused' /\ excused' \subseteq Sessions
           /\ s \notin excused' => ~why /\ s \notin excused
BY RestIs DEF Excuse

LEMMA ExtendsTwice ==
    ASSUME NEW a \in Seq(Messages), NEW b \in Seq(Messages), NEW c \in Seq(Messages),
           Extends(c, b), Extends(b, a)
    PROVE  Extends(c, a)
BY DEF Extends

LEMMA ExtendsItself ==
    ASSUME NEW a \in Seq(Messages)
    PROVE  Extends(a, a)
BY DEF Extends

LEMMA MarkKeeps ==
    ASSUME EditsInv, NEW r \in Runs, Mark(r)
    PROVE  EditsInv'
<1>1. PICK s, ms, to :
         /\ s = run[r].s /\ ms = run[r].msgs
         /\ to = [run[r] EXCEPT !.pc = "running", !.current = TRUE,
                                !.prev = Len(ms), !.msgs = Primed(ms)]
  OBVIOUS
<1>2. /\ run[r].pc = "loaded" /\ Write(s, ms, TRUE) /\ Outdated(s, ByRun(r, to))
      /\ Excuse(s, ~run[r].current) /\ UNCHANGED <<sweep, view, edits>>
  BY <1>1 DEF Mark
<1>3. /\ run[r] \in RunType /\ s \in Sessions /\ ms \in Seq(Messages)
      /\ TypeInvariant /\ Follows(s) /\ RunKnows(r)
      /\ ~Compressing => Paired(ms)
  BY <1>1, <1>2, AtWork
<1>4. Primed(ms) \in Seq(Messages) /\ Len(ms) \in Nat
  BY <1>3, PrimedIs
<1>5. /\ to \in RunType /\ to.pc = "running" /\ to.s = s /\ to.prev = Len(ms)
      /\ to.msgs = Primed(ms)
  BY <1>1, <1>3, <1>4 DEF RunType
<1>6. /\ excused \subseteq excused' /\ excused' \subseteq Sessions
      /\ s \notin excused' => run[r].current /\ s \notin excused
  BY <1>2, <1>3, ExcuseIs DEF RunType
<1>7. s \notin excused' => s \in Existing /\ ms = store[s].msgs /\ Named(ms)
  BY <1>1, <1>2, <1>3, <1>6 DEF RunKnows
<1>8. s \notin excused' => Extends(Primed(ms), ms) /\ Named(Primed(ms))
  BY <1>3, <1>7, NamedPrimed
<1>9. ~Compressing => Paired(Primed(ms))
  BY <1>3, PairedPrimed
<1>10. Extends(ms, ms)
  BY <1>3, ExtendsItself
<1>11. \A i : ~Owes(r, s, i)
  BY <1>2 DEF Owes
<1>12. \A i \in DOMAIN ms : ~(i > Len(ms))
  BY <1>3
<1>13. s \notin excused' =>
          /\ s \in Existing /\ Extends(ms, store[s].msgs) /\ Named(ms)
          /\ \A i \in DOMAIN ms : i > Len(store[s].msgs) =>
                Item(ms[i]) \in view'[s] \/ (to.s = s /\ to.prev < i
                   /\ to.pc \in {"running", "returned", "threw", "caught"})
          /\ \A i \in DOMAIN store[s].msgs : Owes(r, s, i) =>
                \/ Item(ms[i]) \in view'[s]
                \/ to.s = s /\ to.prev < i
                   /\ to.pc \in {"running", "returned", "threw", "caught"}
  BY <1>7, <1>10, <1>11, <1>12
<1>14. s \notin excused' /\ to.s = s /\ to.pc \in {"running", "returned"} =>
              /\ to.prev <= Len(ms) /\ Extends(to.msgs, ms) /\ Named(to.msgs)
  BY <1>4, <1>5, <1>8
<1>15. UNCHANGED <<view, sweep, edits>> /\ run[r].s = s /\ run[r].pc \notin {"idle", "over"}
       /\ view' = [view EXCEPT ![s] = view'[s]]
  BY <1>1, <1>2, RestIs
<1> QED
  BY <1>2, <1>3, <1>5, <1>6, <1>9, <1>13, <1>14, <1>15, SaveStep

\* What a run saves on its way is owed until it is announced.
LEMMA LoopSavesKeeps ==
    ASSUME EditsInv, NEW r \in Runs, run[r].pc = "running", NEW ms \in Seq(Messages),
           NEW pc \in {"running", "returned", "threw"}, LoopSaves(r, ms, pc),
           Named(run[r].msgs) => Named(ms) /\ Extends(ms, run[r].msgs),
           ~Compressing => Paired(ms)
    PROVE  EditsInv'
<1>1. PICK s, to :
         s = run[r].s /\ to = [run[r] EXCEPT !.pc = pc, !.current = TRUE, !.msgs = ms]
  OBVIOUS
<1>2. /\ Write(s, ms, run[r].marked) /\ Outdated(s, ByRun(r, to))
      /\ Excuse(s, ~run[r].current \/ run[r].compacted) /\ UNCHANGED <<sweep, view, edits>>
  BY <1>1 DEF LoopSaves
<1>3. /\ run[r] \in RunType /\ s \in Sessions /\ run[r].marked \in BOOLEAN
      /\ run[r].msgs \in Seq(Messages) /\ run[r].prev \in Nat /\ RunKnows(r)
  BY <1>1, AtWork
<1>4. /\ to \in RunType /\ to.pc = pc /\ to.s = s /\ to.prev = run[r].prev /\ to.msgs = ms
  BY <1>1, <1>3 DEF RunType
<1>5. /\ excused \subseteq excused' /\ excused' \subseteq Sessions
      /\ s \notin excused' => run[r].current /\ ~run[r].compacted /\ s \notin excused
  BY <1>2, <1>3, ExcuseIs DEF RunType
<1>6. s \notin excused' =>
         /\ s \in Existing /\ run[r].prev <= Len(store[s].msgs) /\ Named(ms)
         /\ Extends(run[r].msgs, store[s].msgs) /\ Extends(ms, run[r].msgs)
  BY <1>1, <1>3, <1>5 DEF RunKnows
<1>7. s \notin excused' =>
         /\ Extends(ms, store[s].msgs) /\ run[r].prev <= Len(ms)
         /\ \A i \in DOMAIN ms : i > Len(store[s].msgs) => run[r].prev < i
  <2> SUFFICES ASSUME s \notin excused'
               PROVE  /\ Extends(ms, store[s].msgs) /\ run[r].prev <= Len(ms)
                      /\ \A i \in DOMAIN ms : i > Len(store[s].msgs) => run[r].prev < i
    OBVIOUS
  <2>1. store[s].msgs \in Seq(Messages)
    BY <1>6, StoredIs
  <2>2. Extends(ms, store[s].msgs)
    BY <1>3, <1>6, <2>1, ExtendsTwice
  <2>3. Len(store[s].msgs) <= Len(ms)
    BY <2>2 DEF Extends
  <2> QED
    BY <1>3, <1>6, <2>1, <2>2, <2>3
<1>8. \A i : Owes(r, s, i) => run[r].prev < i
  BY DEF Owes
<1>9. Extends(ms, ms)
  BY ExtendsItself
<1>10. s \notin excused' =>
          /\ s \in Existing /\ Extends(ms, store[s].msgs) /\ Named(ms)
          /\ \A i \in DOMAIN ms : i > Len(store[s].msgs) =>
                Item(ms[i]) \in view'[s] \/ (to.s = s /\ to.prev < i
                   /\ to.pc \in {"running", "returned", "threw", "caught"})
          /\ \A i \in DOMAIN store[s].msgs : Owes(r, s, i) =>
                \/ Item(ms[i]) \in view'[s]
                \/ to.s = s /\ to.prev < i
                   /\ to.pc \in {"running", "returned", "threw", "caught"}
  BY <1>4, <1>6, <1>7, <1>8
<1>11. s \notin excused' /\ to.s = s /\ to.pc \in {"running", "returned"} =>
              /\ to.prev <= Len(ms) /\ Extends(to.msgs, ms) /\ Named(to.msgs)
  BY <1>4, <1>6, <1>7, <1>9
<1>12. UNCHANGED <<view, sweep, edits>> /\ run[r].s = s /\ run[r].pc \notin {"idle", "over"}
       /\ view' = [view EXCEPT ![s] = view'[s]]
  BY <1>1, <1>2, RestIs
<1> QED
  BY <1>2, <1>3, <1>4, <1>5, <1>10, <1>11, <1>12, SaveStep

\* A step at work that saves nothing; why is what makes it owe less.
LEMMA LocalKeeps ==
    ASSUME EditsInv, NEW r \in Runs, run[r].pc = "running",
           NEW ms \in Seq(Messages), NEW pc \in {"running", "returned", "threw"},
           NEW comp \in BOOLEAN, run[r].compacted => comp,
           run' = [run EXCEPT ![r] = [run[r] EXCEPT !.pc = pc, !.msgs = ms, !.compacted = comp]],
           UNCHANGED <<store, route, sweep, view, excused>>, edits' \in 0 .. MaxEdits,
           ~comp => (Named(run[r].msgs) => Named(ms) /\ Extends(ms, run[r].msgs)),
           ~Compressing => Paired(ms)
    PROVE  EditsInv'
<1>1. PICK s, to :
         s = run[r].s /\ to = [run[r] EXCEPT !.pc = pc, !.msgs = ms, !.compacted = comp]
  OBVIOUS
<1>2. /\ run[r] \in RunType /\ s \in Sessions /\ run[r].prev \in Nat
      /\ run[r].msgs \in Seq(Messages) /\ RunKnows(r) /\ TypeInvariant
  BY <1>1, AtWork
<1>3. /\ to \in RunType /\ to.pc = pc /\ to.s = s /\ to.prev = run[r].prev /\ to.msgs = ms
      /\ to.compacted = comp /\ to.current = run[r].current
  BY <1>1, <1>2 DEF RunType
<1>4. Existing' = Existing /\ run'[r] = to /\ store' = store /\ excused' = excused
  BY <1>1, <1>2, <1>3, LocalRun
<1>5. RunKnows(r)'
  <2> SUFFICES ASSUME s \notin excused, ~comp
               PROVE  /\ Named(ms)
                      /\ run[r].current => /\ s \in Existing /\ run[r].prev <= Len(store[s].msgs)
                                           /\ Extends(ms, store[s].msgs)
    <3>1. /\ run'[r].pc = pc /\ run'[r].s = s /\ run'[r].prev = run[r].prev
          /\ run'[r].msgs = ms /\ run'[r].compacted = comp /\ run'[r].current = run[r].current
      BY <1>3, <1>4
    <3>2. pc \notin {"loaded", "caught", "clearing"}
      OBVIOUS
    <3> QED
      BY <1>4, <3>1, <3>2 DEF RunKnows
  <2>1. ~run[r].compacted
    BY <1>2 DEF RunType
  <2>2. Named(ms) /\ Extends(ms, run[r].msgs)
    BY <1>1, <1>2, <2>1 DEF RunKnows
  <2>3. ASSUME run[r].current
        PROVE  /\ s \in Existing /\ run[r].prev <= Len(store[s].msgs)
               /\ Extends(run[r].msgs, store[s].msgs)
    BY <1>1, <1>2, <2>1, <2>3 DEF RunKnows
  <2>4. ASSUME run[r].current PROVE Extends(ms, store[s].msgs)
    <3>1. store[s].msgs \in Seq(Messages)
      BY <2>3, <2>4, StoredIs
    <3> QED
      BY <1>2, <2>2, <2>3, <2>4, <3>1, ExtendsTwice
  <2> QED
    BY <2>2, <2>3, <2>4
<1>6. s \in Existing => \A i \in DOMAIN store[s].msgs : Owes(r, s, i) => Owes(r, s, i)'
  BY <1>1, <1>3, <1>4 DEF Owes
<1> QED
  BY <1>1, <1>2, <1>3, <1>5, <1>6, LocalStep

LEMMA CountedIs ==
    ASSUME EditsInv, Counted
    PROVE  edits' \in 0 .. MaxEdits
BY RestIs DEF Counted

LEMMA ToolStepKeeps ==
    ASSUME EditsInv, NEW r \in Runs, ToolStep(r)
    PROVE  EditsInv'
<1>1. run[r].pc = "running"
  BY DEF ToolStep
<1>2. /\ run[r] \in RunType /\ run[r].msgs \in Seq(Messages)
      /\ ~Compressing => Paired(run[r].msgs)
  BY <1>1, AtWork
<1>3. PICK n \in 0 .. MaxResults : \E ids, ms :
        /\ ids = [i \in 1 .. n |-> NewId(i)] /\ ms = WithStep(run[r].msgs, ids)
        /\ \/ LoopSaves(r, ms, "running")
           \/ /\ Counted
              /\ run' = [run EXCEPT ![r].msgs = ms]
              /\ UNCHANGED <<store, route, sweep, view, excused>>
  BY DEF ToolStep
<1>4. PICK ids, ms :
        /\ ids = [i \in 1 .. n |-> NewId(i)] /\ ms = WithStep(run[r].msgs, ids)
        /\ \/ LoopSaves(r, ms, "running")
           \/ /\ Counted
              /\ run' = [run EXCEPT ![r].msgs = ms]
              /\ UNCHANGED <<store, route, sweep, view, excused>>
  BY <1>3
<1>5. n \in Nat
  BY SessionEditsAssumption DEF SessionEditsAssumption
<1>6. IsFiniteSet(UsedIds)
  BY RestIs
<1>7. /\ ids \in [1 .. n -> Ids]
      /\ \A j \in 1 .. n : /\ \A i \in DOMAIN run[r].msgs : run[r].msgs[i].id # ids[j]
                           /\ \A x \in Nat : ids[j] # Step(x)
      /\ \A j, k \in 1 .. n : ids[j] = ids[k] => j = k
  <2>1. \A j \in 1 .. n : j \in Nat \ {0} /\ ids[j] = NewId(j)
    BY <1>4, <1>5
  <2>2. \A j \in 1 .. n : ids[j] \in Ids /\ ids[j] \notin UsedIds /\ \A x \in Nat : ids[j] # Step(x)
    BY <1>6, <2>1, NewIdFresh
  <2>3. \A j, k \in 1 .. n : ids[j] = ids[k] => j = k
    BY <1>6, <2>1, NewIdFresh
  <2>4. \A i \in DOMAIN run[r].msgs : run[r].msgs[i].id \in UsedIds
    BY UsedHas
  <2>5. ids \in [1 .. n -> Ids]
    BY <1>4, <2>1, <2>2
  <2> QED
    BY <2>2, <2>3, <2>4, <2>5
<1>8. ms \in Seq(Messages)
  BY <1>2, <1>4, <1>5, <1>7, WithStepIs
<1>9. Named(run[r].msgs) => Named(ms) /\ Extends(ms, run[r].msgs)
  BY <1>2, <1>4, <1>5, <1>7, NamedStep
<1>10. ~Compressing => Paired(ms)
  BY <1>2, <1>4, <1>5, <1>7, PairedStep
<1>11. CASE LoopSaves(r, ms, "running")
  BY <1>1, <1>8, <1>9, <1>10, <1>11, LoopSavesKeeps
<1>12. CASE /\ Counted
            /\ run' = [run EXCEPT ![r].msgs = ms]
            /\ UNCHANGED <<store, route, sweep, view, excused>>
  <2>1. edits' \in 0 .. MaxEdits
    BY <1>12, CountedIs
  <2>2. run[r].compacted \in BOOLEAN
    BY <1>2 DEF RunType
  <2>3. run' = [run EXCEPT ![r] = [run[r] EXCEPT !.pc = "running", !.msgs = ms,
                                                 !.compacted = run[r].compacted]]
    BY <1>1, <1>2, <1>12 DEF RunType
  <2> QED
    BY <1>1, <1>8, <1>9, <1>10, <1>12, <2>1, <2>2, <2>3, LocalKeeps
<1> QED
  BY <1>4, <1>11, <1>12

LEMMA AnswerKeeps ==
    ASSUME EditsInv, NEW r \in Runs, Answer(r)
    PROVE  EditsInv'
<1>1. run[r].pc = "running" /\ LoopSaves(r, WithText(run[r].msgs, NewId(1)), "returned")
  BY DEF Answer
<1>2. run[r].msgs \in Seq(Messages) /\ (~Compressing => Paired(run[r].msgs))
  BY <1>1, AtWork
<1>3. /\ NewId(1) \in Ids /\ NewId(1) \notin UsedIds /\ \A x \in Nat : NewId(1) # Step(x)
  BY RestIs, NewIdFresh
<1>4. \A i \in DOMAIN run[r].msgs : run[r].msgs[i].id # NewId(1)
  BY <1>3, UsedHas
<1>5. PICK id : id = NewId(1)
  OBVIOUS
<1>6. PICK ms : ms = WithText(run[r].msgs, id)
  OBVIOUS
<1>7. ms \in Seq(Messages)
  BY <1>2, <1>3, <1>5, <1>6, WithTextIs
<1>8. Named(run[r].msgs) => Named(ms) /\ Extends(ms, run[r].msgs)
  BY <1>2, <1>3, <1>4, <1>5, <1>6, NamedText
<1>9. ~Compressing => Paired(ms)
  BY <1>2, <1>3, <1>5, <1>6, PairedText
<1> QED
  BY <1>1, <1>5, <1>6, <1>7, <1>8, <1>9, LoopSavesKeeps

LEMMA StopKeeps ==
    ASSUME EditsInv, NEW r \in Runs, Stop(r)
    PROVE  EditsInv'
<1>1. run[r].pc = "running"
  BY DEF Stop
<1>2. /\ run[r] \in RunType /\ run[r].msgs \in Seq(Messages)
      /\ ~Compressing => Paired(run[r].msgs)
  BY <1>1, AtWork
<1>3. Extends(run[r].msgs, run[r].msgs)
  BY <1>2, ExtendsItself
<1>4. CASE LoopSaves(r, run[r].msgs, "returned")
  BY <1>1, <1>2, <1>3, <1>4, LoopSavesKeeps
<1>5. CASE /\ Counted
           /\ run' = [run EXCEPT ![r].pc = "returned"]
           /\ UNCHANGED <<store, route, sweep, view, excused>>
  <2>1. edits' \in 0 .. MaxEdits
    BY <1>5, CountedIs
  <2>2. run[r].compacted \in BOOLEAN
    BY <1>2 DEF RunType
  <2>3. run' = [run EXCEPT ![r] = [run[r] EXCEPT !.pc = "returned", !.msgs = run[r].msgs,
                                                 !.compacted = run[r].compacted]]
    BY <1>2, <1>5 DEF RunType
  <2> QED
    BY <1>1, <1>2, <1>3, <1>5, <2>1, <2>2, <2>3, LocalKeeps
<1> QED
  BY <1>4, <1>5 DEF Stop

LEMMA ThrowKeeps ==
    ASSUME EditsInv, NEW r \in Runs, Throw(r)
    PROVE  EditsInv'
<1>1. run[r].pc = "running"
  BY DEF Throw
<1>2. /\ run[r] \in RunType /\ run[r].msgs \in Seq(Messages)
      /\ ~Compressing => Paired(run[r].msgs)
  BY <1>1, AtWork
<1>3. Extends(run[r].msgs, run[r].msgs)
  BY <1>2, ExtendsItself
<1>4. CASE LoopSaves(r, run[r].msgs, "threw")
  BY <1>1, <1>2, <1>3, <1>4, LoopSavesKeeps
<1>5. CASE /\ run' = [run EXCEPT ![r].pc = "threw"]
           /\ UNCHANGED <<store, route, sweep, view, excused, edits>>
  <2>1. edits' \in 0 .. MaxEdits
    BY <1>5, RestIs
  <2>2. run[r].compacted \in BOOLEAN
    BY <1>2 DEF RunType
  <2>3. run' = [run EXCEPT ![r] = [run[r] EXCEPT !.pc = "threw", !.msgs = run[r].msgs,
                                                 !.compacted = run[r].compacted]]
    BY <1>2, <1>5 DEF RunType
  <2> QED
    BY <1>1, <1>2, <1>3, <1>5, <2>1, <2>2, <2>3, LocalKeeps
<1> QED
  BY <1>4, <1>5 DEF Throw

\* What the optimiser leaves is a transcript.
LEMMA SummarizedIs ==
    ASSUME NEW ms \in Seq(Messages), NEW id \in Ids
    PROVE  Summarized(ms, id) \in Seq(Messages)
<1> DEFINE a == Len(ms) - CompressTail + 1
           m == Message(id, "user", 0)
           q == SubSeq(ms, a, Len(ms))
<1>1. CASE Len(ms) <= CompressMin + CompressTail
  BY <1>1 DEF Summarized
<1>2. CASE ~(Len(ms) <= CompressMin + CompressTail)
  <2>1. CompressMin \in Nat /\ CompressTail \in Nat /\ Len(ms) \in Nat
    BY TranscriptAssumption DEF TranscriptAssumption
  <2>2. a \in 1 .. Len(ms) + 1 /\ Len(ms) \in a - 1 .. Len(ms)
    BY <1>2, <2>1
  <2>3. q \in Seq(Messages)
    <3> HIDE DEF a
    <3> QED
      BY <2>2, Part
  <2>4. m \in Messages
    BY DEF Message, Messages, Roles
  <2>5. Summarized(ms, id) = <<m>> \o q
    BY <1>2 DEF Summarized
  <2> HIDE DEF m, q
  <2> QED
    BY <2>3, <2>4, <2>5
<1> QED
  BY <1>1, <1>2

LEMMA CompressIs ==
    ASSUME NEW ms \in Seq(Messages), NEW id \in Ids
    PROVE  Compress(ms, id) \in Seq(Messages)
<1> DEFINE h == Head0(ms)
           e == Len(ms) - Tail0(ms)
           u == SubSeq(ms, 1, h)
           v == SubSeq(ms, h + 1, e)
           w == SubSeq(ms, e + 1, Len(ms))
<1>1. h \in {0, 1} /\ h <= Len(ms) /\ e \in Int /\ e <= Len(ms) /\ Len(ms) \in Nat
  BY HeadTail
<1>2. Compress(ms, id) = IF e > h THEN u \o Summarized(v, id) \o w ELSE ms
  BY DEF Compress
<1> HIDE DEF h, e
<1>3. CASE e > h
  <2>1. /\ 1 \in 1 .. Len(ms) + 1 /\ h \in 1 - 1 .. Len(ms)
        /\ h + 1 \in 1 .. Len(ms) + 1 /\ e \in (h + 1) - 1 .. Len(ms)
        /\ e + 1 \in 1 .. Len(ms) + 1 /\ Len(ms) \in (e + 1) - 1 .. Len(ms)
    BY <1>1, <1>3
  <2>2. u \in Seq(Messages)
    BY <2>1, Part
  <2>3. v \in Seq(Messages)
    BY <2>1, Part
  <2>4. w \in Seq(Messages)
    BY <2>1, Part
  <2> HIDE DEF u, v, w
  <2>5. Summarized(v, id) \in Seq(Messages)
    BY <2>3, SummarizedIs
  <2> QED
    BY <1>2, <1>3, <2>2, <2>4, <2>5
<1> QED
  BY <1>2, <1>3

LEMMA OptimizeKeeps ==
    ASSUME EditsInv, NEW r \in Runs, Optimize(r)
    PROVE  EditsInv'
<1>1. run[r].pc = "running"
  BY DEF Optimize
<1>2. /\ run[r] \in RunType /\ run[r].msgs \in Seq(Messages)
      /\ ~Compressing => Paired(run[r].msgs)
  BY <1>1, AtWork
<1>3. PICK budget \in 1 .. Len(run[r].msgs) - 1 :
        run' = [run EXCEPT
           ![r].msgs = IF Compressing THEN OptimizedWith(@, budget, NewId(1))
                                      ELSE Optimized(@, budget),
           ![r].compacted = TRUE]
  BY DEF Optimize
<1>4. PICK id, ms :
        /\ id = NewId(1)
        /\ ms = IF Compressing THEN OptimizedWith(run[r].msgs, budget, id)
                               ELSE Optimized(run[r].msgs, budget)
        /\ run' = [run EXCEPT ![r].msgs = ms, ![r].compacted = TRUE]
  BY <1>3
<1>5. id \in Ids
  BY <1>4, RestIs, NewIdFresh
<1>6. budget \in Nat
  OBVIOUS
<1>7. ms \in Seq(Messages)
  <2>1. DropGroups(run[r].msgs, budget) \in Seq(Messages)
    BY <1>2, <1>6, DropGroupsIs
  <2>2. Compress(run[r].msgs, id) \in Seq(Messages)
    BY <1>2, <1>5, CompressIs
  <2>3. DropGroups(Compress(run[r].msgs, id), budget) \in Seq(Messages)
    BY <1>6, <2>2, DropGroupsIs
  <2> QED
    BY <1>2, <1>4, <2>1, <2>3 DEF Optimized, OptimizedWith
<1>8. ~Compressing => Paired(ms)
  BY <1>2, <1>4, <1>6, PairedDrop DEF Optimized
<1>9. /\ edits' \in 0 .. MaxEdits
      /\ UNCHANGED <<store, route, sweep, view, excused>>
  BY CountedIs DEF Optimize
<1>10. run' = [run EXCEPT ![r] = [run[r] EXCEPT !.pc = "running", !.msgs = ms,
                                               !.compacted = TRUE]]
  BY <1>1, <1>2, <1>4 DEF RunType
<1> QED
  BY <1>1, <1>7, <1>8, <1>9, <1>10, LocalKeeps

\* A save that announces what stands behind prev, and is the last of the run or all but.
LEMMA LastSaveKeeps ==
    ASSUME EditsInv, NEW r \in Runs, run[r].pc \in {"returned", "caught"}, NEW why \in BOOLEAN,
           Write(run[r].s, run[r].msgs, run[r].marked),
           Outdated(run[r].s, ByRun(r, [run[r] EXCEPT !.pc = "cleaning", !.current = TRUE])),
           Added(run[r].s, run[r].msgs, run[r].prev), Excuse(run[r].s, why),
           ~run[r].current \/ (run[r].pc = "returned" /\ run[r].compacted) => why,
           UNCHANGED <<sweep, edits>>
    PROVE  EditsInv'
<1>1. PICK s, ms, prev, to :
         /\ s = run[r].s /\ ms = run[r].msgs /\ prev = run[r].prev
         /\ to = [run[r] EXCEPT !.pc = "cleaning", !.current = TRUE]
  OBVIOUS
<1>2. /\ Write(s, ms, run[r].marked) /\ Outdated(s, ByRun(r, to))
      /\ Added(s, ms, prev) /\ Excuse(s, why)
  BY <1>1
<1>3. /\ run[r] \in RunType /\ s \in Sessions /\ run[r].marked \in BOOLEAN
      /\ ms \in Seq(Messages) /\ prev \in Nat /\ RunKnows(r) /\ TypeInvariant
      /\ ~Compressing => Paired(ms)
  BY <1>1, AtWork
<1>4. /\ to \in RunType /\ to.pc = "cleaning" /\ to.s = s /\ to.msgs = ms
  BY <1>1, <1>3 DEF RunType
<1>5. /\ excused \subseteq excused' /\ excused' \subseteq Sessions
      /\ s \notin excused' => /\ s \notin excused /\ run[r].current
                              /\ run[r].pc = "returned" => ~run[r].compacted
  BY <1>2, <1>3, ExcuseIs DEF RunType
<1>6. s \notin excused' => s \in Existing /\ Extends(ms, store[s].msgs) /\ Named(ms)
  <2>1. CASE run[r].pc = "returned"
    BY <1>1, <1>3, <1>5, <2>1 DEF RunKnows
  <2>2. CASE run[r].pc = "caught"
    <3>1. Extends(ms, ms)
      BY <1>3, ExtendsItself
    <3> QED
      BY <1>1, <1>3, <1>5, <2>2, <3>1 DEF RunKnows
  <2> QED
    BY <2>1, <2>2
<1>7. PICK new : new = Seen(SubSeq(ms, prev + 1, Len(ms)))
  OBVIOUS
<1>8. new \subseteq Seen(ms) /\ \A i \in DOMAIN ms : i > prev => Item(ms[i]) \in new
  BY <1>3, <1>7, AddedIs
<1>9. view' = [view EXCEPT ![s] = view'[s]] /\ view'[s] = view[s] \cup new
  <2>1. view' = [view EXCEPT ![s] = view[s] \cup new]
    BY <1>2, <1>7 DEF Added
  <2> QED
    BY <1>3, <2>1 DEF TypeInvariant
<1>10. s \notin excused' =>
          /\ s \in Existing /\ Extends(ms, store[s].msgs) /\ Named(ms)
          /\ \A i \in DOMAIN ms : i > Len(store[s].msgs) =>
                Item(ms[i]) \in view'[s] \/ (to.s = s /\ to.prev < i
                   /\ to.pc \in {"running", "returned", "threw", "caught"})
          /\ \A i \in DOMAIN store[s].msgs : Owes(r, s, i) =>
                \/ Item(ms[i]) \in view'[s]
                \/ to.s = s /\ to.prev < i
                   /\ to.pc \in {"running", "returned", "threw", "caught"}
  <2> SUFFICES ASSUME s \notin excused'
               PROVE  /\ \A i \in DOMAIN ms : i > Len(store[s].msgs) => Item(ms[i]) \in view'[s]
                      /\ \A i \in DOMAIN store[s].msgs : Owes(r, s, i) => Item(ms[i]) \in view'[s]
    BY <1>6
  <2>1. store[s].msgs \in Seq(Messages) /\ Extends(ms, store[s].msgs)
    BY <1>6, StoredIs
  <2>2. Len(store[s].msgs) \in Nat /\ \A i \in DOMAIN store[s].msgs : i \in DOMAIN ms
    BY <1>3, <2>1 DEF Extends
  <2>3. ASSUME NEW i \in DOMAIN ms, i > Len(store[s].msgs)
        PROVE  i > prev
    <3>1. CASE run[r].pc = "returned"
      <4>1. prev <= Len(store[s].msgs)
        BY <1>1, <1>3, <1>5, <3>1 DEF RunKnows
      <4> QED
        BY <1>3, <2>2, <2>3, <4>1
    <3>2. CASE run[r].pc = "caught"
      <4>1. ms = store[s].msgs
        BY <1>1, <1>3, <1>5, <3>2 DEF RunKnows
      <4> QED
        BY <1>3, <2>3, <4>1
    <3> QED
      BY <3>1, <3>2
  <2>4. ASSUME NEW i \in DOMAIN store[s].msgs, Owes(r, s, i)
        PROVE  i \in DOMAIN ms /\ i > prev
    BY <1>1, <1>3, <2>2, <2>4 DEF Owes
  <2> QED
    BY <1>8, <1>9, <2>3, <2>4
<1>11. UNCHANGED <<sweep, edits>> /\ run[r].s = s /\ run[r].pc \notin {"idle", "over"}
  BY <1>1
<1>12. view'[s] \subseteq view[s] \cup Seen(ms) /\ view[s] \subseteq view'[s]
  BY <1>8, <1>9
<1> QED
  BY <1>2, <1>3, <1>4, <1>5, <1>9, <1>10, <1>11, <1>12, SaveStep

LEMMA FinalSaveKeeps ==
    ASSUME EditsInv, NEW r \in Runs, FinalSave(r)
    PROVE  EditsInv'
<1>1. run[r].pc = "returned"
  BY DEF FinalSave
<1>2. /\ run[r] \in RunType /\ run[r].s \in Sessions /\ RunKnows(r) /\ TypeInvariant
      /\ ~Compressing => Paired(run[r].msgs)
  BY <1>1, AtWork
<1>3. CASE /\ Counted
           /\ run' = [run EXCEPT ![r].pc = "threw"]
           /\ UNCHANGED <<store, route, sweep, view, excused>>
  <2>1. edits' \in 0 .. MaxEdits
    BY <1>3, CountedIs
  <2>2. PICK s, to : s = run[r].s /\ to = [run[r] EXCEPT !.pc = "threw"]
    OBVIOUS
  <2>3. /\ to \in RunType /\ to.pc = "threw" /\ to.s = s /\ to.prev = run[r].prev
        /\ to.msgs = run[r].msgs /\ run' = [run EXCEPT ![r] = to]
    BY <1>2, <1>3, <2>2 DEF RunType
  <2>4. run'[r] = to
    BY <1>2, <2>3 DEF TypeInvariant
  <2>5. RunKnows(r)'
    BY <2>3, <2>4 DEF RunKnows
  <2>6. s \in Existing => \A i \in DOMAIN store[s].msgs : Owes(r, s, i) => Owes(r, s, i)'
    BY <1>3, <2>2, <2>3, <2>4 DEF Owes
  <2> QED
    BY <1>1, <1>2, <1>3, <2>1, <2>2, <2>3, <2>5, <2>6, LocalStep
<1>4. CASE ~(/\ Counted
             /\ run' = [run EXCEPT ![r].pc = "threw"]
             /\ UNCHANGED <<store, route, sweep, view, excused>>)
  <2>1. /\ Write(run[r].s, run[r].msgs, run[r].marked)
        /\ Outdated(run[r].s, ByRun(r, [run[r] EXCEPT !.pc = "cleaning", !.current = TRUE]))
        /\ Added(run[r].s, run[r].msgs, run[r].prev)
        /\ Excuse(run[r].s, ~run[r].current \/ run[r].compacted)
        /\ UNCHANGED <<sweep, edits>>
    BY <1>4 DEF FinalSave
  <2>2. PICK why \in BOOLEAN : why = (~run[r].current \/ run[r].compacted)
    OBVIOUS
  <2> QED
    BY <1>1, <2>1, <2>2, LastSaveKeeps
<1> QED
  BY <1>3, <1>4

LEMMA CatchLoadKeeps ==
    ASSUME EditsInv, NEW r \in Runs, CatchLoad(r)
    PROVE  EditsInv'
<1>1. run[r].pc = "threw" /\ UNCHANGED <<store, route, sweep, view, excused, edits>>
  BY DEF CatchLoad
<1>2. PICK s : s = run[r].s
  OBVIOUS
<1>3. /\ run[r] \in RunType /\ s \in Sessions /\ TypeInvariant /\ Follows(s)
      /\ run[r].prev \in Nat /\ (~Compressing => Paired(run[r].msgs)) /\ edits' \in 0 .. MaxEdits
  BY <1>1, <1>2, AtWork, RestIs
<1>4. Existing' = Existing
  BY <1>1 DEF Existing
<1>5. CASE s \in Existing /\ Len(store[s].msgs) > run[r].prev
  <2>1. PICK to : to = [run[r] EXCEPT !.pc = "caught", !.msgs = store[s].msgs,
                                      !.marked = store[s].marked, !.current = TRUE]
    OBVIOUS
  <2>2. run' = [run EXCEPT ![r] = to]
    BY <1>2, <1>5, <2>1 DEF CatchLoad
  <2>3. store[s].msgs \in Seq(Messages) /\ store[s].marked \in BOOLEAN
        /\ (~Compressing => Paired(store[s].msgs))
    BY <1>5, StoredIs
  <2>4. /\ to \in RunType /\ to.pc = "caught" /\ to.s = s /\ to.prev = run[r].prev
        /\ to.msgs = store[s].msgs
    BY <1>2, <1>3, <2>1, <2>3 DEF RunType
  <2>5. run'[r] = to
    BY <1>3, <2>2, <2>4 DEF TypeInvariant
  <2>6. s \notin excused => Named(store[s].msgs)
    BY <1>3, <1>5 DEF Follows
  <2>7. RunKnows(r)'
    BY <1>1, <1>4, <1>5, <2>4, <2>5, <2>6 DEF RunKnows
  <2>8. s \in Existing => \A i \in DOMAIN store[s].msgs : Owes(r, s, i) => Owes(r, s, i)'
    BY <1>1, <2>4, <2>5 DEF Owes
  <2> QED
    BY <1>1, <1>2, <1>3, <2>2, <2>3, <2>4, <2>7, <2>8, LocalStep
<1>6. CASE ~(s \in Existing /\ Len(store[s].msgs) > run[r].prev)
  <2>1. PICK to : to = [run[r] EXCEPT !.pc = "cleaning"]
    OBVIOUS
  <2>2. run' = [run EXCEPT ![r] = to]
    BY <1>2, <1>6, <2>1 DEF CatchLoad
  <2>3. /\ to \in RunType /\ to.pc = "cleaning" /\ to.s = s /\ to.msgs = run[r].msgs
    BY <1>2, <1>3, <2>1 DEF RunType
  <2>4. run'[r] = to
    BY <1>3, <2>2, <2>3 DEF TypeInvariant
  <2>5. RunKnows(r)'
    BY <2>3, <2>4 DEF RunKnows
  <2>6. s \in Existing => \A i \in DOMAIN store[s].msgs : ~Owes(r, s, i)
    <3> SUFFICES ASSUME s \in Existing, NEW i \in DOMAIN store[s].msgs, Owes(r, s, i)
                 PROVE  FALSE
      OBVIOUS
    <3>1. store[s].msgs \in Seq(Messages)
      BY StoredIs
    <3>2. run[r].prev < i
      BY DEF Owes
    <3> QED
      BY <1>3, <1>6, <3>1, <3>2
  <2> QED
    BY <1>1, <1>2, <1>3, <2>2, <2>3, <2>5, <2>6, LocalStep
<1> QED
  BY <1>5, <1>6

LEMMA CatchSaveKeeps ==
    ASSUME EditsInv, NEW r \in Runs, CatchSave(r)
    PROVE  EditsInv'
<1>1. /\ run[r].pc = "caught" /\ Write(run[r].s, run[r].msgs, run[r].marked)
      /\ Outdated(run[r].s, ByRun(r, [run[r] EXCEPT !.pc = "cleaning", !.current = TRUE]))
      /\ Added(run[r].s, run[r].msgs, run[r].prev) /\ Excuse(run[r].s, ~run[r].current)
      /\ UNCHANGED <<sweep, edits>>
  BY DEF CatchSave
<1>2. PICK why \in BOOLEAN : why = ~run[r].current
  OBVIOUS
<1> QED
  BY <1>1, <1>2, LastSaveKeeps

\* A run that is over.
LEMMA OverIs ==
    [IdleRun EXCEPT !.pc = "over"] \in RunType /\ [IdleRun EXCEPT !.pc = "over"].pc = "over"
    /\ [IdleRun EXCEPT !.pc = "over"].s = NotStored /\ [IdleRun EXCEPT !.pc = "over"].msgs = <<>>
    /\ NotStored \notin Sessions
<1> DEFINE to == [IdleRun EXCEPT !.pc = "over"]
<1>1. <<>> \in Seq(Messages)
  OBVIOUS
<1>2. /\ to.pc = "over" /\ to.s = NotStored /\ to.msgs = <<>> /\ to \in RunType
  BY <1>1 DEF IdleRun, RunType
<1>3. NotStored \notin Sessions
  BY SessionEditsAssumption DEF SessionEditsAssumption
<1> QED
  BY <1>2, <1>3

LEMMA PairedEmpty == Paired(<<>>)
BY DEF Paired

LEMMA CleanLoadKeeps ==
    ASSUME EditsInv, NEW r \in Runs, CleanLoad(r)
    PROVE  EditsInv'
<1>1. run[r].pc = "cleaning" /\ UNCHANGED <<store, route, sweep, view, excused, edits>>
  BY DEF CleanLoad
<1>2. PICK s : s = run[r].s
  OBVIOUS
<1>3. /\ run[r] \in RunType /\ s \in Sessions /\ TypeInvariant /\ Follows(s)
      /\ run[r].prev \in Nat /\ (~Compressing => Paired(run[r].msgs)) /\ edits' \in 0 .. MaxEdits
  BY <1>1, <1>2, AtWork, RestIs
<1>4. Existing' = Existing /\ \A i : ~Owes(r, s, i)
  BY <1>1 DEF Existing, Owes
<1>5. CASE s \in Existing /\ store[s].marked
  <2>1. PICK to : to = [run[r] EXCEPT !.pc = "clearing", !.msgs = store[s].msgs,
                                      !.current = TRUE]
    OBVIOUS
  <2>2. run' = [run EXCEPT ![r] = to]
    BY <1>2, <1>5, <2>1 DEF CleanLoad
  <2>3. store[s].msgs \in Seq(Messages) /\ (~Compressing => Paired(store[s].msgs))
    BY <1>5, StoredIs
  <2>4. /\ to \in RunType /\ to.pc = "clearing" /\ to.s = s /\ to.msgs = store[s].msgs
    BY <1>2, <1>3, <2>1, <2>3 DEF RunType
  <2>5. run'[r] = to
    BY <1>3, <2>2, <2>4 DEF TypeInvariant
  <2>6. s \notin excused => Named(store[s].msgs)
    BY <1>3, <1>5 DEF Follows
  <2>7. RunKnows(r)'
    BY <1>1, <1>4, <1>5, <2>4, <2>5, <2>6 DEF RunKnows
  <2> QED
    BY <1>1, <1>2, <1>3, <1>4, <2>2, <2>3, <2>4, <2>7, LocalStep
<1>6. CASE ~(s \in Existing /\ store[s].marked)
  <2>1. PICK to : to = [IdleRun EXCEPT !.pc = "over"]
    OBVIOUS
  <2>2. run' = [run EXCEPT ![r] = to]
    BY <1>2, <1>6, <2>1 DEF CleanLoad
  <2>3. /\ to \in RunType /\ to.pc = "over" /\ to.s \notin Sessions
        /\ (~Compressing => Paired(to.msgs))
    BY <2>1, OverIs, PairedEmpty
  <2>4. run'[r] = to
    BY <1>3, <2>2, <2>3 DEF TypeInvariant
  <2>5. RunKnows(r)'
    BY <2>3, <2>4 DEF RunKnows
  <2> QED
    BY <1>1, <1>2, <1>3, <1>4, <2>2, <2>3, <2>5, LocalStep
<1> QED
  BY <1>5, <1>6

LEMMA CleanSaveKeeps ==
    ASSUME EditsInv, NEW r \in Runs, CleanSave(r)
    PROVE  EditsInv'
<1>1. PICK s, ms, to :
         s = run[r].s /\ ms = run[r].msgs /\ to = [IdleRun EXCEPT !.pc = "over"]
  OBVIOUS
<1>2. /\ run[r].pc = "clearing" /\ Write(s, ms, FALSE) /\ Outdated(s, ByRun(r, to))
      /\ Excuse(s, ~run[r].current) /\ UNCHANGED <<sweep, view, edits>>
  BY <1>1 DEF CleanSave
<1>3. /\ run[r] \in RunType /\ s \in Sessions /\ ms \in Seq(Messages) /\ RunKnows(r)
      /\ ~Compressing => Paired(ms)
  BY <1>1, <1>2, AtWork
<1>4. /\ to \in RunType /\ to.pc = "over" /\ to.s \notin Sessions
      /\ (~Compressing => Paired(to.msgs))
  BY <1>1, OverIs, PairedEmpty
<1>5. /\ excused \subseteq excused' /\ excused' \subseteq Sessions
      /\ s \notin excused' => run[r].current /\ s \notin excused
  BY <1>2, <1>3, ExcuseIs DEF RunType
<1>6. s \notin excused' => s \in Existing /\ ms = store[s].msgs /\ Named(ms)
  BY <1>1, <1>2, <1>3, <1>5 DEF RunKnows
<1>7. Extends(ms, ms) /\ \A i : ~Owes(r, s, i)
  BY <1>2, <1>3, ExtendsItself DEF Owes
<1>8. \A i \in DOMAIN ms : ~(i > Len(ms))
  BY <1>3
<1>9. s \notin excused' =>
          /\ s \in Existing /\ Extends(ms, store[s].msgs) /\ Named(ms)
          /\ \A i \in DOMAIN ms : i > Len(store[s].msgs) =>
                Item(ms[i]) \in view'[s] \/ (to.s = s /\ to.prev < i
                   /\ to.pc \in {"running", "returned", "threw", "caught"})
          /\ \A i \in DOMAIN store[s].msgs : Owes(r, s, i) =>
                \/ Item(ms[i]) \in view'[s]
                \/ to.s = s /\ to.prev < i
                   /\ to.pc \in {"running", "returned", "threw", "caught"}
  BY <1>6, <1>7, <1>8
<1>10. UNCHANGED <<view, sweep, edits>> /\ run[r].s = s /\ run[r].pc \notin {"idle", "over"}
       /\ view' = [view EXCEPT ![s] = view'[s]]
  BY <1>1, <1>2, RestIs
<1> QED
  BY <1>2, <1>3, <1>4, <1>5, <1>9, <1>10, SaveStep

LEMMA PromptKeeps ==
    ASSUME EditsInv, NEW r \in Runs, NEW s \in Sessions, Prompt(r, s)
    PROVE  EditsInv'
<1>1. run[r].pc = "idle" /\ UNCHANGED <<route, sweep, view, excused, edits>>
  BY DEF Prompt
<1>2. TypeInvariant /\ Follows(s)
  BY DEF EditsInv, Typed
<1>3. PICK ms, mk, to :
        /\ ms = IF s \in Existing THEN store[s].msgs ELSE <<>>
        /\ mk = (s \in Existing /\ store[s].marked)
        /\ to = [IdleRun EXCEPT !.pc = "loaded", !.s = s, !.current = TRUE, !.msgs = ms,
                                !.marked = mk]
  OBVIOUS
<1>4. ms \in Seq(Messages) /\ mk \in BOOLEAN /\ (~Compressing => Paired(ms))
  BY <1>3, StoredIs, PairedEmpty
<1>5. to \in RunType /\ to.pc = "loaded" /\ to.s = s /\ to.msgs = ms
  BY <1>3, <1>4 DEF RunType, IdleRun
<1>6. run' = [run EXCEPT ![r] = to]
  BY <1>3 DEF Prompt
<1>7. /\ run' \in [Runs -> RunType] /\ run'[r] = to
      /\ \A q \in Runs \ {r} : run'[q] = run[q]
  BY <1>2, <1>5, <1>6 DEF TypeInvariant
<1>8. PICK new : new = [msgs |-> <<>>, marked |-> FALSE, old |-> FALSE]
  OBVIOUS
<1>9. new \in Stored /\ new # NotStored /\ new.msgs = <<>>
  <2>1. new \in Stored /\ new.msgs = <<>>
    BY <1>8 DEF Stored
  <2> QED
    BY <2>1, SessionEditsAssumption DEF SessionEditsAssumption
<1>10. store' = [store EXCEPT ![s] = IF store[s] = NotStored THEN new ELSE store[s]]
  BY <1>8 DEF Prompt
<1>11. /\ store' \in [Sessions -> Stored \cup {NotStored}]
       /\ s \in Existing' /\ store'[s].msgs = ms
       /\ \A t \in Sessions \ {s} : store'[t] = store[t]
       /\ s \in Existing => store'[s] = store[s]
  BY <1>2, <1>3, <1>9, <1>10 DEF TypeInvariant, Existing
<1>12. \A t : StillThere(t)
  BY <1>11 DEF StillThere, Existing
<1>13. /\ \A q \in Runs \ {r} : RunRests(q)
       /\ \A a \in Routes : RouteRests(a)
  BY <1>1, <1>7, <1>12 DEF RunRests, RouteRests
<1>14. \A t, i : ~Owes(r, t, i)
  BY <1>1 DEF Owes
<1>15. Follows(s)'
  <2> SUFFICES ASSUME s \notin excused PROVE Follows(s)'
    BY <1>1 DEF Follows
  <2>1. CASE s \notin Existing
    <3>1. ms = <<>> /\ Named(ms) /\ view[s] = {}
      BY <1>2, <1>3, <2>1, NamedEmpty DEF Follows
    <3> QED
      BY <1>1, <1>11, <3>1 DEF Follows
  <2>2. CASE s \in Existing
    <3>1. ms = store[s].msgs
      BY <1>3, <2>2
    <3>2. ASSUME NEW i \in DOMAIN ms, NEW q \in Runs, Owes(q, s, i) PROVE Owes(q, s, i)'
      <4>1. q # r
        BY <1>14, <3>2
      <4> QED
        BY <1>7, <3>2, <4>1 DEF Owes
    <3> QED
      BY <1>1, <1>2, <1>11, <2>2, <3>1, <3>2 DEF Follows
  <2> QED
    BY <2>1, <2>2
<1>16. s \notin excused => Named(ms)
  BY <1>2, <1>3, NamedEmpty DEF Follows
<1>17. RunKnows(r)'
  BY <1>1, <1>5, <1>7, <1>11, <1>16 DEF RunKnows
<1>18. /\ route' \in [Routes -> RouteType]
       /\ view' \in [Sessions -> SUBSET [id : Ids, ver : 0 .. 1]] /\ IsFiniteSet(view'[s])
       /\ excused \subseteq excused' /\ excused' \subseteq Sessions /\ sweep' \subseteq Sessions
       /\ edits' \in 0 .. MaxEdits /\ \A t \in Sessions \ {s} : view'[t] = view[t]
  BY <1>1, <1>2, RestIs DEF TypeInvariant
<1>19. ~Compressing => Paired(run'[r].msgs) /\ (s \in Existing' => Paired(store'[s].msgs))
  BY <1>4, <1>5, <1>7, <1>11
<1>20. run'[r].pc \notin {"idle", "over"} => run'[r].s \in Sessions
  BY <1>5, <1>7
<1> QED
  BY <1>7, <1>11, <1>13, <1>14, <1>15, <1>17, <1>18, <1>19, <1>20, RunMoves
-----------------------------------------------------------------------------
\* The requests.

\* A route at work on a session, and what is known of both.
LEMMA Serving ==
    ASSUME EditsInv, NEW a \in Routes, route[a].op # "none"
    PROVE  /\ route[a] \in RouteType /\ route[a].s \in Sessions
           /\ route[a].msgs \in Seq(Messages) /\ route[a].marked \in BOOLEAN
           /\ TypeInvariant /\ Follows(route[a].s) /\ RouteKnows(a)
           /\ ~Compressing => Paired(route[a].msgs)
           /\ route[a].op = "retry" => UserTurns(route[a].msgs) # {}
<1>1. TypeInvariant /\ Located
  BY DEF EditsInv, Typed
<1>2. route[a] \in RouteType
  BY <1>1 DEF TypeInvariant
<1>3. route[a].s \in Sessions /\ (route[a].op = "retry" => UserTurns(route[a].msgs) # {})
  BY <1>1 DEF Located
<1>4. Follows(route[a].s) /\ RouteKnows(a)
  BY <1>3 DEF EditsInv
<1>5. ~Compressing => Paired(route[a].msgs)
  BY DEF EditsInv, Pairs, PairsKept, Transcripts
<1>6. route[a].msgs \in Seq(Messages) /\ route[a].marked \in BOOLEAN
  BY <1>2 DEF RouteType
<1> QED
  BY <1>1, <1>2, <1>3, <1>4, <1>5, <1>6

LEMMA IdleRouteIs ==
    IdleRoute \in RouteType /\ IdleRoute.op = "none" /\ IdleRoute.s \notin Sessions
    /\ IdleRoute.msgs = <<>>
<1>1. <<>> \in Seq(Messages) /\ UserQuery \in Ids
  BY DEF UserQuery, Ids
<1>2. /\ IdleRoute.op = "none" /\ IdleRoute.s = NotStored /\ IdleRoute.msgs = <<>>
      /\ IdleRoute \in RouteType
  BY <1>1 DEF IdleRoute, RouteType
<1>3. NotStored \notin Sessions
  BY SessionEditsAssumption DEF SessionEditsAssumption
<1> QED
  BY <1>2, <1>3

LEMMA LoadKeeps ==
    ASSUME EditsInv, NEW a \in Routes, NEW s \in Sessions,
           NEW op \in {"update", "edit", "retry", "fork", "import"}, Load(a, s, op)
    PROVE  EditsInv'
<1>1. s \in Existing /\ UNCHANGED <<store, run, sweep, view, excused>> /\ Counted
  BY DEF Load
<1>2. /\ store[s].msgs \in Seq(Messages) /\ store[s].marked \in BOOLEAN
      /\ (~Compressing => Paired(store[s].msgs))
  BY <1>1, StoredIs
<1>3. TypeInvariant /\ Follows(s)
  BY DEF EditsInv, Typed
<1>4. PICK id \in IF op = "edit" THEN {m.id : m \in ToSet(store[s].msgs)} ELSE {UserQuery} :
        /\ op = "retry" => UserTurns(store[s].msgs) # {}
        /\ route' = [route EXCEPT
              ![a] = [op |-> op, s |-> s, msgs |-> store[s].msgs, marked |-> store[s].marked,
                      id |-> id, current |-> TRUE]]
  BY DEF Load
<1>5. PICK to :
        /\ to = [op |-> op, s |-> s, msgs |-> store[s].msgs, marked |-> store[s].marked,
                 id |-> id, current |-> TRUE]
        /\ route' = [route EXCEPT ![a] = to]
  BY <1>4
<1>6. id \in Ids
  <2>1. \A m \in ToSet(store[s].msgs) : m.id \in Ids
    <3>1. \A i \in DOMAIN store[s].msgs : store[s].msgs[i] \in Messages
      BY <1>2
    <3>2. ToSet(store[s].msgs) = {store[s].msgs[i] : i \in DOMAIN store[s].msgs}
      BY DEF ToSet
    <3>3. \A m \in Messages : m.id \in Ids
      BY DEF Messages
    <3> QED
      BY <3>1, <3>2, <3>3
  <2>2. UserQuery \in Ids
    BY DEF UserQuery, Ids
  <2> QED
    BY <2>1, <2>2
<1>7. to \in RouteType /\ to.op = op /\ to.s = s /\ to.msgs = store[s].msgs
  BY <1>2, <1>5, <1>6 DEF RouteType
<1>8. /\ route' \in [Routes -> RouteType] /\ route'[a] = to
      /\ \A b \in Routes \ {a} : route'[b] = route[b]
  BY <1>3, <1>5, <1>7 DEF TypeInvariant
<1>9. Existing' = Existing
  BY <1>1 DEF Existing
<1>10. /\ \A q \in Runs : RunRests(q)
      /\ \A b \in Routes \ {a} : RouteRests(b)
  BY <1>1, <1>8, <1>9 DEF RunRests, RouteRests, StillThere
<1>11. Follows(s)'
  BY <1>1, <1>3, <1>9 DEF Follows, Owes
<1>12. RouteKnows(a)'
  BY <1>1, <1>3, <1>7, <1>8, <1>9 DEF RouteKnows, Follows
<1>13. /\ store' \in [Sessions -> Stored \cup {NotStored}] /\ run' \in [Runs -> RunType]
       /\ view' \in [Sessions -> SUBSET [id : Ids, ver : 0 .. 1]] /\ IsFiniteSet(view'[s])
       /\ excused \subseteq excused' /\ excused' \subseteq Sessions /\ sweep' \subseteq Sessions
       /\ \A t \in Sessions \ {s} : store'[t] = store[t] /\ view'[t] = view[t]
  BY <1>1, <1>3, RestIs DEF TypeInvariant
<1>14. edits' \in 0 .. MaxEdits
  BY <1>1, CountedIs
<1>15. /\ route'[a].op # "none" => route'[a].s \in Sessions
       /\ route'[a].op = "retry" => UserTurns(route'[a].msgs) # {}
       /\ ~Compressing => Paired(route'[a].msgs) /\ (s \in Existing' => Paired(store'[s].msgs))
  BY <1>1, <1>2, <1>4, <1>5, <1>7, <1>8
<1> QED
  BY <1>8, <1>10, <1>11, <1>12, <1>13, <1>14, <1>15, RouteMoves

\* A route saves what it makes of the copy it loaded.
LEMMA RouteSavesIs ==
    ASSUME EditsInv, NEW a \in Routes, route[a].op # "none", NEW s, s = route[a].s,
           NEW ms \in Seq(Messages), RouteSaves(a, ms)
    PROVE  /\ TypeInvariant /\ s \in Sessions /\ Follows(s)
           /\ store' \in [Sessions -> Stored \cup {NotStored}]
           /\ run' \in [Runs -> RunType] /\ route' \in [Routes -> RouteType]
           /\ store'[s].msgs = ms /\ s \in Existing'
           /\ \A t \in Sessions \ {s} : store'[t] = store[t]
           /\ route'[a] = IdleRoute
           /\ \A q \in Runs : RunRests(q)
           /\ \A b \in Routes \ {a} : RouteRests(b)
           /\ excused \subseteq excused' /\ excused' \subseteq Sessions
           /\ s \notin excused' => /\ s \notin excused /\ s \in Existing
                                   /\ route[a].msgs = store[s].msgs /\ Named(route[a].msgs)
           /\ sweep' \subseteq Sessions /\ edits' \in 0 .. MaxEdits
<1>1. /\ Write(s, ms, route[a].marked) /\ Outdated(s, ByRoute(a, IdleRoute))
      /\ Excuse(s, ~route[a].current) /\ UNCHANGED <<sweep, edits>>
  BY DEF RouteSaves
<1>2. /\ route[a] \in RouteType /\ s \in Sessions /\ route[a].marked \in BOOLEAN
      /\ TypeInvariant /\ Follows(s) /\ RouteKnows(a)
  BY Serving
<1>3. /\ store' \in [Sessions -> Stored \cup {NotStored}]
      /\ run' \in [Runs -> RunType] /\ route' \in [Routes -> RouteType]
      /\ store'[s].msgs = ms /\ s \in Existing'
      /\ \A t \in Sessions \ {s} : store'[t] = store[t]
      /\ route'[a] = IdleRoute
      /\ \A q \in Runs : RunRests(q)
      /\ \A b \in Routes \ {a} : RouteRests(b)
  <2>1. IdleRoute \in RouteType
    BY IdleRouteIs
  <2> QED
    BY <1>1, <1>2, <2>1, SaveByRoute
<1>4. /\ excused \subseteq excused' /\ excused' \subseteq Sessions
      /\ s \notin excused' => route[a].current /\ s \notin excused
  BY <1>1, <1>2, ExcuseIs DEF RouteType
<1>5. s \notin excused' => /\ s \in Existing /\ route[a].msgs = store[s].msgs
                           /\ Named(route[a].msgs)
  BY <1>2, <1>4 DEF RouteKnows
<1>6. sweep' \subseteq Sessions /\ edits' \in 0 .. MaxEdits
  BY <1>1, RestIs
<1> QED
  BY <1>2, <1>3, <1>4, <1>5, <1>6

LEMMA RouteSavesKeeps ==
    ASSUME EditsInv, NEW a \in Routes, route[a].op # "none", NEW s, s = route[a].s,
           NEW ms \in Seq(Messages), RouteSaves(a, ms),
           NEW known, view' = [view EXCEPT ![s] = known], known \subseteq view[s] \cup Seen(ms),
           Follows(s)', ~Compressing => Paired(ms)
    PROVE  EditsInv'
<1>1. /\ TypeInvariant /\ s \in Sessions
      /\ store' \in [Sessions -> Stored \cup {NotStored}]
      /\ run' \in [Runs -> RunType] /\ route' \in [Routes -> RouteType]
      /\ store'[s].msgs = ms /\ s \in Existing'
      /\ \A t \in Sessions \ {s} : store'[t] = store[t]
      /\ route'[a] = IdleRoute
      /\ \A q \in Runs : RunRests(q)
      /\ \A b \in Routes \ {a} : RouteRests(b)
      /\ excused \subseteq excused' /\ excused' \subseteq Sessions
      /\ sweep' \subseteq Sessions /\ edits' \in 0 .. MaxEdits
  BY RouteSavesIs
<1>2. /\ view' \in [Sessions -> SUBSET [id : Ids, ver : 0 .. 1]] /\ IsFiniteSet(view'[s])
      /\ \A t \in Sessions \ {s} : view'[t] = view[t]
  <2>1. view \in [Sessions -> SUBSET [id : Ids, ver : 0 .. 1]] /\ IsFiniteSet(view[s])
    BY <1>1, RestIs
  <2>2. /\ Seen(ms) \subseteq [id : Ids, ver : 0 .. 1] /\ IsFiniteSet(Seen(ms))
    BY SeenFinite
  <2>3. IsFiniteSet(view[s] \cup Seen(ms))
    BY <2>1, <2>2, FS_Union
  <2>4. IsFiniteSet(known)
    BY <2>3, FS_Subset
  <2>5. known \in SUBSET [id : Ids, ver : 0 .. 1]
    BY <1>1, <2>1, <2>2
  <2> QED
    BY <1>1, <2>1, <2>4, <2>5
<1>3. RouteKnows(a)'
  BY <1>1, IdleRouteIs DEF RouteKnows
<1>4. /\ route'[a].op # "none" => route'[a].s \in Sessions
      /\ route'[a].op = "retry" => UserTurns(route'[a].msgs) # {}
      /\ ~Compressing => Paired(route'[a].msgs) /\ (s \in Existing' => Paired(store'[s].msgs))
  BY <1>1, IdleRouteIs, PairedEmpty
<1> QED
  BY <1>1, <1>2, <1>3, <1>4, RouteMoves

LEMMA UpdateKeeps ==
    ASSUME EditsInv, NEW a \in Routes, Update(a)
    PROVE  EditsInv'
<1>1. PICK s, ms : s = route[a].s /\ ms = route[a].msgs
  OBVIOUS
<1>2. route[a].op # "none" /\ RouteSaves(a, ms) /\ UNCHANGED view
  BY <1>1 DEF Update
<1>3. ms \in Seq(Messages) /\ (~Compressing => Paired(ms))
  BY <1>1, <1>2, Serving
<1>4. /\ TypeInvariant /\ s \in Sessions /\ Follows(s) /\ store'[s].msgs = ms /\ s \in Existing'
      /\ excused \subseteq excused' /\ \A q \in Runs : RunRests(q)
      /\ s \notin excused' => /\ s \notin excused /\ s \in Existing
                              /\ ms = store[s].msgs /\ Named(ms)
  BY <1>1, <1>2, <1>3, RouteSavesIs
<1>5. Follows(s)'
  <2> SUFFICES ASSUME s \notin excused' PROVE Follows(s)'
    BY DEF Follows
  <2>1. ASSUME NEW i, NEW q \in Runs, Owes(q, s, i) PROVE Owes(q, s, i)'
    BY <1>4, <2>1 DEF Owes, RunRests
  <2> QED
    BY <1>2, <1>4, <2>1 DEF Follows
<1>6. view' = [view EXCEPT ![s] = view[s]]
  BY <1>2, RestIs
<1> QED
  BY <1>1, <1>2, <1>3, <1>5, <1>6, RouteSavesKeeps

\* A client that hears of an edit has the message as it was edited.
LEMMA EditKeeps ==
    ASSUME EditsInv, NEW a \in Routes, Edit(a)
    PROVE  EditsInv'
<1>1. PICK s, old, id, ms, known :
        /\ s = route[a].s /\ old = route[a].msgs /\ id = route[a].id /\ ms = Edited(old, id)
        /\ known = {v \in view[s] : v.id # id} \cup {v \in Seen(ms) : v.id = id}
  OBVIOUS
<1>2. /\ route[a].op # "none" /\ RouteSaves(a, ms)
      /\ view' = [view EXCEPT ![s] = known]
  BY <1>1 DEF Edit
<1>3. old \in Seq(Messages) /\ (~Compressing => Paired(old)) /\ s \in Sessions
  BY <1>1, <1>2, Serving
<1>4. /\ ms \in Seq(Messages) /\ Len(ms) = Len(old)
      /\ \A i \in 1 .. Len(old) : ms[i].id = old[i].id /\ (old[i].id # id => ms[i] = old[i])
  BY <1>1, <1>3, EditedIs
<1>5. ~Compressing => Paired(ms)
  BY <1>1, <1>3, PairedEdited
<1>6. /\ Follows(s) /\ store'[s].msgs = ms /\ s \in Existing'
      /\ \A q \in Runs : RunRests(q)
      /\ s \notin excused' => /\ s \notin excused /\ s \in Existing
                              /\ old = store[s].msgs /\ Named(old)
  BY <1>1, <1>2, <1>4, RouteSavesIs
<1>7. view'[s] = known
  BY <1>2, <1>3, RestIs
<1>8. Follows(s)'
  <2> SUFFICES ASSUME s \notin excused' PROVE Follows(s)'
    BY DEF Follows
  <2>1. Named(ms)
    BY <1>1, <1>3, <1>6, NamedEdited
  <2>2. /\ view[s] \subseteq Seen(old)
        /\ \A i \in DOMAIN old : Item(old[i]) \in view[s] \/ \E q \in Runs : Owes(q, s, i)
    BY <1>6 DEF Follows
  <2>3. DOMAIN old = 1 .. Len(old) /\ DOMAIN ms = 1 .. Len(old)
    BY <1>3, <1>4
  <2>4. known \subseteq Seen(ms)
    <3>1. ASSUME NEW v \in view[s], v.id # id PROVE v \in Seen(ms)
      <4>1. PICK i \in DOMAIN old : v = [id |-> old[i].id, ver |-> old[i].ver]
        BY <2>2 DEF Seen
      <4>2. ms[i] = old[i]
        BY <1>4, <2>3, <3>1, <4>1
      <4> QED
        BY <2>3, <4>1, <4>2 DEF Seen
    <3> QED
      BY <1>1, <3>1
  <2>5. ASSUME NEW i \in DOMAIN ms
        PROVE  Item(ms[i]) \in known \/ \E q \in Runs : Owes(q, s, i)'
    <3>1. CASE ms[i].id = id
      <4>1. Item(ms[i]) \in Seen(ms) /\ Item(ms[i]).id = id
        BY <3>1 DEF Item, Seen
      <4> QED
        BY <1>1, <4>1
    <3>2. CASE ms[i].id # id
      <4>1. i \in DOMAIN old /\ ms[i] = old[i]
        BY <1>4, <2>3, <3>2
      <4>2. CASE Item(old[i]) \in view[s]
        <5>1. Item(old[i]).id # id
          BY <3>2, <4>1 DEF Item
        <5> QED
          BY <1>1, <4>1, <4>2, <5>1
      <4>3. CASE \E q \in Runs : Owes(q, s, i)
        BY <1>6, <4>3 DEF Owes, RunRests
      <4> QED
        BY <2>2, <4>1, <4>2, <4>3
    <3> QED
      BY <3>1, <3>2
  <2> QED
    BY <1>6, <1>7, <2>1, <2>4, <2>5 DEF Follows
<1>9. known \subseteq view[s] \cup Seen(ms)
  BY <1>1
<1> QED
  BY <1>1, <1>2, <1>4, <1>5, <1>8, <1>9, RouteSavesKeeps

\* A client that hears what a retry removed has what is left.
LEMMA RetryKeeps ==
    ASSUME EditsInv, NEW a \in Routes, Retry(a)
    PROVE  EditsInv'
<1>1. PICK s, old, ms, known :
        /\ s = route[a].s /\ old = route[a].msgs /\ ms = Kept(old)
        /\ known = {v \in view[s] : \A i \in Len(ms) + 1 .. Len(old) : v.id # old[i].id}
  OBVIOUS
<1>2. /\ route[a].op = "retry" /\ RouteSaves(a, ms)
      /\ view' = [view EXCEPT ![s] = known]
  BY <1>1 DEF Retry
<1>3. /\ old \in Seq(Messages) /\ (~Compressing => Paired(old)) /\ s \in Sessions
      /\ UserTurns(old) # {}
  BY <1>1, <1>2, Serving
<1>4. /\ ms \in Seq(Messages) /\ Len(ms) \in 1 .. Len(old)
      /\ \A i \in 1 .. Len(ms) : ms[i] = old[i]
  BY <1>1, <1>3, KeptIs
<1>5. ~Compressing => Paired(ms)
  BY <1>1, <1>3, PairedKept
<1>6. /\ Follows(s) /\ store'[s].msgs = ms /\ s \in Existing'
      /\ \A q \in Runs : RunRests(q)
      /\ s \notin excused' => /\ s \notin excused /\ s \in Existing
                              /\ old = store[s].msgs /\ Named(old)
  BY <1>1, <1>2, <1>4, RouteSavesIs
<1>7. view'[s] = known
  BY <1>2, <1>3, RestIs
<1>8. Follows(s)'
  <2> SUFFICES ASSUME s \notin excused' PROVE Follows(s)'
    BY DEF Follows
  <2>1. Named(ms)
    BY <1>1, <1>3, <1>6, NamedKept
  <2>2. /\ view[s] \subseteq Seen(old)
        /\ \A i \in DOMAIN old : Item(old[i]) \in view[s] \/ \E q \in Runs : Owes(q, s, i)
    BY <1>6 DEF Follows
  <2>3. DOMAIN old = 1 .. Len(old) /\ DOMAIN ms = 1 .. Len(ms) /\ Len(old) \in Nat
    BY <1>3, <1>4
  <2>4. known \subseteq Seen(ms)
    <3>1. ASSUME NEW v \in known PROVE v \in Seen(ms)
      <4>1. PICK i \in DOMAIN old : v = [id |-> old[i].id, ver |-> old[i].ver]
        BY <1>1, <2>2 DEF Seen
      <4>2. i \in DOMAIN ms
        <5>1. v.id = old[i].id
          BY <4>1
        <5>2. i \notin Len(ms) + 1 .. Len(old)
          BY <1>1, <5>1
        <5> QED
          BY <1>4, <2>3, <5>2
      <4> QED
        BY <1>4, <2>3, <4>1, <4>2 DEF Seen
    <3> QED
      BY <3>1
  <2>5. ASSUME NEW i \in DOMAIN ms
        PROVE  Item(ms[i]) \in known \/ \E q \in Runs : Owes(q, s, i)'
    <3>1. i \in DOMAIN old /\ ms[i] = old[i]
      BY <1>4, <2>3
    <3>2. CASE Item(old[i]) \in view[s]
      <4>1. ASSUME NEW j \in Len(ms) + 1 .. Len(old) PROVE Item(old[i]).id # old[j].id
        <5>1. j \in DOMAIN old /\ i # j
          BY <1>4, <2>3
        <5>2. old[i].id # old[j].id
          BY <1>6, <3>1, <5>1 DEF Named, DistinctIds
        <5> QED
          BY <5>2 DEF Item
      <4> QED
        BY <1>1, <3>1, <3>2, <4>1
    <3>3. CASE \E q \in Runs : Owes(q, s, i)
      BY <1>6, <3>3 DEF Owes, RunRests
    <3> QED
      BY <2>2, <3>1, <3>2, <3>3
  <2> QED
    BY <1>6, <1>7, <2>1, <2>4, <2>5 DEF Follows
<1>9. known \subseteq view[s] \cup Seen(ms)
  BY <1>1
<1> QED
  BY <1>1, <1>2, <1>4, <1>5, <1>8, <1>9, RouteSavesKeeps

\* A copy is a session of its own.
LEMMA CopiesKeeps ==
    ASSUME EditsInv, NEW a \in Routes, NEW f \in Sessions, route[a].op # "none", Copies(a, f)
    PROVE  EditsInv'
<1>1. PICK s, ms : s = route[a].s /\ ms = route[a].msgs
  OBVIOUS
<1>2. /\ f \notin Existing /\ Write(f, ms, route[a].marked)
      /\ route' = [route EXCEPT ![a] = IdleRoute] /\ view' = [view EXCEPT ![f] = Seen(ms)]
      /\ Excuse(f, s \in excused) /\ UNCHANGED <<run, sweep, edits>>
  BY <1>1 DEF Copies
<1>3. /\ ms \in Seq(Messages) /\ (~Compressing => Paired(ms)) /\ s \in Sessions
      /\ route[a].marked \in BOOLEAN /\ TypeInvariant /\ RouteKnows(a)
  BY <1>1, Serving
<1>4. /\ store' \in [Sessions -> Stored \cup {NotStored}]
      /\ store'[f].msgs = ms /\ f \in Existing'
      /\ \A t \in Sessions \ {f} : store'[t] = store[t]
  BY <1>2, <1>3, WriteIs
<1>5. /\ route' \in [Routes -> RouteType] /\ route'[a] = IdleRoute
      /\ \A b \in Routes \ {a} : route'[b] = route[b]
  BY <1>2, <1>3, IdleRouteIs DEF TypeInvariant
<1>6. \A t : StillThere(t)
  BY <1>2, <1>4 DEF StillThere, Existing
<1>7. /\ \A q \in Runs : RunRests(q)
      /\ \A b \in Routes \ {a} : RouteRests(b)
  BY <1>2, <1>5, <1>6 DEF RunRests, RouteRests
<1>8. /\ excused \subseteq excused' /\ excused' \subseteq Sessions
      /\ f \notin excused' => s \notin excused
  <2>1. PICK why \in BOOLEAN : why <=> s \in excused
    BY (s \in excused) \/ (s \notin excused)
  <2> QED
    BY <1>2, <2>1, ExcuseIs
<1>9. f \notin excused' => Named(ms)
  BY <1>1, <1>3, <1>8 DEF RouteKnows
<1>10. /\ view' \in [Sessions -> SUBSET [id : Ids, ver : 0 .. 1]] /\ IsFiniteSet(view'[f])
       /\ view'[f] = Seen(ms) /\ \A t \in Sessions \ {f} : view'[t] = view[t]
  <2>1. Seen(ms) \subseteq [id : Ids, ver : 0 .. 1] /\ IsFiniteSet(Seen(ms))
    BY <1>3, SeenFinite
  <2> QED
    BY <1>2, <2>1, RestIs
<1>11. Follows(f)'
  <2>1. \A i \in DOMAIN ms : Item(ms[i]) \in Seen(ms)
    BY DEF Item, Seen
  <2> QED
    BY <1>4, <1>9, <1>10, <2>1 DEF Follows
<1>12. RouteKnows(a)'
  BY <1>5, IdleRouteIs DEF RouteKnows
<1>13. /\ route'[a].op # "none" => route'[a].s \in Sessions
       /\ route'[a].op = "retry" => UserTurns(route'[a].msgs) # {}
       /\ ~Compressing => Paired(route'[a].msgs) /\ (f \in Existing' => Paired(store'[f].msgs))
  BY <1>3, <1>4, <1>5, IdleRouteIs, PairedEmpty
<1>14. run' \in [Runs -> RunType] /\ sweep' \subseteq Sessions /\ edits' \in 0 .. MaxEdits
  BY <1>2, <1>3, RestIs DEF TypeInvariant
<1> QED
  BY <1>4, <1>5, <1>7, <1>8, <1>10, <1>11, <1>12, <1>13, <1>14, RouteMoves
-----------------------------------------------------------------------------
\* What befalls a session, and the server.

LEMMA RemoveKeeps ==
    ASSUME EditsInv, NEW s \in Sessions, store' = [store EXCEPT ![s] = NotStored],
           Outdated(s, ByRun(NotStored, IdleRun)),
           view' \in [Sessions -> SUBSET [id : Ids, ver : 0 .. 1]], IsFiniteSet(view'[s]),
           \A t \in Sessions \ {s} : view'[t] = view[t],
           excused \subseteq excused', excused' \subseteq Sessions, sweep' \subseteq Sessions,
           edits' \in 0 .. MaxEdits, s \notin excused' => view'[s] = {}
    PROVE  EditsInv'
<1>1. /\ store' \in [Sessions -> Stored \cup {NotStored}]
      /\ run' \in [Runs -> RunType] /\ route' \in [Routes -> RouteType]
      /\ s \notin Existing'
      /\ \A t \in Sessions \ {s} : store'[t] = store[t]
      /\ \A q \in Runs : RunRests(q)
      /\ \A a \in Routes : RouteRests(a)
  BY RemoveIs DEF EditsInv, Typed
<1>2. Follows(s)'
  BY <1>1 DEF Follows
<1> QED
  BY <1>1, <1>2, SessionMoves

LEMMA DeleteKeeps ==
    ASSUME EditsInv, NEW s \in Sessions, Delete(s)
    PROVE  EditsInv'
<1>1. /\ store' = [store EXCEPT ![s] = NotStored] /\ Outdated(s, ByRun(NotStored, IdleRun))
      /\ view' = [view EXCEPT ![s] = {}] /\ UNCHANGED <<sweep, excused>> /\ Counted
  BY DEF Delete
<1>2. /\ view' \in [Sessions -> SUBSET [id : Ids, ver : 0 .. 1]] /\ view'[s] = {}
      /\ \A t \in Sessions \ {s} : view'[t] = view[t]
  BY <1>1, RestIs
<1>3. IsFiniteSet(view'[s])
  BY <1>2, FS_EmptySet
<1> QED
  BY <1>1, <1>2, <1>3, RestIs, CountedIs, RemoveKeeps

LEMMA CleanUpKeeps ==
    ASSUME EditsInv, NEW s \in Sessions, CleanUp(s)
    PROVE  EditsInv'
<1>1. /\ store' = [store EXCEPT ![s] = NotStored] /\ Outdated(s, ByRun(NotStored, IdleRun))
      /\ sweep' = sweep \ {s} /\ excused' = excused \cup {s} /\ UNCHANGED <<view, edits>>
  BY DEF CleanUp, Excuse
<1> QED
  BY <1>1, RestIs, RemoveKeeps

LEMMA AgeKeeps ==
    ASSUME EditsInv, NEW s \in Sessions, Age(s)
    PROVE  EditsInv'
<1>1. /\ s \in Existing /\ store' = [store EXCEPT ![s].old = TRUE]
      /\ UNCHANGED <<run, route, sweep, view, excused>> /\ Counted
  BY DEF Age
<1>2. /\ TypeInvariant /\ Follows(s) /\ store[s] \in Stored /\ store[s].msgs \in Seq(Messages)
      /\ ~Compressing => Paired(store[s].msgs)
  BY <1>1, StoredIs DEF EditsInv, Typed
<1>3. PICK new : new = [store[s] EXCEPT !.old = TRUE]
  OBVIOUS
<1>4. new \in Stored /\ new.msgs = store[s].msgs
  BY <1>2, <1>3 DEF Stored
<1>5. new # NotStored
  BY <1>4, SessionEditsAssumption DEF SessionEditsAssumption
<1>6. store' = [store EXCEPT ![s] = new]
  BY <1>1, <1>3
<1>7. /\ store' \in [Sessions -> Stored \cup {NotStored}]
      /\ s \in Existing' /\ store'[s].msgs = store[s].msgs
      /\ \A t \in Sessions \ {s} : store'[t] = store[t]
  BY <1>2, <1>4, <1>5, <1>6 DEF TypeInvariant, Existing
<1>8. \A t : StillThere(t)
  BY <1>7 DEF StillThere, Existing
<1>9. /\ \A q \in Runs : RunRests(q)
      /\ \A a \in Routes : RouteRests(a)
  BY <1>1, <1>8 DEF RunRests, RouteRests
<1>10. Follows(s)'
  BY <1>1, <1>2, <1>7 DEF Follows, Owes
<1>11. /\ run' \in [Runs -> RunType] /\ route' \in [Routes -> RouteType]
       /\ edits' \in 0 .. MaxEdits
  BY <1>1, <1>2, CountedIs DEF TypeInvariant
<1> QED
  BY <1>1, <1>2, <1>7, <1>9, <1>10, <1>11, RestIs, SessionMoves

LEMMA ListKeeps ==
    ASSUME EditsInv, List
    PROVE  EditsInv'
<1>1. sweep' \subseteq Sessions /\ UNCHANGED <<store, run, route, view, excused, edits>>
  BY DEF List, Existing
<1>2. Existing' = Existing
  BY <1>1 DEF Existing
<1>3. Typed'
  BY <1>1 DEF EditsInv, Typed, TypeInvariant, ViewsFinite, Located
<1>4. Pairs'
  BY <1>1, <1>2 DEF EditsInv, Pairs, PairsKept, Transcripts
<1>5. \A s \in Sessions : Follows(s)'
  BY <1>1, <1>2 DEF EditsInv, Follows, Owes
<1>6. \A r \in Runs : RunKnows(r)'
  BY <1>1, <1>2 DEF EditsInv, RunKnows
<1>7. \A a \in Routes : RouteKnows(a)'
  BY <1>1, <1>2 DEF EditsInv, RouteKnows
<1> QED
  BY <1>3, <1>4, <1>5, <1>6, <1>7 DEF EditsInv

\* After a crash nobody knows anything, and nothing is owed of any session that is not excused.
LEMMA CrashKeeps ==
    ASSUME EditsInv, Crash
    PROVE  EditsInv'
<1> DEFINE over == [IdleRun EXCEPT !.pc = "over"]
<1>1. /\ excused' = excused \cup {s \in Sessions : Holds(s) \cup Serves(s) # {}}
      /\ run' = [r \in Runs |-> IF run[r].pc = "idle" THEN run[r] ELSE over]
      /\ route' = [a \in Routes |-> IdleRoute]
      /\ sweep' = {} /\ UNCHANGED <<store, view>> /\ Counted
  BY DEF Crash
<1>2. over \in RunType /\ over.pc = "over" /\ over.s \notin Sessions /\ over.msgs = <<>>
  BY OverIs
<1> HIDE DEF over
<1>3. /\ IdleRoute \in RouteType /\ IdleRoute.op = "none" /\ IdleRoute.s \notin Sessions
      /\ IdleRoute.msgs = <<>>
  BY IdleRouteIs
<1>4. \A r \in Runs : (run'[r] = run[r] /\ run[r].pc = "idle") \/ run'[r] = over
  BY <1>1
<1>5. \A a \in Routes : route'[a] = IdleRoute
  BY <1>1
<1>6. Existing' = Existing
  BY <1>1 DEF Existing
<1>7. Typed'
  <2>1. edits' \in 0 .. MaxEdits
    BY <1>1, CountedIs
  <2>2. run' \in [Runs -> RunType]
    BY <1>1, <1>2 DEF EditsInv, Typed, TypeInvariant
  <2>3. route' \in [Routes -> RouteType]
    BY <1>1, <1>3
  <2>4. excused' \subseteq Sessions
    BY <1>1, RestIs
  <2>5. TypeInvariant'
    BY <1>1, <2>1, <2>2, <2>3, <2>4 DEF EditsInv, Typed, TypeInvariant
  <2>6. ViewsFinite'
    BY <1>1 DEF EditsInv, Typed, ViewsFinite
  <2>7. Located'
    BY <1>2, <1>3, <1>4, <1>5 DEF Located
  <2> QED
    BY <2>5, <2>6, <2>7 DEF Typed
<1>8. Pairs'
  <2> SUFFICES ASSUME ~Compressing PROVE PairsKept'
    BY DEF Pairs
  <2>1. PairsKept
    BY DEF EditsInv, Pairs
  <2>2. \A q \in Runs : Paired(run'[q].msgs)
    BY <1>2, <1>4, <2>1, PairedEmpty DEF PairsKept, Transcripts
  <2>3. \A a \in Routes : Paired(route'[a].msgs)
    BY <1>3, <1>5, PairedEmpty
  <2>4. \A t \in Existing' : Paired(store'[t].msgs)
    BY <1>1, <1>6, <2>1 DEF PairsKept, Transcripts
  <2> QED
    BY <2>2, <2>3, <2>4 DEF PairsKept, Transcripts
<1>9. ASSUME NEW s \in Sessions PROVE Follows(s)'
  <2> SUFFICES ASSUME s \notin excused' PROVE Follows(s)'
    BY DEF Follows
  <2>1. s \notin excused /\ Holds(s) = {}
    BY <1>1
  <2>2. \A q \in Runs : \A i : ~Owes(q, s, i)
    BY <2>1 DEF Owes, Holds
  <2>3. Follows(s)
    BY DEF EditsInv
  <2> QED
    BY <1>1, <1>6, <2>1, <2>2, <2>3 DEF Follows
<1>10. ASSUME NEW r \in Runs PROVE RunKnows(r)'
  BY <1>2, <1>4 DEF RunKnows
<1>11. ASSUME NEW a \in Routes PROVE RouteKnows(a)'
  BY <1>3, <1>5 DEF RouteKnows
<1> QED
  BY <1>7, <1>8, <1>9, <1>10, <1>11 DEF EditsInv
-----------------------------------------------------------------------------
LEMMA EditsInit ==
    ASSUME Init
    PROVE  EditsInv
<1>1. /\ store = [s \in Sessions |-> NotStored] /\ run = [r \in Runs |-> IdleRun]
      /\ route = [a \in Routes |-> IdleRoute] /\ sweep = {}
      /\ view = [s \in Sessions |-> {}] /\ excused = {} /\ edits = 0
  BY DEF Init
<1>2. IdleRun \in RunType /\ IdleRun.pc = "idle" /\ IdleRun.s \notin Sessions /\ IdleRun.msgs = <<>>
  <2>1. <<>> \in Seq(Messages)
    OBVIOUS
  <2>2. IdleRun \in RunType /\ IdleRun.pc = "idle" /\ IdleRun.s = NotStored /\ IdleRun.msgs = <<>>
    BY <2>1 DEF IdleRun, RunType
  <2> QED
    BY <2>2, SessionEditsAssumption DEF SessionEditsAssumption
<1>3. /\ IdleRoute \in RouteType /\ IdleRoute.op = "none" /\ IdleRoute.s \notin Sessions
      /\ IdleRoute.msgs = <<>>
  BY IdleRouteIs
<1>4. Existing = {}
  BY <1>1 DEF Existing
<1>5. Typed
  <2>1. MaxEdits \in Nat
    BY SessionEditsAssumption DEF SessionEditsAssumption
  <2>2. TypeInvariant
    BY <1>1, <1>2, <1>3, <2>1 DEF TypeInvariant
  <2>3. ViewsFinite
    BY <1>1, FS_EmptySet DEF ViewsFinite
  <2>4. Located
    BY <1>1, <1>2, <1>3 DEF Located
  <2> QED
    BY <2>2, <2>3, <2>4 DEF Typed
<1>6. Pairs
  BY <1>1, <1>2, <1>3, <1>4, PairedEmpty DEF Pairs, PairsKept, Transcripts
<1>7. \A s \in Sessions : Follows(s)
  BY <1>1, <1>4 DEF Follows
<1>8. \A r \in Runs : RunKnows(r)
  BY <1>1, <1>2 DEF RunKnows
<1>9. \A a \in Routes : RouteKnows(a)
  BY <1>1, <1>3 DEF RouteKnows
<1> QED
  BY <1>5, <1>6, <1>7, <1>8, <1>9 DEF EditsInv

LEMMA EditsNext ==
    ASSUME EditsInv, [Next]_vars
    PROVE  EditsInv'
<1>1. ASSUME NEW r \in Runs, RunStep(r) PROVE EditsInv'
  BY <1>1, MarkKeeps, ToolStepKeeps, AnswerKeeps, StopKeeps, OptimizeKeeps, ThrowKeeps,
     FinalSaveKeeps, CatchLoadKeeps, CatchSaveKeeps, CleanLoadKeeps, CleanSaveKeeps DEF RunStep
<1>2. ASSUME NEW r \in Runs, NEW s \in Sessions, Prompt(r, s) PROVE EditsInv'
  BY <1>2, PromptKeeps
<1>3. ASSUME NEW a \in Routes, NEW s \in Sessions,
             NEW op \in {"update", "edit", "retry", "fork", "import"}, Load(a, s, op)
      PROVE  EditsInv'
  BY <1>3, LoadKeeps
<1>4. ASSUME NEW a \in Routes, NEW f \in Sessions, Fork(a, f) \/ Import(a, f) PROVE EditsInv'
  BY <1>4, CopiesKeeps DEF Fork, Import
<1>5. ASSUME NEW a \in Routes, Update(a) \/ Edit(a) \/ Retry(a) PROVE EditsInv'
  BY <1>5, UpdateKeeps, EditKeeps, RetryKeeps
<1>6. ASSUME NEW s \in Sessions, Delete(s) \/ Age(s) \/ CleanUp(s) PROVE EditsInv'
  BY <1>6, DeleteKeeps, AgeKeeps, CleanUpKeeps
<1>7. CASE List
  BY <1>7, ListKeeps
<1>8. CASE Crash
  BY <1>8, CrashKeeps
<1>9. CASE UNCHANGED vars
  <2>1. UNCHANGED <<store, run, route, sweep, view, excused, edits>>
    BY <1>9 DEF vars
  <2>2. Existing' = Existing
    BY <2>1 DEF Existing
  <2>3. Typed'
    BY <2>1 DEF EditsInv, Typed, TypeInvariant, ViewsFinite, Located
  <2>4. Pairs'
    BY <2>1, <2>2 DEF EditsInv, Pairs, PairsKept, Transcripts
  <2>5. \A s \in Sessions : Follows(s)'
    BY <2>1, <2>2 DEF EditsInv, Follows, Owes
  <2>6. \A r \in Runs : RunKnows(r)'
    BY <2>1, <2>2 DEF EditsInv, RunKnows
  <2>7. \A a \in Routes : RouteKnows(a)'
    BY <2>1, <2>2 DEF EditsInv, RouteKnows
  <2> QED
    BY <2>3, <2>4, <2>5, <2>6, <2>7 DEF EditsInv
<1> QED
  BY <1>1, <1>2, <1>3, <1>4, <1>5, <1>6, <1>7, <1>8, <1>9 DEF Next

\* The invariant holds of every state the program reaches.
THEOREM SessionEditsInvariant == Spec => []EditsInv
BY EditsInit, EditsNext, PTL DEF Spec

\* The transcripts, holders and events have the types that the code gives them.
THEOREM SessionEditsTypes == Spec => []TypeInvariant
<1>1. EditsInv => TypeInvariant
  BY DEF EditsInv, Typed
<1> QED
  BY <1>1, SessionEditsInvariant, PTL

\* Unless a compressor answers, no step of any run or request takes a result from its request
\* or a request from its results.
THEOREM SessionEditsPairs == ASSUME ~Compressing PROVE Spec => []PairsKept
<1>1. EditsInv => PairsKept
  BY DEF EditsInv, Pairs
<1> QED
  BY <1>1, SessionEditsInvariant, PTL

\* The ids of a session that nobody overwrote, optimised or cleaned up are distinct.
THEOREM SessionEditsIds == Spec => []IdsDistinct
<1>1. EditsInv => IdsDistinct
  BY DEF EditsInv, IdsDistinct, Existing, Follows, Named
<1> QED
  BY <1>1, SessionEditsInvariant, PTL

\* A client that follows the events of a session has what is stored, once no run works on it.
THEOREM SessionEditsView == Spec => []ViewIsStore
<1>1. EditsInv => ViewIsStore
  <2> SUFFICES ASSUME EditsInv, NEW s \in Existing, s \notin excused, Holds(s) = {}
               PROVE  view[s] = Seen(store[s].msgs)
    BY DEF ViewIsStore
  <2>1. Follows(s)
    BY DEF EditsInv, Existing
  <2>2. \A q \in Runs : \A i : ~Owes(q, s, i)
    BY DEF Owes, Holds
  <2>3. /\ view[s] \subseteq Seen(store[s].msgs)
        /\ \A i \in DOMAIN store[s].msgs : Item(store[s].msgs[i]) \in view[s]
    BY <2>1, <2>2 DEF Follows
  <2> QED
    BY <2>3 DEF Seen, Item
<1> QED
  BY <1>1, SessionEditsInvariant, PTL
=============================================================================
