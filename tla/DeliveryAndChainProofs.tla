------------------------ MODULE DeliveryAndChainProofs ------------------------
(***************************************************************************)
(* Theorems about ResultDelivery, for any runs, sessions, targets, faults, *)
(* loads and rewrites, and about Chain, for any plan, concurrency and      *)
(* values: what a run announces, and what a chain reports.                 *)
(*                                                                         *)
(* Delivery counts credits: a write of a result, or a failure to remove    *)
(* it, pays for one announcement, and a result that can still be           *)
(* announced (Owed) holds an unspent credit.  The same holds, instance by  *)
(* instance, of the intercom messages (Unsent).                            *)
(*                                                                         *)
(* Chain rests on where things stand (ChainInv): the results of a step     *)
(* stand where Start counts them, those of a dynamic group have the flat   *)
(* indices behind the steps before it, and only the step a chain stops at  *)
(* has an unsuccessful child.  The flat indices are sums over the plan:    *)
(* flattened, it has the children of a step where the sum of the steps     *)
(* before puts them, and no others (Laid), and only one sequence has       *)
(* (LaidOnce).  What the recursive functions compute is shown by the least *)
(* counterexample (LeastNat).                                              *)
(***************************************************************************)
EXTENDS ResultDelivery, Chain, SequenceTheorems, FiniteSetTheorems, WellFoundedInduction,
        NaturalsInduction, TLAPS

(********************************** Chain **********************************)

\* A set of numbers has a least one.
LEMMA LeastNat ==
  ASSUME NEW S, S \subseteq Nat, S # {}
  PROVE  \E n \in S : \A m \in S : n <= m
<1>1. IsWellFoundedOn(OpToRel(<, Nat), Nat)
  BY NatLessThanWellFounded
<1>2. PICK n \in S : \A m \in S : <<m, n>> \notin OpToRel(<, Nat)
  BY <1>1, WFMin
<1>3. ASSUME NEW m \in S PROVE n <= m
  <2>1. ~ (m < n)
    BY <1>2 DEF OpToRel
  <2> QED
    BY <2>1
<1> QED
  BY <1>3

\* b counts the elements before each of the N sequences s.
Cumulates(b, s, N) ==
  /\ b \in [1..(N + 1) -> Nat] /\ b[1] = 0
  /\ \A i \in 1..N : b[i + 1] = b[i] + Len(s[i])

\* t is the first n sequences of s one after the other: each element is at the place that
\* b gives it, and there are no others.
Laid(t, s, n, b, S) ==
  /\ t \in Seq(S) /\ Len(t) = b[n + 1]
  /\ \A i \in 1..n : \A k \in 1..Len(s[i]) : b[i] + k \in 1..Len(t) /\ t[b[i] + k] = s[i][k]
  /\ \A m \in 1..Len(t) : \E i \in 1..n : \E k \in 1..Len(s[i]) : m = b[i] + k

\* Where the places of two sequences lie, one behind the other.
LEMMA PlaceBefore ==
  ASSUME NEW a \in Nat, NEW c \in Nat, NEW m \in 1..a
  PROVE  m \in 1..(a + c) /\ m <= a
OBVIOUS

LEMMA PlaceAfter ==
  ASSUME NEW a \in Nat, NEW c \in Nat, NEW k \in 1..c, NEW m, m = a + k
  PROVE  m \in 1..(a + c) /\ ~ (m <= a) /\ m - a = k
OBVIOUS

LEMMA PlaceBehind ==
  ASSUME NEW a \in Nat, NEW c \in Nat, NEW m \in 1..(a + c), m \notin 1..a
  PROVE  m - a \in 1..c /\ m = a + (m - a)
OBVIOUS

\* Laying one more sequence behind the others.
LEMMA LaidOneMore ==
  ASSUME NEW S, NEW N \in Nat, NEW s \in [1..N -> Seq(S)], NEW b, Cumulates(b, s, N),
         NEW n \in 1..N, NEW t, Laid(t, s, n - 1, b, S)
  PROVE  Laid(t \o s[n], s, n, b, S)
<1> DEFINE u == s[n]
           v == t \o u
<1>1. n \in Nat /\ n - 1 \in Nat /\ n - 1 + 1 = n /\ u \in Seq(S) /\ Len(u) \in Nat
  OBVIOUS
<1>2. t \in Seq(S) /\ Len(t) = b[n] /\ b[n] \in Nat /\ b[n + 1] = b[n] + Len(u)
  <2>1. b \in [1..(N + 1) -> Nat] /\ b[n + 1] = b[n] + Len(s[n])
    BY DEF Cumulates
  <2>2. t \in Seq(S) /\ Len(t) = b[n - 1 + 1]
    BY DEF Laid
  <2>3. n \in 1..(N + 1)
    OBVIOUS
  <2> QED
    BY <1>1, <2>1, <2>2, <2>3
<1> HIDE DEF u
<1>3. /\ v \in Seq(S) /\ Len(v) = b[n + 1]
      /\ \A m \in 1..Len(t) : m \in 1..Len(v) /\ v[m] = t[m]
      /\ \A k \in 1..Len(u) : b[n] + k \in 1..Len(v) /\ v[b[n] + k] = u[k]
  <2>1. v \in Seq(S) /\ Len(v) = Len(t) + Len(u)
    BY <1>1, <1>2, ConcatProperties
  <2>2. \A m \in 1..(Len(t) + Len(u)) : v[m] = IF m <= Len(t) THEN t[m] ELSE u[m - Len(t)]
    BY <1>1, <1>2, ConcatProperties
  <2> HIDE DEF v
  <2>3. ASSUME NEW m \in 1..Len(t) PROVE m \in 1..Len(v) /\ v[m] = t[m]
    <3>1. m \in 1..(Len(t) + Len(u)) /\ m <= Len(t)
      <4>1. Len(t) \in Nat /\ Len(u) \in Nat
        BY <1>1, <1>2
      <4> QED
        BY <4>1, PlaceBefore
    <3>2. v[m] = t[m]
      BY <2>2, <3>1
    <3> QED
      BY <2>1, <3>1, <3>2
  <2>4. ASSUME NEW k \in 1..Len(u) PROVE b[n] + k \in 1..Len(v) /\ v[b[n] + k] = u[k]
    <3> DEFINE m == b[n] + k
    <3>1. m \in 1..(Len(t) + Len(u)) /\ ~ (m <= Len(t)) /\ m - Len(t) = k
      <4>1. m = Len(t) + k /\ Len(t) \in Nat /\ Len(u) \in Nat
        BY <1>1, <1>2
      <4> HIDE DEF m
      <4> QED
        BY <4>1, PlaceAfter
    <3> HIDE DEF m
    <3>2. v[m] = u[m - Len(t)]
      BY <2>2, <3>1
    <3>3. m \in 1..Len(v) /\ v[m] = u[k]
      BY <2>1, <3>1, <3>2
    <3> QED
      BY <3>3 DEF m
  <2> QED
    BY <1>1, <1>2, <2>1, <2>3, <2>4
<1>4. \A m \in 1..Len(v) : m \in 1..Len(t) \/ \E k \in 1..Len(u) : m = b[n] + k
  <2> SUFFICES ASSUME NEW m \in 1..Len(v), m \notin 1..Len(t) PROVE \E k \in 1..Len(u) : m = b[n] + k
    OBVIOUS
  <2>1. Len(v) = Len(t) + Len(u) /\ Len(t) = b[n]
    BY <1>2, <1>3
  <2>2. Len(u) \in Nat /\ b[n] \in Nat /\ m \in 1..(b[n] + Len(u)) /\ m \notin 1..b[n]
    BY <1>1, <1>2, <2>1
  <2>3. m - b[n] \in 1..Len(u) /\ m = b[n] + (m - b[n])
    BY <2>2, PlaceBehind
  <2> QED
    BY <2>3
<1> HIDE DEF v
<1>5. ASSUME NEW i \in 1..n, NEW k \in 1..Len(s[i])
      PROVE  b[i] + k \in 1..Len(v) /\ v[b[i] + k] = s[i][k]
  <2>1. CASE i = n
    BY <1>3, <2>1 DEF u
  <2>2. CASE i # n
    <3>1. i \in 1..(n - 1)
      BY <1>1, <2>2
    <3>2. b[i] + k \in 1..Len(t) /\ t[b[i] + k] = s[i][k]
      BY <3>1 DEF Laid
    <3> QED
      BY <1>3, <3>2
  <2> QED
    BY <2>1, <2>2
<1>6. ASSUME NEW m \in 1..Len(v)
      PROVE  \E i \in 1..n : \E k \in 1..Len(s[i]) : m = b[i] + k
  <2>1. CASE m \in 1..Len(t)
    <3>1. PICK i \in 1..(n - 1) : \E k \in 1..Len(s[i]) : m = b[i] + k
      BY <2>1 DEF Laid
    <3>2. i \in 1..n
      BY <1>1
    <3> QED
      BY <3>1, <3>2
  <2>2. CASE m \notin 1..Len(t)
    BY <1>4, <2>2 DEF u
  <2> QED
    BY <2>1, <2>2
<1> QED
  BY <1>3, <1>5, <1>6 DEF Laid, v, u

\* The functions by which FlattenSeq lays sequences one after the other.
Flattening(g, s, n) ==
  /\ g = [i \in 1..n |-> g[i]]
  /\ \A i \in 1..n : g[i] = IF i = 1 THEN s[i] ELSE g[i - 1] \o s[i]

LEMMA FlatteningSome ==
  ASSUME NEW S, NEW N \in Nat, NEW s \in [1..N -> Seq(S)], NEW b, Cumulates(b, s, N), NEW k \in 1..N
  PROVE  \E g : Flattening(g, s, k) /\ Laid(g[k], s, k, b, S)
<1> DEFINE Failing == {n \in 1..N : \A g : ~ (Flattening(g, s, n) /\ Laid(g[n], s, n, b, S))}
<1>1. ASSUME Failing # {} PROVE FALSE
  <2>1. PICK n \in Failing : \A m \in Failing : n <= m
    <3>1. Failing \subseteq Nat
      OBVIOUS
    <3> HIDE DEF Failing
    <3> QED
      BY <1>1, <3>1, LeastNat
  <2>2. CASE n = 1
    <3>1. Laid(<<>>, s, 0, b, S)
      BY DEF Laid, Cumulates
    <3>2. 1 \in 1..N /\ 1 - 1 = 0 /\ s[1] \in Seq(S)
      BY <2>1, <2>2
    <3>3. Laid(<<>> \o s[1], s, 1, b, S)
      BY <3>1, <3>2, LaidOneMore
    <3>4. <<>> \o s[1] = s[1]
      BY <3>2
    <3> DEFINE h == [i \in 1..1 |-> s[1]]
    <3>5. Flattening(h, s, 1) /\ h[1] = s[1]
      BY DEF Flattening
    <3> HIDE DEF h
    <3> QED
      BY <2>1, <2>2, <3>3, <3>4, <3>5
  <2>3. CASE n # 1
    <3>1. n - 1 \in 1..N /\ n - 1 \notin Failing /\ n \in 1..N
      BY <2>1, <2>3
    <3>2. PICK g : Flattening(g, s, n - 1) /\ Laid(g[n - 1], s, n - 1, b, S)
      BY <3>1
    <3> DEFINE last == g[n - 1] \o s[n]
               h == [i \in 1..n |-> IF i = n THEN last ELSE g[i]]
    <3>3. Laid(last, s, n, b, S)
      BY <3>1, <3>2, LaidOneMore
    <3> HIDE DEF last
    <3>4. h[n] = last /\ h[n - 1] = g[n - 1] /\ \A i \in 1..(n - 1) : h[i] = g[i]
      BY <3>1
    <3>5. ASSUME NEW i \in 1..n PROVE h[i] = IF i = 1 THEN s[i] ELSE h[i - 1] \o s[i]
      <4>1. CASE i = n
        BY <2>3, <3>4, <4>1 DEF last
      <4>2. CASE i # n
        <5>1. i \in 1..(n - 1) /\ (i # 1 => i - 1 \in 1..(n - 1))
          BY <3>1, <4>2
        <5> HIDE DEF h
        <5> QED
          BY <3>2, <3>4, <5>1 DEF Flattening
      <4> QED
        BY <4>1, <4>2
    <3>6. h = [i \in 1..n |-> h[i]]
      OBVIOUS
    <3> HIDE DEF h
    <3>7. Flattening(h, s, n)
      BY <3>5, <3>6 DEF Flattening
    <3> QED
      BY <2>1, <3>3, <3>4, <3>7
  <2> QED
    BY <2>2, <2>3
<1> QED
  BY <1>1

\* Flattened sequences are one after the other.
LEMMA FlattenPlaces ==
  ASSUME NEW S, NEW N \in Nat, NEW s \in [1..N -> Seq(S)], NEW b, Cumulates(b, s, N)
  PROVE  Laid(FlattenSeq(s), s, N, b, S)
<1>1. s \in Seq(Seq(S)) /\ Len(s) = N
  BY ElementOfSeq, SeqDef
<1>2. CASE N = 0
  <2>1. s = <<>> /\ FlattenSeq(s) = s
    BY <1>1, <1>2 DEF FlattenSeq
  <2> QED
    <3>1. b[1] = 0 /\ 0 + 1 = 1 /\ <<>> \in Seq(S) /\ Len(<<>>) = 0
      BY DEF Cumulates
    <3>2. Laid(<<>>, s, 0, b, S)
      BY <3>1 DEF Laid
    <3> QED
      BY <1>2, <2>1, <3>2
<1>3. CASE N # 0
  <2> DEFINE flatten == CHOOSE f : f = [i \in 1..Len(s) |-> IF i = 1 THEN s[i] ELSE f[i - 1] \o s[i]]
  <2>1. N \in 1..N
    BY <1>3
  <2>2. PICK g : Flattening(g, s, N) /\ Laid(g[N], s, N, b, S)
    BY <2>1, FlatteningSome
  <2>3. g = [i \in 1..N |-> g[i]]
    BY <2>2 DEF Flattening
  <2>4. [i \in 1..N |-> g[i]] = [i \in 1..N |-> IF i = 1 THEN s[i] ELSE g[i - 1] \o s[i]]
    BY <2>2 DEF Flattening
  <2>5. g = [i \in 1..Len(s) |-> IF i = 1 THEN s[i] ELSE g[i - 1] \o s[i]]
    BY <1>1, <2>3, <2>4
  <2>6. flatten = [i \in 1..Len(s) |-> IF i = 1 THEN s[i] ELSE flatten[i - 1] \o s[i]]
    BY <2>5
  <2>7. FlattenSeq(s) = flatten[N]
    BY <1>1, <1>3 DEF FlattenSeq
  <2> HIDE DEF flatten
  <2> DEFINE Differ == {n \in 1..N : flatten[n] # g[n]}
  <2>8. ASSUME Differ # {} PROVE FALSE
    <3>1. PICK n \in Differ : \A m \in Differ : n <= m
      <4>1. Differ \subseteq Nat
        OBVIOUS
      <4> HIDE DEF Differ
      <4> QED
        BY <2>8, <4>1, LeastNat
    <3>2. n \in 1..N /\ (n # 1 => n - 1 \in 1..N /\ n - 1 \notin Differ)
      BY <3>1
    <3>3. n # 1 => flatten[n - 1] = g[n - 1]
      BY <3>2
    <3>4. flatten[n] = IF n = 1 THEN s[n] ELSE flatten[n - 1] \o s[n]
      BY <1>1, <2>6, <3>2
    <3>5. g[n] = IF n = 1 THEN s[n] ELSE g[n - 1] \o s[n]
      BY <2>2, <3>2 DEF Flattening
    <3>6. flatten[n] = g[n]
      BY <3>3, <3>4, <3>5
    <3> QED
      BY <3>1, <3>6
  <2>9. flatten[N] = g[N]
    BY <2>1, <2>8
  <2> QED
    BY <2>2, <2>7, <2>9
<1> QED
  BY <1>2, <1>3

\* What is laid the same way is the same.
LEMMA LaidOnce ==
  ASSUME NEW S, NEW n \in Nat, NEW s, NEW b, NEW t, NEW u, Laid(t, s, n, b, S), Laid(u, s, n, b, S)
  PROVE  t = u
<1>1. t \in Seq(S) /\ u \in Seq(S) /\ Len(t) = Len(u)
  BY DEF Laid
<1>2. ASSUME NEW m \in 1..Len(t) PROVE t[m] = u[m]
  <2>1. PICK i \in 1..n : \E k \in 1..Len(s[i]) : m = b[i] + k
    BY DEF Laid
  <2>2. PICK k \in 1..Len(s[i]) : m = b[i] + k
    BY <2>1
  <2> QED
    BY <2>2 DEF Laid
<1> QED
  BY <1>1, <1>2, SeqEqual

\* A function that never falls from one number to the next never falls.
LEMMA NeverFalls ==
  ASSUME NEW N \in Nat, NEW b \in [1..(N + 1) -> Nat], \A i \in 1..N : b[i] <= b[i + 1],
         NEW i \in 1..(N + 1), NEW j \in i..(N + 1)
  PROVE  b[i] <= b[j]
<1> DEFINE Wrong == {n \in i..(N + 1) : ~ (b[i] <= b[n])}
<1>1. ASSUME Wrong # {} PROVE FALSE
  <2>1. PICK n \in Wrong : \A m \in Wrong : n <= m
    <3>1. Wrong \subseteq Nat
      OBVIOUS
    <3> HIDE DEF Wrong
    <3> QED
      BY <1>1, <3>1, LeastNat
  <2>2. n # i
    BY <2>1
  <2>3. n - 1 \in i..(N + 1) /\ n - 1 \notin Wrong /\ n - 1 \in 1..N /\ n - 1 + 1 = n
    BY <2>1, <2>2
  <2>4. b[i] <= b[n - 1] /\ b[n - 1] <= b[n]
    BY <2>3
  <2>5. b[i] \in Nat /\ b[n - 1] \in Nat /\ b[n] \in Nat
    BY <2>1, <2>3
  <2> HIDE DEF Wrong
  <2>6. b[i] <= b[n]
    BY <2>4, <2>5
  <2> QED
    BY <2>1, <2>6 DEF Wrong
<1> QED
  BY <1>1

-----------------------------------------------------------------------------
(* Where the steps start.                                                  *)

Kinds == {"seq", "par", "dyn"}

\* The number of children of a step, as far as it is known.
Many(p, d, i) == IF p[i].kind = "dyn" THEN Len(d[i]) ELSE Len(p[i].tasks)

\* The flat index that Start counts after a step that starts at v.
After(p, d, i, v) ==
  CASE p[i].kind = "seq" -> v + 1
    [] p[i].kind = "par" -> v + Len(p[i].tasks)
    [] OTHER -> IF d[i] = <<>> THEN v ELSE Max({v, Last(d[i]) + 1})

\* Start as a function of the plan and of the dynamic children.
StartOf(p, d) ==
  LET s[i \in 1..(Len(p) + 1)] ==
        IF i = 1 THEN 0
        ELSE CASE p[i - 1].kind = "seq" -> s[i - 1] + 1
               [] p[i - 1].kind = "par" -> s[i - 1] + Len(p[i - 1].tasks)
               [] OTHER -> IF d[i - 1] = <<>> THEN s[i - 1]
                           ELSE Max({s[i - 1], Last(d[i - 1]) + 1})
  IN s

LEMMA StartIsStartOf == Start = StartOf(plan, dynamic)
BY DEF Start, StartOf

LEMMA PlanFacts ==
  ASSUME NEW p \in Plan
  PROVE  /\ Len(p) \in Nat /\ DOMAIN p = 1..Len(p)
         /\ \A i \in 1..Len(p) :
              /\ p[i].kind \in Kinds /\ Len(p[i].tasks) \in Nat
              /\ DOMAIN p[i].tasks = 1..Len(p[i].tasks)
              /\ p[i].kind # "par" => Len(p[i].tasks) = 1
<1>1. p \in Seq(Range(p)) /\ DOMAIN p = 1..Len(p) /\ Len(p) \in Nat
  BY ChainAssumption
<1>2. ASSUME NEW i \in 1..Len(p)
      PROVE  /\ p[i].kind \in Kinds /\ Len(p[i].tasks) \in Nat
             /\ DOMAIN p[i].tasks = 1..Len(p[i].tasks)
             /\ p[i].kind # "par" => Len(p[i].tasks) = 1
  <2> DEFINE s == p[i]
  <2>1. s \in Range(p)
    BY <1>1 DEF Range
  <2> HIDE DEF s
  <2>2. /\ s.kind \in Kinds /\ s.tasks \in Seq(Range(s.tasks))
        /\ s.kind # "par" => Len(s.tasks) = 1
    BY <2>1, ChainAssumption DEF Kinds
  <2>3. DOMAIN s.tasks = 1..Len(s.tasks) /\ Len(s.tasks) \in Nat
    BY <2>2
  <2> QED
    BY <2>2, <2>3 DEF s
<1> QED
  BY <1>1, <1>2

LEMMA MaxOfTwo ==
  ASSUME NEW a \in Nat, NEW b \in Nat
  PROVE  Max({a, b}) \in {a, b} /\ a <= Max({a, b}) /\ b <= Max({a, b})
<1>1. \E x \in {a, b} : \A y \in {a, b} : x >= y
  <2>1. CASE a <= b
    BY <2>1
  <2>2. CASE b <= a
    BY <2>2
  <2> QED
    BY <2>1, <2>2
<1>2. Max({a, b}) \in {a, b} /\ \A y \in {a, b} : Max({a, b}) >= y
  BY <1>1 DEF Max
<1>3. Max({a, b}) >= a /\ Max({a, b}) >= b /\ Max({a, b}) \in Nat
  BY <1>2
<1> QED
  BY <1>2, <1>3

LEMMA AfterNat ==
  ASSUME NEW p \in Plan, NEW d \in [1..Len(p) -> Seq(Nat)], NEW i \in 1..Len(p), NEW v \in Nat
  PROVE  After(p, d, i, v) \in Nat /\ v <= After(p, d, i, v)
<1>1. p[i].kind \in Kinds /\ Len(p[i].tasks) \in Nat
  BY PlanFacts
<1>2. CASE p[i].kind = "seq"
  BY <1>2 DEF After
<1>3. CASE p[i].kind = "par"
  BY <1>1, <1>3 DEF After
<1>4. CASE p[i].kind = "dyn"
  <2> DEFINE l == Last(d[i]) + 1
  <2>1. d[i] # <<>> => l \in Nat
    BY DEF Last
  <2> HIDE DEF l
  <2>2. ASSUME d[i] # <<>> PROVE Max({v, l}) \in Nat /\ v <= Max({v, l})
    <3>1. Max({v, l}) \in {v, l} /\ v <= Max({v, l})
      BY <2>1, <2>2, MaxOfTwo
    <3> QED
      BY <2>1, <2>2, <3>1
  <2>3. After(p, d, i, v) = IF d[i] = <<>> THEN v ELSE Max({v, l})
    BY <1>4 DEF After, l
  <2> QED
    BY <2>2, <2>3
<1> QED
  BY <1>1, <1>2, <1>3, <1>4 DEF Kinds

\* The functions by which Start counts the first n steps.
Counting(g, p, d, n) ==
  g \in [1..(n + 1) -> Nat] /\ g[1] = 0 /\ \A i \in 1..n : g[i + 1] = After(p, d, i, g[i])

LEMMA CountingSome ==
  ASSUME NEW p \in Plan, NEW d \in [1..Len(p) -> Seq(Nat)], NEW k \in 0..Len(p)
  PROVE  \E g : Counting(g, p, d, k)
<1> DEFINE Failing == {n \in 0..Len(p) : \A g : ~ Counting(g, p, d, n)}
<1>1. Len(p) \in Nat
  BY PlanFacts
<1>2. ASSUME Failing # {} PROVE FALSE
  <2>1. PICK n \in Failing : \A m \in Failing : n <= m
    <3>1. Failing \subseteq Nat
      BY <1>1
    <3> HIDE DEF Failing
    <3> QED
      BY <1>2, <3>1, LeastNat
  <2>2. CASE n = 0
    <3> DEFINE h == [i \in 1..1 |-> 0]
    <3>1. Counting(h, p, d, 0)
      BY DEF Counting
    <3> HIDE DEF h
    <3> QED
      BY <2>1, <2>2, <3>1
  <2>3. CASE n # 0
    <3>1. n - 1 \in 0..Len(p) /\ n \in 1..Len(p) /\ n - 1 + 1 = n /\ ~ (n <= n - 1)
      BY <1>1, <2>1, <2>3
    <3>8. n - 1 \notin Failing
      BY <2>1, <3>1
    <3>2. PICK g : Counting(g, p, d, n - 1)
      BY <3>1, <3>8
    <3> DEFINE last == After(p, d, n, g[n])
               h == [i \in 1..(n + 1) |-> IF i = n + 1 THEN last ELSE g[i]]
    <3>3. g[n] \in Nat /\ g \in [1..n -> Nat] /\ g[1] = 0
      BY <3>1, <3>2 DEF Counting
    <3>4. last \in Nat
      BY <3>1, <3>3, AfterNat
    <3> HIDE DEF last
    <3>5. h \in [1..(n + 1) -> Nat] /\ h[1] = 0 /\ h[n + 1] = last /\ \A i \in 1..n : h[i] = g[i]
      BY <3>1, <3>3, <3>4
    <3> HIDE DEF h
    <3>6. ASSUME NEW i \in 1..n PROVE h[i + 1] = After(p, d, i, h[i])
      <4>1. CASE i = n
        BY <3>5, <4>1 DEF last
      <4>2. CASE i # n
        <5>1. i \in 1..(n - 1) /\ i + 1 \in 1..n
          BY <3>1, <4>2
        <5>2. g[i + 1] = After(p, d, i, g[i])
          BY <3>2, <5>1 DEF Counting
        <5> QED
          BY <3>5, <5>1, <5>2
      <4> QED
        BY <4>1, <4>2
    <3>7. Counting(h, p, d, n)
      BY <3>5, <3>6 DEF Counting
    <3> QED
      BY <2>1, <3>7
  <2> QED
    BY <2>2, <2>3
<1> QED
  BY <1>2

LEMMA StartCounts ==
  ASSUME NEW p \in Plan, NEW d \in [1..Len(p) -> Seq(Nat)]
  PROVE  Counting(StartOf(p, d), p, d, Len(p))
<1> DEFINE By(i, v) == CASE p[i].kind = "seq" -> v + 1
                         [] p[i].kind = "par" -> v + Len(p[i].tasks)
                         [] OTHER -> IF d[i] = <<>> THEN v ELSE Max({v, Last(d[i]) + 1})
           s == CHOOSE f : f = [i \in 1..(Len(p) + 1) |->
                  IF i = 1 THEN 0
                  ELSE CASE p[i - 1].kind = "seq" -> f[i - 1] + 1
                         [] p[i - 1].kind = "par" -> f[i - 1] + Len(p[i - 1].tasks)
                         [] OTHER -> IF d[i - 1] = <<>> THEN f[i - 1]
                                     ELSE Max({f[i - 1], Last(d[i - 1]) + 1})]
<1>1. Len(p) \in Nat
  BY PlanFacts
<1>2. PICK g : Counting(g, p, d, Len(p))
  BY <1>1, CountingSome
<1>3. g = [i \in 1..(Len(p) + 1) |-> IF i = 1 THEN 0 ELSE After(p, d, i - 1, g[i - 1])]
  <2>1. ASSUME NEW i \in 1..(Len(p) + 1) PROVE g[i] = IF i = 1 THEN 0 ELSE After(p, d, i - 1, g[i - 1])
    <3>1. i # 1 => i - 1 \in 1..Len(p) /\ i - 1 + 1 = i
      BY <1>1
    <3> QED
      BY <1>2, <3>1 DEF Counting
  <2> QED
    BY <1>2, <2>1 DEF Counting
<1>4. g = [i \in 1..(Len(p) + 1) |->
                  IF i = 1 THEN 0
                  ELSE CASE p[i - 1].kind = "seq" -> g[i - 1] + 1
                         [] p[i - 1].kind = "par" -> g[i - 1] + Len(p[i - 1].tasks)
                         [] OTHER -> IF d[i - 1] = <<>> THEN g[i - 1]
                                     ELSE Max({g[i - 1], Last(d[i - 1]) + 1})]
  BY <1>3 DEF After
<1>5. s = [i \in 1..(Len(p) + 1) |->
                  IF i = 1 THEN 0
                  ELSE CASE p[i - 1].kind = "seq" -> s[i - 1] + 1
                         [] p[i - 1].kind = "par" -> s[i - 1] + Len(p[i - 1].tasks)
                         [] OTHER -> IF d[i - 1] = <<>> THEN s[i - 1]
                                     ELSE Max({s[i - 1], Last(d[i - 1]) + 1})]
  BY <1>4
<1>6. StartOf(p, d) = s
  BY DEF StartOf
<1> HIDE DEF s
<1>7. s = [i \in 1..(Len(p) + 1) |-> IF i = 1 THEN 0 ELSE After(p, d, i - 1, s[i - 1])]
  BY <1>5 DEF After
<1>8. s[1] = 0 /\ \A i \in 1..Len(p) : s[i + 1] = After(p, d, i, s[i])
  <2>1. 1 \in 1..(Len(p) + 1)
    BY <1>1
  <2>2. ASSUME NEW i \in 1..Len(p) PROVE s[i + 1] = After(p, d, i, s[i])
    <3> DEFINE j == i + 1
    <3>1. j \in 1..(Len(p) + 1) /\ j # 1 /\ j - 1 = i
      BY <1>1
    <3> HIDE DEF j
    <3>2. s[j] = After(p, d, i, s[i])
      BY <1>7, <3>1
    <3> QED
      BY <3>2 DEF j
  <2> QED
    BY <1>7, <2>1, <2>2
<1> DEFINE Wrong == {n \in 1..(Len(p) + 1) : ~ (s[n] \in Nat)}
<1>9. ASSUME Wrong # {} PROVE FALSE
  <2>1. PICK n \in Wrong : \A m \in Wrong : n <= m
    <3>1. Wrong \subseteq Nat
      BY <1>1
    <3> HIDE DEF Wrong
    <3> QED
      BY <1>9, <3>1, LeastNat
  <2>2. n # 1
    BY <1>8, <2>1
  <2>3. n - 1 \in 1..Len(p) /\ n - 1 \in 1..(Len(p) + 1) /\ n - 1 \notin Wrong /\ n - 1 + 1 = n
    BY <1>1, <2>1, <2>2
  <2>4. s[n - 1] \in Nat
    BY <2>3
  <2>5. s[n] = After(p, d, n - 1, s[n - 1])
    BY <1>8, <2>3
  <2>6. s[n] \in Nat
    BY <2>3, <2>4, <2>5, AfterNat
  <2> QED
    BY <2>1, <2>6
<1>10. s \in [1..(Len(p) + 1) -> Nat]
  BY <1>7, <1>9
<1> QED
  BY <1>6, <1>8, <1>10 DEF Counting

\* Start never falls from a step to a later one.
LEMMA StartRises ==
  ASSUME NEW p \in Plan, NEW d \in [1..Len(p) -> Seq(Nat)],
         NEW i \in 1..(Len(p) + 1), NEW j \in i..(Len(p) + 1)
  PROVE  StartOf(p, d)[i] <= StartOf(p, d)[j]
<1> DEFINE b == StartOf(p, d)
<1>1. Len(p) \in Nat
  BY PlanFacts
<1>2. Counting(b, p, d, Len(p))
  BY StartCounts
<1> HIDE DEF b
<1>3. b \in [1..(Len(p) + 1) -> Nat]
  BY <1>2 DEF Counting
<1>4. ASSUME NEW n \in 1..Len(p) PROVE b[n] <= b[n + 1]
  <2>1. b[n] \in Nat /\ b[n + 1] = After(p, d, n, b[n])
    BY <1>1, <1>2, <1>3 DEF Counting
  <2> QED
    BY <2>1, AfterNat
<1>5. b[i] <= b[j]
  BY <1>1, <1>3, <1>4, NeverFalls
<1> QED
  BY <1>5 DEF b

\* Where a step starts depends on the steps before it only.
LEMMA StartLooksBack ==
  ASSUME NEW p \in Plan, NEW d \in [1..Len(p) -> Seq(Nat)], NEW e \in [1..Len(p) -> Seq(Nat)],
         NEW j \in 1..(Len(p) + 1), \A i \in 1..(j - 1) : d[i] = e[i]
  PROVE  \A i \in 1..j : StartOf(p, d)[i] = StartOf(p, e)[i]
<1> DEFINE a == StartOf(p, d)
           b == StartOf(p, e)
<1>1. Len(p) \in Nat
  BY PlanFacts
<1>2. Counting(a, p, d, Len(p)) /\ Counting(b, p, e, Len(p))
  BY StartCounts
<1> HIDE DEF a, b
<1> DEFINE Wrong == {n \in 1..j : a[n] # b[n]}
<1>3. ASSUME Wrong # {} PROVE FALSE
  <2>1. PICK n \in Wrong : \A m \in Wrong : n <= m
    <3>1. Wrong \subseteq Nat
      BY <1>1
    <3> HIDE DEF Wrong
    <3> QED
      BY <1>3, <3>1, LeastNat
  <2>2. n # 1
    BY <1>2, <2>1 DEF Counting
  <2>3. n - 1 \in 1..Len(p) /\ n - 1 \in 1..(j - 1) /\ n - 1 \in 1..j /\ n - 1 \notin Wrong /\ n - 1 + 1 = n
    BY <1>1, <2>1, <2>2
  <2>4. a[n - 1] = b[n - 1] /\ d[n - 1] = e[n - 1]
    BY <2>3
  <2>5. a[n] = After(p, d, n - 1, a[n - 1]) /\ b[n] = After(p, e, n - 1, b[n - 1])
    BY <1>2, <2>3 DEF Counting
  <2>6. After(p, d, n - 1, a[n - 1]) = After(p, e, n - 1, b[n - 1])
    BY <2>4 DEF After
  <2> QED
    BY <2>1, <2>5, <2>6
<1> QED
  BY <1>3 DEF a, b

\* The dynamic children have the flat indices that follow those of the steps before.
Placed(p, d) ==
  \A i \in 1..Len(p) : p[i].kind = "dyn" =>
    \A k \in 1..Len(d[i]) : d[i][k] = StartOf(p, d)[i] + k - 1

\* Then Start counts the children of each step.
LEMMA StartCountsChildren ==
  ASSUME NEW p \in Plan, NEW d \in [1..Len(p) -> Seq(Nat)], NEW i \in 1..Len(p),
         p[i].kind = "dyn" => \A k \in 1..Len(d[i]) : d[i][k] = StartOf(p, d)[i] + k - 1
  PROVE  StartOf(p, d)[i + 1] = StartOf(p, d)[i] + Many(p, d, i) /\ Many(p, d, i) \in Nat
<1> DEFINE b == StartOf(p, d)
<1>1. Len(p) \in Nat /\ p[i].kind \in Kinds /\ Len(p[i].tasks) \in Nat /\ (p[i].kind # "par" => Len(p[i].tasks) = 1)
  BY PlanFacts
<1>2. Counting(b, p, d, Len(p))
  BY StartCounts
<1>3. p[i].kind = "dyn" => \A k \in 1..Len(d[i]) : d[i][k] = b[i] + k - 1
  OBVIOUS
<1> HIDE DEF b
<1>4. b[i] \in Nat /\ b[i + 1] = After(p, d, i, b[i]) /\ Len(d[i]) \in Nat /\ d[i] \in Seq(Nat)
  BY <1>1, <1>2 DEF Counting
<1>5. CASE p[i].kind = "seq"
  BY <1>1, <1>4, <1>5 DEF After, Many, b
<1>6. CASE p[i].kind = "par"
  BY <1>1, <1>4, <1>6 DEF After, Many, b
<1>7. CASE p[i].kind = "dyn"
  <2>1. CASE d[i] = <<>>
    BY <1>4, <1>7, <2>1 DEF After, Many, b
  <2>2. CASE d[i] # <<>>
    <3> DEFINE n == Len(d[i])
               v == b[i]
    <3>1. n \in 1..n /\ n \in Nat
      BY <1>4, <2>2
    <3>2. Last(d[i]) + 1 = v + n
      <4>1. d[i][n] = v + n - 1
        BY <1>3, <1>7, <3>1
      <4> QED
        BY <1>4, <3>1, <4>1 DEF Last
    <3>3. After(p, d, i, v) = Max({v, v + n})
      BY <1>7, <2>2, <3>2 DEF After
    <3>4. Many(p, d, i) = n /\ v \in Nat
      BY <1>4, <1>7 DEF Many
    <3> HIDE DEF n, v
    <3>5. Max({v, v + n}) = v + n
      <4>1. v + n \in Nat /\ n >= 1
        BY <3>1, <3>4
      <4>2. Max({v, v + n}) \in {v, v + n} /\ v + n <= Max({v, v + n})
        BY <3>4, <4>1, MaxOfTwo
      <4> QED
        BY <3>1, <3>4, <4>1, <4>2
    <3>6. b[i + 1] = v + n
      BY <1>4, <3>3, <3>5 DEF v
    <3> QED
      BY <3>1, <3>4, <3>6 DEF b, v
  <2> QED
    BY <2>1, <2>2
<1> QED
  BY <1>1, <1>5, <1>6, <1>7 DEF Kinds

-----------------------------------------------------------------------------
(* The inductive invariant.                                                *)

ChildState == Settled \cup {"waiting", "running", "stopping", "checking", "late"}
ChildResult == [who : Nat \X Nat, state : Settled]

Formed ==
  /\ plan \in Plan /\ way \in Ways
  /\ phase \in {"validate", "dialog", "begin", "tasks", "accept", "answered"}
  /\ at \in 1..(Len(plan) + 1) /\ index \in Nat /\ aborted \in BOOLEAN
  /\ child \in Seq(ChildState) /\ results \in Seq(ChildResult)
  /\ dynamic \in [1..Len(plan) -> Seq(Nat)]
  /\ group \in [1..Len(plan) -> {"none", "completed", "failed"}]
  /\ dir \in {"none", "there"} /\ begun \in {0, 1}

\* The answers that come after the children of the current step have ended.
ByChildren == {"paused", "detached", "failed"}

\* The steps whose results are there.
Done == IF phase = "accept" \/ answer.kind \in ByChildren THEN at ELSE at - 1

\* How far the chain is.
Along ==
  /\ phase # "answered" => answer = NoAnswer
  /\ answer.kind \in ByChildren =>
       at <= Len(plan) /\ answer.step = at /\ answer.flat \in 0..(Len(results) - 1)
  /\ answer.kind = "completed" => at = Len(plan) + 1 /\ answer.flat = Nil
  /\ phase \in {"validate", "dialog"} => at = 1
  /\ phase \in {"dialog", "begin", "tasks", "accept"} => Bound(plan)
  /\ phase \in {"tasks", "accept"} =>
       at <= Len(plan) /\ Len(child) = Many(plan, dynamic, at)
  /\ phase = "tasks" /\ plan[at].kind = "dyn" => Len(child) > 0
  /\ phase = "accept" =>
       /\ plan[at].kind = "dyn" /\ group[at] = "completed"
       /\ plan[at].as \in DOMAIN outputs

\* The results of the steps that are done stand where Start counts them.
Counted ==
  /\ index = Len(results) /\ index = StartOf(plan, dynamic)[Done + 1]
  /\ \A i \in 1..Done : \A k \in 1..Many(plan, dynamic, i) :
       /\ StartOf(plan, dynamic)[i] + k \in 1..Len(results)
       /\ results[StartOf(plan, dynamic)[i] + k].who = <<i, k>>

\* The children of dynamic groups are known once these began.
Known ==
  /\ Placed(plan, dynamic)
  /\ \A i \in 1..Len(plan) :
       i > at \/ (i = at /\ phase \in {"validate", "dialog", "begin"}) => dynamic[i] = <<>>

\* Only the step that stops a chain has children that did not succeed, and only children
\* of a group that failed are skipped.
Good ==
  /\ phase # "answered" \/ answer.kind = "completed" =>
       \A r \in 1..Len(results) : results[r].state = "ok"
  /\ \A r \in 1..Len(results) : results[r].state = "paused" =>
       answer.kind = "paused" /\ answer.step = results[r].who[1]
  /\ phase = "tasks" =>
       /\ aborted => \E k \in 1..Len(child) : child[k] \in {"failed", "detached"}
       /\ \A k \in 1..Len(child) : child[k] = "skipped" => aborted

\* What the steps before have left.
Left ==
  /\ Nil \notin DOMAIN outputs /\ Before(plan, at) \subseteq DOMAIN outputs
  /\ \A n \in DOMAIN outputs : outputs[n].value \in Value \cup {Nil}
  /\ \A i \in 1..(at - 1) : plan[i].kind = "dyn" => group[i] = "completed"
  /\ phase = "begin" /\ at > 1 =>
       previous = [k \in 1..Many(plan, dynamic, at - 1) |-> <<at - 1, k>>]

Trees ==
  /\ phase # "tasks" => trees = {}
  /\ phase = "tasks" => trees \subseteq {at} /\ (plan[at].kind # "par" => trees = {})

ChainInv == Formed /\ Along /\ Counted /\ Known /\ Good /\ Left /\ Trees

\* The texts of the children: only a chain of single steps was edited, only those of a
\* dynamic group are made of items, and only such a text stops a chain for its names.
Worded ==
  /\ \A i \in 1..Len(plan) : plan[i].kind # "dyn" =>
       DOMAIN texts[i] = DOMAIN plan[i].tasks /\ (~Singles => texts[i] = plan[i].tasks)
  /\ DOMAIN texts = 1..Len(plan) /\ (phase = "dialog" => Singles)
  /\ phase = "tasks" => DOMAIN Tasks = DOMAIN child
  /\ answer.kind = "threw" =>
       /\ at <= Len(plan) /\ Bound(plan)
       /\ Singles \/ Step.kind = "dyn"
       /\ \E k \in DOMAIN Tasks : Missing(k) # {}

-----------------------------------------------------------------------------
(* What the invariant says of a state.                                     *)

LEMMA PlanNow ==
  ASSUME ChainInv
  PROVE  /\ plan \in Plan /\ Len(plan) \in Nat /\ Steps = 1..Len(plan) /\ DOMAIN plan = 1..Len(plan)
         /\ \A i \in 1..Len(plan) :
              /\ plan[i].kind \in Kinds /\ Len(plan[i].tasks) \in Nat
              /\ DOMAIN plan[i].tasks = 1..Len(plan[i].tasks)
              /\ plan[i].kind # "par" => Len(plan[i].tasks) = 1
<1>1. plan \in Plan
  BY DEF ChainInv, Formed
<1> QED
  BY <1>1, PlanFacts DEF Steps

LEMMA StartNow ==
  ASSUME ChainInv
  PROVE  /\ dynamic \in [1..Len(plan) -> Seq(Nat)]
         /\ StartOf(plan, dynamic) \in [1..(Len(plan) + 1) -> Nat] /\ StartOf(plan, dynamic)[1] = 0
         /\ \A i \in 1..Len(plan) :
              /\ Many(plan, dynamic, i) \in Nat
              /\ StartOf(plan, dynamic)[i + 1] = StartOf(plan, dynamic)[i] + Many(plan, dynamic, i)
<1>1. plan \in Plan /\ dynamic \in [1..Len(plan) -> Seq(Nat)] /\ Placed(plan, dynamic)
  BY DEF ChainInv, Formed, Known
<1>2. Counting(StartOf(plan, dynamic), plan, dynamic, Len(plan))
  BY <1>1, StartCounts
<1>3. ASSUME NEW i \in 1..Len(plan)
      PROVE  /\ Many(plan, dynamic, i) \in Nat
             /\ StartOf(plan, dynamic)[i + 1] = StartOf(plan, dynamic)[i] + Many(plan, dynamic, i)
  BY <1>1, StartCountsChildren DEF Placed
<1> QED
  BY <1>1, <1>2, <1>3 DEF Counting

LEMMA DoneNow ==
  ASSUME ChainInv
  PROVE  Done \in 0..Len(plan) /\ at \in 1..(Len(plan) + 1) /\ Done \in {at - 1, at}
<1> QED
  BY PlanNow DEF ChainInv, Formed, Along, Done

LEMMA NodesNow ==
  ASSUME ChainInv, NEW i \in 1..Len(plan)
  PROVE  Nodes(i) = 1..Many(plan, dynamic, i)
<1>1. DOMAIN dynamic[i] = 1..Len(dynamic[i]) /\ DOMAIN plan[i].tasks = 1..Len(plan[i].tasks)
  BY PlanNow, StartNow
<1> QED
  BY <1>1 DEF Nodes, Many

LEMMA ResultNow ==
  ASSUME ChainInv
  PROVE  /\ results \in Seq(ChildResult) /\ Len(results) \in Nat /\ DOMAIN results = 1..Len(results)
         /\ \A r \in 1..Len(results) : results[r].who \in Nat \X Nat /\ results[r].state \in Settled
<1>1. results \in Seq(ChildResult) /\ Len(results) \in Nat /\ DOMAIN results = 1..Len(results)
  BY DEF ChainInv, Formed
<1>2. ASSUME NEW r \in 1..Len(results) PROVE results[r].who \in Nat \X Nat /\ results[r].state \in Settled
  <2>1. results[r] \in ChildResult
    BY <1>1
  <2> QED
    BY <2>1 DEF ChildResult
<1> QED
  BY <1>1, <1>2

\* The children of the first n steps, and where these start.
Runs(n)   == [i \in 1..n |-> [k \in 1..Many(plan, dynamic, i) |-> <<i, k>>]]
Starts(n) == [i \in 1..(n + 1) |-> StartOf(plan, dynamic)[i]]

LEMMA RunsCounted ==
  ASSUME ChainInv, NEW n \in 0..Len(plan)
  PROVE  n \in Nat /\ Runs(n) \in [1..n -> Seq(Nat \X Nat)] /\ Cumulates(Starts(n), Runs(n), n)
<1>1. Len(plan) \in Nat /\ n \in Nat /\ \A i \in 1..n : i \in 1..Len(plan) /\ i \in Nat
  BY PlanNow
<1>2. ASSUME NEW i \in 1..n
      PROVE  Runs(n)[i] \in Seq(Nat \X Nat) /\ Len(Runs(n)[i]) = Many(plan, dynamic, i)
  <2> DEFINE m == Many(plan, dynamic, i)
             s == [k \in 1..m |-> <<i, k>>]
  <2>1. m \in Nat
    BY <1>1, StartNow
  <2> HIDE DEF m
  <2>2. s \in Seq(Nat \X Nat) /\ Len(s) = m
    BY <1>1, <2>1
  <2>3. Runs(n)[i] = s
    BY DEF Runs, m
  <2> QED
    BY <2>2, <2>3 DEF m
<1>3. Runs(n) \in [1..n -> Seq(Nat \X Nat)]
  BY <1>2 DEF Runs
<1>4. ASSUME NEW i \in 1..n PROVE Starts(n)[i + 1] = Starts(n)[i] + Len(Runs(n)[i])
  <2>1. i \in 1..(n + 1) /\ i + 1 \in 1..(n + 1)
    BY <1>1
  <2>2. StartOf(plan, dynamic)[i + 1] = StartOf(plan, dynamic)[i] + Many(plan, dynamic, i)
    BY <1>1, StartNow
  <2> QED
    BY <1>2, <2>1, <2>2 DEF Starts
<1>5. Starts(n) \in [1..(n + 1) -> Nat] /\ Starts(n)[1] = 0
  <2>1. 1 \in 1..(n + 1) /\ \A i \in 1..(n + 1) : i \in 1..(Len(plan) + 1)
    BY <1>1
  <2> QED
    BY <2>1, StartNow DEF Starts
<1> QED
  BY <1>1, <1>3, <1>4, <1>5 DEF Cumulates

\* The results are those of the children of the steps that are done, in order.
LEMMA ResultsLaid ==
  ASSUME ChainInv
  PROVE  Laid([r \in 1..Len(results) |-> results[r].who], Runs(Done), Done, Starts(Done), Nat \X Nat)
<1> DEFINE t == [r \in 1..Len(results) |-> results[r].who]
           n == Done
<1>1. n \in 0..Len(plan) /\ n \in Nat /\ Len(plan) \in Nat
  BY DoneNow, PlanNow
<1>2. results \in Seq(ChildResult) /\ Len(results) \in Nat
  BY DEF ChainInv, Formed
<1>3. t \in Seq(Nat \X Nat) /\ Len(t) = Len(results)
  <2>1. \A r \in 1..Len(results) : results[r].who \in Nat \X Nat
    BY ResultNow
  <2> QED
    BY <1>2, <2>1
<1>4. Runs(n) \in [1..n -> Seq(Nat \X Nat)] /\ Cumulates(Starts(n), Runs(n), n)
  BY <1>1, RunsCounted
<1>5. Laid(FlattenSeq(Runs(n)), Runs(n), n, Starts(n), Nat \X Nat)
  BY <1>1, <1>4, FlattenPlaces
<1>6. Len(t) = Starts(n)[n + 1]
  <2>1. Len(results) = StartOf(plan, dynamic)[n + 1] /\ n + 1 \in 1..(n + 1)
    BY <1>1 DEF ChainInv, Counted
  <2> QED
    BY <1>3, <2>1 DEF Starts
<1>7. ASSUME NEW i \in 1..n, NEW k \in 1..Len(Runs(n)[i])
      PROVE  Starts(n)[i] + k \in 1..Len(t) /\ t[Starts(n)[i] + k] = Runs(n)[i][k]
  <2>1. i \in 1..Len(plan) /\ i \in 1..(n + 1)
    BY <1>1
  <2>2. Many(plan, dynamic, i) \in Nat
    BY <2>1, StartNow
  <2>3. Runs(n)[i] = [j \in 1..Many(plan, dynamic, i) |-> <<i, j>>] /\ Len(Runs(n)[i]) = Many(plan, dynamic, i)
    BY <2>2 DEF Runs
  <2>4. Runs(n)[i][k] = <<i, k>> /\ k \in 1..Many(plan, dynamic, i) /\ Starts(n)[i] = StartOf(plan, dynamic)[i]
    BY <2>1, <2>3 DEF Starts
  <2>5. /\ StartOf(plan, dynamic)[i] + k \in 1..Len(results)
        /\ results[StartOf(plan, dynamic)[i] + k].who = <<i, k>>
    BY <2>4 DEF ChainInv, Counted
  <2> QED
    BY <1>3, <2>4, <2>5
<1>8. \A m \in 1..Len(t) : \E i \in 1..n : \E k \in 1..Len(Runs(n)[i]) : m = Starts(n)[i] + k
  <2>1. Len(FlattenSeq(Runs(n))) = Len(t)
    BY <1>5, <1>6 DEF Laid
  <2> HIDE DEF t, n
  <2> QED
    BY <1>5, <2>1 DEF Laid
<1> HIDE DEF t, n
<1>9. Laid(t, Runs(n), n, Starts(n), Nat \X Nat)
  BY <1>3, <1>6, <1>7, <1>8 DEF Laid
<1> QED
  BY <1>9 DEF t, n

\* Each result is that of a child of a step that is done, at its place.
LEMMA ResultOf ==
  ASSUME ChainInv, NEW r \in 1..Len(results)
  PROVE  \E i \in 1..Done : \E k \in 1..Many(plan, dynamic, i) :
           r = StartOf(plan, dynamic)[i] + k /\ results[r].who = <<i, k>>
<1> DEFINE t == [m \in 1..Len(results) |-> results[m].who]
           n == Done
<1>1. n \in 0..Len(plan) /\ n \in Nat /\ Len(plan) \in Nat /\ Len(results) \in Nat
  BY DoneNow, PlanNow DEF ChainInv, Formed
<1>2. Laid(t, Runs(n), n, Starts(n), Nat \X Nat)
  BY ResultsLaid
<1>3. Len(t) = Len(results)
  BY <1>1
<1> HIDE DEF t, n
<1>4. PICK i \in 1..n : \E k \in 1..Len(Runs(n)[i]) : r = Starts(n)[i] + k
  BY <1>2, <1>3 DEF Laid
<1>5. PICK k \in 1..Len(Runs(n)[i]) : r = Starts(n)[i] + k
  BY <1>4
<1>6. i \in 1..Len(plan) /\ i \in 1..(n + 1)
  BY <1>1
<1>7. Many(plan, dynamic, i) \in Nat
  BY <1>6, StartNow
<1>8. Len(Runs(n)[i]) = Many(plan, dynamic, i) /\ Starts(n)[i] = StartOf(plan, dynamic)[i]
  BY <1>6, <1>7 DEF Runs, Starts
<1>9. k \in 1..Many(plan, dynamic, i) /\ r = StartOf(plan, dynamic)[i] + k
  BY <1>5, <1>8
<1>10. results[r].who = <<i, k>>
  BY <1>9 DEF ChainInv, Counted, n
<1> QED
  BY <1>9, <1>10 DEF n

\* The names in the plan have their outputs.
LEMMA RefsNow ==
  ASSUME ChainInv, Bound(plan), at <= Len(plan)
  PROVE  /\ \A k \in DOMAIN Step.tasks : Step.tasks[k].refs \subseteq DOMAIN outputs
         /\ Step.kind = "dyn" => Step.from \in DOMAIN outputs
<1>1. at \in DOMAIN plan /\ Before(plan, at) \subseteq DOMAIN outputs
  BY DoneNow, PlanNow DEF ChainInv, Left
<1> QED
  BY <1>1 DEF Bound, Step

LEMMA TextsNow == ChainInv /\ Worded => TextsHold
<1> SUFFICES ASSUME ChainInv, Worded PROVE TextsHold
  OBVIOUS
<1>1. begun <= 1
  BY DEF ChainInv, Formed
<1>2. ASSUME phase = "begin", at > 1 PROVE previous = [k \in Nodes(at - 1) |-> <<at - 1, k>>]
  <2>1. at - 1 \in 1..Len(plan)
    BY <1>2, DoneNow, PlanNow
  <2>2. Nodes(at - 1) = 1..Many(plan, dynamic, at - 1)
    BY <2>1, NodesNow
  <2> QED
    BY <1>2, <2>2 DEF ChainInv, Left
<1>3. ASSUME phase \in {"begin", "tasks"} \/ answer.kind = "threw", at <= Len(plan)
      PROVE  /\ \A t \in Range(Step.tasks) : t.refs \subseteq DOMAIN outputs
             /\ Step.kind = "dyn" => Step.from \in DOMAIN outputs
  <2>1. Bound(plan)
    BY <1>3 DEF ChainInv, Along, Worded
  <2> QED
    BY <1>3, <2>1, RefsNow DEF Range
<1>4. answer.kind = "threw" =>
        (Singles \/ Step.kind = "dyn") /\ \E k \in DOMAIN Tasks : Missing(k) # {}
  BY DEF Worded
<1> QED
  BY <1>1, <1>2, <1>3, <1>4 DEF TextsHold

LEMMA EndingNow == ChainInv /\ Worded => Ending
<1> SUFFICES ASSUME ChainInv, Worded PROVE Ending
  OBVIOUS
<1>1. ChainType
  <2>1. Range(child) \subseteq ChildState /\ Range(group) \subseteq {"none", "completed", "failed"}
    BY DEF ChainInv, Formed, Range
  <2>2. \A r \in Range(results) : r.state \in Settled
    BY ResultNow DEF Range
  <2>3. trees \subseteq Steps
    BY DoneNow, PlanNow DEF ChainInv, Trees, Along
  <2>4. Nil \notin DOMAIN outputs /\ DOMAIN texts = Steps
    BY PlanNow DEF ChainInv, Left, Worded
  <2> QED
    BY <2>1, <2>2, <2>3, <2>4 DEF ChainType, ChildState, ChainInv, Formed
<1>2. CompletedIsTrue
  <2>1. ASSUME answer.kind = "completed"
        PROVE  [r \in DOMAIN results |-> results[r].who] =
                 FlattenSeq([i \in Steps |-> [k \in Nodes(i) |-> <<i, k>>]])
    <3> DEFINE n == Len(plan)
    <3>1. n \in Nat /\ n \in 0..n /\ at = n + 1 /\ phase = "answered" /\ Steps = 1..n
      BY <2>1, PlanNow DEF ChainInv, Along, NoAnswer
    <3>2. Done = n
      BY <2>1, <3>1 DEF Done, ByChildren
    <3>3. Runs(n) \in [1..n -> Seq(Nat \X Nat)] /\ Cumulates(Starts(n), Runs(n), n)
      BY <3>1, RunsCounted
    <3>4. Laid(FlattenSeq(Runs(n)), Runs(n), n, Starts(n), Nat \X Nat)
      BY <3>1, <3>3, FlattenPlaces
    <3>5. Laid([r \in 1..Len(results) |-> results[r].who], Runs(n), n, Starts(n), Nat \X Nat)
      BY <3>2, ResultsLaid
    <3>6. [r \in 1..Len(results) |-> results[r].who] = FlattenSeq(Runs(n))
      BY <3>1, <3>4, <3>5, LaidOnce
    <3>7. [i \in Steps |-> [k \in Nodes(i) |-> <<i, k>>]] = Runs(n)
      BY <3>1, NodesNow DEF Runs
    <3>8. DOMAIN results = 1..Len(results)
      BY DEF ChainInv, Formed
    <3> QED
      BY <3>6, <3>7, <3>8
  <2>2. ASSUME answer.kind = "completed" PROVE \A r \in Range(results) : r.state = "ok"
    <3>1. DOMAIN results = 1..Len(results) /\ \A r \in 1..Len(results) : results[r].state = "ok"
      BY <2>2 DEF ChainInv, Formed, Good
    <3> QED
      BY <3>1 DEF Range
  <2>3. ASSUME answer.kind = "completed", NEW i \in Steps
        PROVE  Names(plan[i]) \subseteq DOMAIN outputs /\ (plan[i].kind = "dyn" => group[i] = "completed")
    <3>1. at = Len(plan) + 1 /\ i \in 1..(at - 1) /\ Before(plan, at) \subseteq DOMAIN outputs
      BY <2>3, PlanNow DEF ChainInv, Along, Left
    <3>2. Names(plan[i]) \subseteq Before(plan, at)
      BY <3>1 DEF Before
    <3> QED
      BY <3>1, <3>2 DEF ChainInv, Left
  <2>4. phase = "answered" => trees = {}
    BY DEF ChainInv, Trees
  <2> QED
    BY <2>1, <2>2, <2>3, <2>4 DEF CompletedIsTrue
<1>3. InterruptPauses
  <2>1. DOMAIN results = 1..Len(results)
    BY DEF ChainInv, Formed
  <2> QED
    BY <2>1 DEF ChainInv, Good, InterruptPauses, Range
<1> QED
  BY <1>1, <1>2, <1>3 DEF Ending

LEMMA GraphNow == ChainInv => GraphAgrees
<1> SUFFICES ASSUME ChainInv, answer.kind \in {"completed", "paused", "detached", "failed"},
                    NEW i \in Steps, NEW k \in Nodes(i)
             PROVE  LET of == {r \in Range(results) : r.who = <<i, k>>}
                    IN NodeStatus(i, k) =
                         IF of = {} THEN "pending"
                         ELSE IF \E r \in of : r.state = "ok" THEN "completed"
                         ELSE IF \E r \in of : r.state = "skipped" THEN "failed"
                         ELSE (CHOOSE r \in of : TRUE).state
  BY DEF GraphAgrees
<1> DEFINE b == StartOf(plan, dynamic)
           f == b[i] + k
           of == {r \in Range(results) : r.who = <<i, k>>}
<1>1. /\ i \in 1..Len(plan) /\ k \in 1..Many(plan, dynamic, i) /\ Many(plan, dynamic, i) \in Nat
      /\ Len(plan) \in Nat /\ b[i] \in Nat /\ f \in Nat /\ Len(results) \in Nat
  <2>1. i \in 1..Len(plan) /\ Len(plan) \in Nat
    BY PlanNow
  <2>2. k \in 1..Many(plan, dynamic, i)
    BY <2>1, NodesNow
  <2>3. Many(plan, dynamic, i) \in Nat
    BY <2>1, StartNow
  <2>4. b[i] \in Nat
    BY <2>1, StartNow
  <2> QED
    BY <2>1, <2>2, <2>3, <2>4, ResultNow
<1>2. Flat(i, k) + 1 = f
  <2>1. CASE plan[i].kind = "dyn"
    <3>1. k \in 1..Len(dynamic[i])
      BY <1>1, <2>1 DEF Many
    <3>2. dynamic[i][k] = b[i] + k - 1
      BY <1>1, <2>1, <3>1 DEF ChainInv, Known, Placed
    <3> QED
      BY <1>1, <2>1, <3>2 DEF Flat
  <2>2. CASE plan[i].kind # "dyn"
    <3>1. Flat(i, k) = b[i] + k - 1
      BY <2>2, StartIsStartOf DEF Flat
    <3> QED
      BY <1>1, <3>1
  <2> QED
    BY <2>1, <2>2
<1>3. NodeStatus(i, k) =
        IF f \in 1..Len(results)
        THEN IF results[f].state = "ok" THEN "completed"
             ELSE IF results[f].state = "skipped" THEN "failed" ELSE results[f].state
        ELSE IF answer.flat = f - 1 THEN "running" ELSE "pending"
  BY <1>2, ResultNow DEF NodeStatus
<1>4. \A r \in 1..Len(results) : results[r].who = <<i, k>> => r = f /\ i \in 1..Done
  <2> SUFFICES ASSUME NEW r \in 1..Len(results), results[r].who = <<i, k>> PROVE r = f /\ i \in 1..Done
    OBVIOUS
  <2>1. PICK j \in 1..Done : \E l \in 1..Many(plan, dynamic, j) : r = b[j] + l /\ results[r].who = <<j, l>>
    BY ResultOf
  <2>2. PICK l \in 1..Many(plan, dynamic, j) : r = b[j] + l /\ results[r].who = <<j, l>>
    BY <2>1
  <2> QED
    BY <2>2
<1>5. CASE i \in 1..Done
  <2>1. f \in 1..Len(results) /\ results[f].who = <<i, k>>
    BY <1>1, <1>5 DEF ChainInv, Counted
  <2> HIDE DEF f
  <2>2. of = {results[f]}
    <3>1. DOMAIN results = 1..Len(results)
      BY ResultNow
    <3>2. results[f] \in of
      BY <2>1, <3>1 DEF Range
    <3>3. \A x \in of : x = results[f]
      BY <1>4, <3>1 DEF Range
    <3> HIDE DEF of
    <3> QED
      BY <3>2, <3>3
  <2>3. (CHOOSE r \in of : TRUE) = results[f]
    BY <2>2
  <2> HIDE DEF of
  <2> QED
    BY <1>3, <2>1, <2>2, <2>3 DEF of
<1>6. CASE i \notin 1..Done
  <2>1. Done + 1 \in 1..(Len(plan) + 1) /\ i \in (Done + 1)..(Len(plan) + 1)
    BY <1>1, <1>6, DoneNow
  <2>2. b[Done + 1] <= b[i]
    <3>1. plan \in Plan /\ dynamic \in [1..Len(plan) -> Seq(Nat)]
      BY DEF ChainInv, Formed
    <3> QED
      BY <2>1, <3>1, StartRises
  <2>3. b[Done + 1] = Len(results)
    BY DEF ChainInv, Counted
  <2>4. f \notin 1..Len(results) /\ f - 1 >= Len(results) /\ f - 1 \in Int
    BY <1>1, <2>2, <2>3
  <2>5. answer.flat # f - 1
    <3>1. CASE answer.kind = "completed"
      BY <2>4, <3>1, ChainAssumption DEF ChainInv, Along
    <3>2. CASE answer.kind \in ByChildren
      <4>1. answer.flat \in 0..(Len(results) - 1)
        BY <3>2 DEF ChainInv, Along
      <4> QED
        BY <1>1, <2>4, <4>1
    <3> QED
      BY <3>1, <3>2 DEF ByChildren
  <2>6. of = {}
    BY <1>4, <1>6, ResultNow DEF Range
  <2> QED
    BY <1>3, <2>4, <2>5, <2>6
<1> QED
  BY <1>5, <1>6

\* In a plan without dynamic groups the session files are those of the children in order.
LEMMA SessionsInOrder ==
  ASSUME NEW p \in Plan, \A i \in DOMAIN p : p[i].kind # "dyn"
  PROVE  \A n \in DOMAIN Static(p) : SessionFiles(p)[n] = n
<1> DEFINE N == Len(p)
           d == [i \in 1..N |-> <<>>]
           b == StartOf(p, d)
           s == [i \in 1..N |-> [k \in 1..Len(p[i].tasks) |-> <<i, k>>]]
           t == [i \in 1..N |-> [k \in 1..Len(p[i].tasks) |-> b[i] + k]]
           S == Static(p)
<1>1. /\ N \in Nat /\ DOMAIN p = 1..N
      /\ \A i \in 1..N : p[i].kind # "dyn" /\ Len(p[i].tasks) \in Nat
                         /\ DOMAIN p[i].tasks = 1..Len(p[i].tasks)
  BY PlanFacts
<1>2. d \in [1..Len(p) -> Seq(Nat)]
  OBVIOUS
<1> HIDE DEF d
<1>3. Counting(b, p, d, N)
  BY <1>2, StartCounts
<1>4. b \in [1..(N + 1) -> Nat] /\ b[1] = 0
  BY <1>3 DEF Counting
<1>5. ASSUME NEW i \in 1..N PROVE b[i + 1] = b[i] + Len(p[i].tasks)
  <2>1. b[i + 1] = b[i] + Many(p, d, i)
    BY <1>1, <1>2, StartCountsChildren
  <2> QED
    BY <1>1, <2>1 DEF Many
<1> HIDE DEF b
<1>6. ASSUME NEW i \in 1..N
      PROVE  /\ s[i] \in Seq(Nat \X Nat) /\ Len(s[i]) = Len(p[i].tasks)
             /\ t[i] \in Seq(Nat) /\ Len(t[i]) = Len(p[i].tasks)
  <2> DEFINE m == Len(p[i].tasks)
             x == [k \in 1..m |-> <<i, k>>]
             y == [k \in 1..m |-> b[i] + k]
  <2>1. m \in Nat /\ b[i] \in Nat /\ i \in Nat
    BY <1>1, <1>4
  <2>2. s[i] = x /\ t[i] = y
    OBVIOUS
  <2> HIDE DEF m
  <2>3. x \in Seq(Nat \X Nat) /\ Len(x) = m /\ y \in Seq(Nat) /\ Len(y) = m
    BY <2>1
  <2> QED
    BY <2>2, <2>3 DEF m
<1>7. s \in [1..N -> Seq(Nat \X Nat)] /\ t \in [1..N -> Seq(Nat)]
  BY <1>6
<1>8. Cumulates(b, s, N) /\ Cumulates(b, t, N)
  BY <1>4, <1>5, <1>6 DEF Cumulates
<1>9. S = FlattenSeq(s)
  <2>1. [i \in DOMAIN p |-> IF p[i].kind = "dyn" THEN <<>>
                            ELSE [k \in DOMAIN p[i].tasks |-> <<i, k>>]] = s
    BY <1>1
  <2> QED
    BY <2>1 DEF Static
<1>10. Laid(S, s, N, b, Nat \X Nat) /\ Laid(FlattenSeq(t), t, N, b, Nat)
  <2> HIDE DEF s, t
  <2> QED
    BY <1>1, <1>7, <1>8, <1>9, FlattenPlaces
<1>11. S \in Seq(Nat \X Nat) /\ Len(S) \in Nat /\ DOMAIN S = 1..Len(S)
  BY <1>10 DEF Laid
<1> HIDE DEF S
<1>12. \A n \in DOMAIN S : \E i \in 1..N : \E k \in 1..Len(s[i]) : n = b[i] + k
  <2>1. \A n \in 1..Len(S) : \E i \in 1..N : \E k \in 1..Len(s[i]) : n = b[i] + k
    <3> HIDE DEF s, t, N
    <3> QED
      BY <1>10 DEF Laid
  <2> HIDE DEF s, N
  <2> QED
    BY <1>11, <2>1
<1>13. ASSUME NEW i \in 1..N, NEW k \in 1..Len(p[i].tasks)
       PROVE  (CHOOSE n \in DOMAIN S : S[n] = <<i, k>>) = b[i] + k
  <2>1. b[i] + k \in DOMAIN S /\ S[b[i] + k] = <<i, k>>
    <3>1. k \in 1..Len(s[i]) /\ s[i][k] = <<i, k>>
      BY <1>6
    <3> HIDE DEF s
    <3> QED
      BY <1>10, <1>11, <3>1 DEF Laid
  <2>2. ASSUME NEW n \in DOMAIN S, S[n] = <<i, k>> PROVE n = b[i] + k
    <3>1. PICK j \in 1..N : \E l \in 1..Len(s[j]) : n = b[j] + l
      BY <1>12
    <3>2. PICK l \in 1..Len(s[j]) : n = b[j] + l
      BY <3>1
    <3>3. s[j][l] = <<j, l>>
      BY <1>6, <3>2
    <3>4. S[n] = s[j][l]
      BY <1>10, <3>2 DEF Laid
    <3> QED
      BY <2>2, <3>2, <3>3, <3>4
  <2> QED
    BY <2>1, <2>2
<1>14. SessionFiles(p) = FlattenSeq(t)
  <2>1. [i \in DOMAIN p |->
           IF p[i].kind = "dyn" THEN <<Nil>>
           ELSE [k \in DOMAIN p[i].tasks |-> CHOOSE n \in DOMAIN S : S[n] = <<i, k>>]] = t
    BY <1>1, <1>13
  <2> QED
    BY <2>1 DEF SessionFiles, S
<1>15. ASSUME NEW n \in DOMAIN S PROVE SessionFiles(p)[n] = n
  <2>1. PICK i \in 1..N : \E k \in 1..Len(s[i]) : n = b[i] + k
    BY <1>12
  <2>2. PICK k \in 1..Len(s[i]) : n = b[i] + k
    BY <2>1
  <2>3. k \in 1..Len(t[i]) /\ t[i][k] = b[i] + k
    BY <1>6, <2>2
  <2>4. FlattenSeq(t)[b[i] + k] = t[i][k]
    <3> HIDE DEF t
    <3> QED
      BY <1>10, <2>3 DEF Laid
  <2> QED
    BY <1>14, <2>2, <2>3, <2>4
<1> QED
  BY <1>15 DEF S

LEMMA NumbersNow == ChainInv => NumbersAgree
<1> SUFFICES ASSUME ChainInv PROVE NumbersAgree
  OBVIOUS
<1>1. OwnSession
  BY PlanNow, SessionsInOrder DEF OwnSession, GivenSession
<1> QED
  BY <1>1, GraphNow DEF NumbersAgree

-----------------------------------------------------------------------------
(* The steps keep the invariant.                                           *)

LEMMA ChainInitInv == ChainInit => ChainInv
<1> SUFFICES ASSUME ChainInit PROVE ChainInv
  OBVIOUS
<1>1. plan \in Plan /\ Len(plan) \in Nat /\ Steps = 1..Len(plan)
  BY PlanFacts DEF ChainInit, Steps
<1>2. dynamic = [i \in 1..Len(plan) |-> <<>>] /\ group = [i \in 1..Len(plan) |-> "none"]
  BY <1>1 DEF ChainInit
<1>3. Formed
  <2>1. at \in 1..(Len(plan) + 1) /\ child \in Seq(ChildState) /\ results \in Seq(ChildResult)
    BY <1>1 DEF ChainInit
  <2>2. dynamic \in [1..Len(plan) -> Seq(Nat)] /\ group \in [1..Len(plan) -> {"none", "completed", "failed"}]
    BY <1>2
  <2> QED
    BY <1>1, <2>1, <2>2 DEF ChainInit, Formed, Ways
<1>4. Along
  BY DEF ChainInit, Along, NoAnswer, ByChildren
<1>5. Counted
  <2>1. Done = 0
    BY DEF ChainInit, Done, NoAnswer, ByChildren
  <2>2. StartOf(plan, dynamic)[1] = 0
    BY <1>1, <1>3, StartCounts DEF Formed, Counting
  <2> QED
    BY <2>1, <2>2 DEF ChainInit, Counted
<1>6. Known
  BY <1>1, <1>2 DEF Known, Placed
<1>7. Good
  BY DEF ChainInit, Good, NoAnswer
<1>8. Left
  <2>1. Before(plan, 1) = {}
    BY DEF Before
  <2>2. DOMAIN outputs = {}
    BY DEF ChainInit
  <2> QED
    BY <2>1, <2>2 DEF ChainInit, Left, NoAnswer
<1>9. Trees
  BY DEF ChainInit, Trees
<1> QED
  BY <1>3, <1>4, <1>5, <1>6, <1>7, <1>8, <1>9 DEF ChainInv

\* A step that leaves alone which steps are done, their children and their results.
LEMMA StillCounted ==
  ASSUME ChainInv, plan' = plan, dynamic' = dynamic, results' = results, index' = index, Done' = Done
  PROVE  Counted'
BY DEF ChainInv, Counted

LEMMA StillKnown ==
  ASSUME ChainInv, plan' = plan, dynamic' = dynamic, at' = at,
         phase' \in {"validate", "dialog", "begin"} => phase \in {"validate", "dialog", "begin"}
  PROVE  Known'
BY DEF ChainInv, Known

\* A step that leaves alone what the steps before have left.
LEMMA StillLeft ==
  ASSUME ChainInv, plan' = plan, dynamic' = dynamic, at' = at, outputs' = outputs, group' = group,
         previous' = previous, phase' = "begin" => phase = "begin" \/ at = 1
  PROVE  Left'
BY DEF ChainInv, Left

\* Before the first step, and after the last.
LEMMA OutsideInv == ChainInv /\ (Refused \/ Opens \/ DialogEnds \/ LaunchInBackground \/ Completes) => ChainInv'
<1> SUFFICES ASSUME ChainInv, Refused \/ Opens \/ DialogEnds \/ LaunchInBackground \/ Completes PROVE ChainInv'
  OBVIOUS
<1> USE DEF Refused, Opens, DialogEnds, LaunchInBackground, Completes, Stop, dataVars
<1>1. /\ plan' = plan /\ dynamic' = dynamic /\ results' = results /\ index' = index /\ at' = at
      /\ outputs' = outputs /\ group' = group /\ previous' = previous /\ trees' = trees
      /\ child' = child /\ aborted' = aborted /\ begun' = begun
      /\ phase \in {"validate", "dialog", "begin"} /\ phase' \in {"validate", "dialog", "begin", "answered"}
      /\ (phase' = "begin" => at = 1)
  BY DEF ChainInv, Along
<1>2. answer' = answer \/ answer'.kind \in {"refused", "cancelled", "background", "completed"}
  OBVIOUS
<1>3. answer = NoAnswer /\ answer'.kind \notin ByChildren \cup {"threw"}
  BY <1>1, <1>2 DEF ChainInv, Along, NoAnswer, ByChildren
<1>4. Done' = Done
  BY <1>1, <1>3 DEF Done, NoAnswer, ByChildren
<1>5. Formed'
  BY <1>1 DEF ChainInv, Formed, Ways
<1>6. Along'
  BY <1>1, <1>3, DoneNow, PlanNow DEF ChainInv, Along
<1>7. Counted' /\ Known' /\ Left'
  BY <1>1, <1>3, <1>4, StillCounted, StillKnown, StillLeft
<1>8. Good' /\ Trees'
  BY <1>1, <1>3 DEF ChainInv, Good, Trees, NoAnswer
<1> QED
  BY <1>5, <1>6, <1>7, <1>8 DEF ChainInv

\* What a chain that is about to begin a step has.
LEMMA BeginNow ==
  ASSUME ChainInv, phase = "begin", at <= Len(plan)
  PROVE  /\ at \in 1..Len(plan) /\ Done = at - 1 /\ answer = NoAnswer /\ trees = {} /\ Bound(plan)
         /\ index = StartOf(plan, dynamic)[at] /\ dynamic[at] = <<>>
         /\ \A r \in 1..Len(results) : results[r].state = "ok"
<1>1. at \in 1..Len(plan) /\ answer = NoAnswer /\ Done = at - 1 /\ at - 1 + 1 = at
  BY PlanNow DEF ChainInv, Formed, Along, Done, NoAnswer, ByChildren
<1>2. index = StartOf(plan, dynamic)[at]
  BY <1>1 DEF ChainInv, Counted
<1> QED
  BY <1>1, <1>2 DEF ChainInv, Along, Known, Good, Trees

\* The children of a step before they start.
LEMMA WaitingChildren ==
  ASSUME NEW n \in Nat, Children(n)
  PROVE  /\ child' \in Seq(ChildState) /\ Len(child') = n /\ \A k \in 1..n : child'[k] = "waiting"
         /\ aborted' = FALSE /\ phase' = "tasks"
<1>1. child' = [k \in 1..n |-> "waiting"] /\ aborted' = FALSE /\ phase' = "tasks"
  BY DEF Children
<1>2. "waiting" \in ChildState
  BY DEF ChildState
<1> QED
  BY <1>1, <1>2

\* A single step or a static group begins, or is refused.
LEMMA BeginKnownInv == ChainInv /\ (BeginSingle \/ BeginGroup \/ NotExpandable) => ChainInv'
<1> SUFFICES ASSUME ChainInv, BeginSingle \/ BeginGroup \/ NotExpandable PROVE ChainInv'
  OBVIOUS
<1>1. /\ phase = "begin" /\ at <= Len(plan)
      /\ plan' = plan /\ way' = way /\ dynamic' = dynamic /\ results' = results /\ index' = index
      /\ at' = at /\ outputs' = outputs /\ previous' = previous /\ dir' = dir
  BY DEF BeginSingle, BeginGroup, NotExpandable, Begins, dataVars
<1>2. at \in 1..Len(plan) /\ Done = at - 1 /\ answer = NoAnswer /\ trees = {} /\ Bound(plan)
  BY <1>1, BeginNow
<1>3. \/ /\ answer' = answer /\ group' = group /\ plan[at].kind # "dyn" /\ Children(Len(plan[at].tasks))
         /\ trees' \subseteq {at} /\ (plan[at].kind # "par" => trees' = {})
      \/ /\ phase' = "answered" /\ answer'.kind \in {"refused", "threw"} /\ trees' = trees
         /\ child' = child /\ aborted' = aborted
  <2>1. CASE BeginSingle
    <3>1. plan[at].kind = "seq" /\ Len(plan[at].tasks) = 1
      BY <1>2, <2>1, PlanNow DEF BeginSingle, Begins, Step
    <3> QED
      BY <1>2, <2>1, <3>1 DEF BeginSingle, Stop, dataVars
  <2>2. CASE BeginGroup
    BY <1>2, <2>2 DEF BeginGroup, Begins, Step, Stop, dataVars
  <2>3. CASE NotExpandable
    BY <2>3 DEF NotExpandable, Stop
  <2> QED
    BY <2>1, <2>2, <2>3
<1>4. begun' \in {0, 1}
  BY DEF BeginSingle, BeginGroup, NotExpandable, Notes, ChainInv, Formed
<1>5. group' \in [1..Len(plan) -> {"none", "completed", "failed"}] /\ \A i \in 1..(at - 1) : group'[i] = group[i]
  <2>1. group \in [1..Len(plan) -> {"none", "completed", "failed"}]
    BY DEF ChainInv, Formed
  <2>2. group' = group \/ group' = [group EXCEPT ![at] = "failed"]
    BY DEF BeginSingle, BeginGroup, NotExpandable, dataVars
  <2> QED
    BY <1>2, <2>1, <2>2
<1>6. CASE /\ answer' = answer /\ group' = group /\ plan[at].kind # "dyn" /\ Children(Len(plan[at].tasks))
           /\ trees' \subseteq {at} /\ (plan[at].kind # "par" => trees' = {})
  <2>1. Len(plan[at].tasks) \in Nat
    BY <1>2, PlanNow
  <2>2. /\ child' \in Seq(ChildState) /\ Len(child') = Many(plan, dynamic, at)
        /\ \A k \in 1..Len(child') : child'[k] = "waiting"
        /\ aborted' = FALSE /\ phase' = "tasks"
    BY <1>6, <2>1, WaitingChildren DEF Many
  <2>3. Done' = Done
    BY <1>1, <1>2, <1>6, <2>2 DEF Done, NoAnswer, ByChildren
  <2>4. Formed'
    BY <1>1, <1>4, <1>5, <2>2 DEF ChainInv, Formed
  <2>5. Along'
    BY <1>1, <1>2, <1>6, <2>2 DEF ChainInv, Along, NoAnswer, ByChildren
  <2>6. Counted' /\ Known' /\ Left'
    BY <1>1, <1>2, <1>6, <2>2, <2>3, StillCounted, StillKnown, StillLeft DEF NoAnswer
  <2>7. Good' /\ Trees'
    BY <1>1, <1>2, <1>6, <2>2 DEF ChainInv, Good, Trees, NoAnswer
  <2> QED
    BY <2>4, <2>5, <2>6, <2>7 DEF ChainInv
<1>7. CASE /\ phase' = "answered" /\ answer'.kind \in {"refused", "threw"} /\ trees' = trees
           /\ child' = child /\ aborted' = aborted
  <2>1. Done' = Done
    BY <1>1, <1>2, <1>7 DEF Done, ByChildren
  <2>2. Formed'
    BY <1>1, <1>4, <1>5, <1>7 DEF ChainInv, Formed
  <2>3. Along'
    BY <1>1, <1>2, <1>7 DEF ChainInv, Along, ByChildren
  <2>4. Counted' /\ Known'
    BY <1>1, <1>7, <2>1, StillCounted, StillKnown
  <2>5. Left'
    BY <1>1, <1>5, <1>7 DEF ChainInv, Left
  <2>6. Good' /\ Trees'
    BY <1>1, <1>2, <1>7, BeginNow DEF ChainInv, Good, Trees
  <2> QED
    BY <2>2, <2>3, <2>4, <2>5, <2>6 DEF ChainInv
<1> QED
  BY <1>3, <1>6, <1>7

\* The children of a dynamic group become known.
LEMMA BeginDynamicInv == ChainInv /\ BeginDynamic => ChainInv'
<1> SUFFICES ASSUME ChainInv, BeginDynamic PROVE ChainInv'
  OBVIOUS
<1> DEFINE n == Expanded(Step)
           new == [k \in 1..n |-> index + k - 1]
<1>1. /\ phase = "begin" /\ at <= Len(plan) /\ plan[at].kind = "dyn"
      /\ plan' = plan /\ way' = way /\ results' = results /\ index' = index
      /\ at' = at /\ outputs' = outputs /\ previous' = previous /\ dir' = dir /\ trees' = trees
  BY DEF BeginDynamic, Begins, Step
<1>2. /\ at \in 1..Len(plan) /\ Done = at - 1 /\ answer = NoAnswer /\ trees = {} /\ Bound(plan)
      /\ index = StartOf(plan, dynamic)[at]
      /\ \A r \in 1..Len(results) : results[r].state = "ok"
  BY <1>1, BeginNow
<1>3. n \in Nat
  <2>1. Step.from \in DOMAIN outputs /\ outputs[Step.from].value # Nil
    BY DEF BeginDynamic, Expandable
  <2>2. outputs[Step.from].value \in Value
    BY <2>1 DEF ChainInv, Left
  <2> QED
    BY <2>2, ChainAssumption DEF Expanded
<1>4. dynamic' = [dynamic EXCEPT ![at] = new]
  BY DEF BeginDynamic
<1> HIDE DEF n
<1>5. new \in Seq(Nat) /\ Len(new) = n /\ \A k \in 1..n : new[k] = index + k - 1
  BY <1>3 DEF ChainInv, Formed
<1> HIDE DEF new
<1>6. dynamic \in [1..Len(plan) -> Seq(Nat)] /\ plan \in Plan /\ Len(plan) \in Nat
  BY PlanNow DEF ChainInv, Formed
<1>7. /\ dynamic' \in [1..Len(plan) -> Seq(Nat)] /\ dynamic'[at] = new
      /\ \A i \in 1..Len(plan) : i # at => dynamic'[i] = dynamic[i]
  BY <1>2, <1>4, <1>5, <1>6
<1>8. \A i \in 1..at : StartOf(plan, dynamic)[i] = StartOf(plan, dynamic')[i]
  <2>1. at \in 1..(Len(plan) + 1) /\ \A i \in 1..(at - 1) : dynamic[i] = dynamic'[i]
    BY <1>2, <1>6, <1>7
  <2> QED
    BY <1>6, <1>7, <2>1, StartLooksBack
<1>9. Known'
  <2>1. ASSUME NEW i \in 1..Len(plan), i > at PROVE dynamic'[i] = <<>>
    BY <1>7, <2>1 DEF ChainInv, Known
  <2>2. ASSUME NEW i \in 1..Len(plan), plan[i].kind = "dyn", NEW k \in 1..Len(dynamic'[i])
        PROVE  dynamic'[i][k] = StartOf(plan, dynamic')[i] + k - 1
    <3>1. CASE i < at
      <4>1. dynamic'[i] = dynamic[i] /\ StartOf(plan, dynamic')[i] = StartOf(plan, dynamic)[i]
        BY <1>2, <1>7, <1>8, <3>1
      <4> QED
        BY <2>2, <4>1 DEF ChainInv, Known, Placed
    <3>2. CASE i = at
      <4>1. StartOf(plan, dynamic')[at] = index
        BY <1>2, <1>8
      <4> QED
        BY <1>5, <1>7, <3>2, <4>1
    <3>3. CASE i > at
      BY <2>1, <3>3
    <3> QED
      BY <1>2, <1>6, <3>1, <3>2, <3>3
  <2>3. phase' \in {"tasks", "answered"}
    BY DEF BeginDynamic, Children, Stop
  <2> QED
    BY <1>1, <2>1, <2>2, <2>3 DEF Known, Placed
<1>10. \/ answer' = answer /\ group' = group /\ Children(n)
       \/ /\ phase' = "answered" /\ answer'.kind = "refused" /\ group' = [group EXCEPT ![at] = "failed"]
          /\ child' = child /\ aborted' = aborted
  BY DEF BeginDynamic, Stop, n
<1>11. begun' \in {0, 1}
  BY DEF BeginDynamic, Notes, ChainInv, Formed
<1>12. group' \in [1..Len(plan) -> {"none", "completed", "failed"}] /\ \A i \in 1..(at - 1) : group'[i] = group[i]
  <2>1. group \in [1..Len(plan) -> {"none", "completed", "failed"}]
    BY DEF ChainInv, Formed
  <2> QED
    BY <1>2, <1>10, <2>1
<1>13. Done' = Done /\ answer'.kind \notin ByChildren \cup {"completed", "threw"} /\ phase' \in {"tasks", "answered"}
  BY <1>1, <1>2, <1>10 DEF Done, NoAnswer, ByChildren, Children
<1>14. Counted'
  <2>1. index = StartOf(plan, dynamic')[Done + 1]
    <3>1. Done + 1 = at /\ at \in 1..at
      BY <1>2
    <3> QED
      BY <1>2, <1>8, <3>1
  <2>2. ASSUME NEW i \in 1..Done
        PROVE  Many(plan, dynamic', i) = Many(plan, dynamic, i) /\ StartOf(plan, dynamic')[i] = StartOf(plan, dynamic)[i]
    <3>1. i \in 1..at /\ i \in 1..Len(plan) /\ i # at
      BY <1>2, <1>6
    <3> QED
      BY <1>7, <1>8, <3>1 DEF Many
  <2> QED
    BY <1>1, <1>13, <2>1, <2>2 DEF ChainInv, Counted
<1>15. Left'
  BY <1>1, <1>12, <1>13 DEF ChainInv, Left
<1>16. CASE answer' = answer /\ group' = group /\ Children(n)
  <2>1. /\ child' \in Seq(ChildState) /\ Len(child') = n
        /\ \A k \in 1..Len(child') : child'[k] = "waiting"
        /\ aborted' = FALSE /\ phase' = "tasks"
    BY <1>3, <1>16, WaitingChildren
  <2>2. Many(plan, dynamic', at) = n
    BY <1>1, <1>5, <1>7 DEF Many
  <2>3. Formed'
    BY <1>1, <1>7, <1>11, <1>12, <2>1 DEF ChainInv, Formed
  <2>4. Along'
    <3>1. n > 0
      BY DEF BeginDynamic, n
    <3> QED
      BY <1>1, <1>2, <1>16, <2>1, <2>2, <3>1 DEF ChainInv, Along, NoAnswer, ByChildren
  <2>5. Good' /\ Trees'
    BY <1>1, <1>2, <1>16, <2>1 DEF ChainInv, Good, Trees, NoAnswer
  <2> QED
    BY <1>9, <1>14, <1>15, <2>3, <2>4, <2>5 DEF ChainInv
<1>17. CASE /\ phase' = "answered" /\ answer'.kind = "refused"
            /\ child' = child /\ aborted' = aborted
  <2>1. Formed'
    BY <1>1, <1>7, <1>11, <1>12, <1>17 DEF ChainInv, Formed
  <2>2. Along'
    BY <1>1, <1>2, <1>17 DEF ChainInv, Along, ByChildren
  <2>3. Good' /\ Trees'
    BY <1>1, <1>2, <1>17 DEF ChainInv, Good, Trees
  <2> QED
    BY <1>9, <1>14, <1>15, <2>1, <2>2, <2>3 DEF ChainInv
<1> QED
  BY <1>10, <1>16, <1>17

\* The names before the next step are those before this one and its own.
LEMMA BeforeNext ==
  ASSUME ChainInv, at \in 1..Len(plan)
  PROVE  Before(plan, at + 1) \subseteq Before(plan, at) \cup Names(plan[at])
<1> SUFFICES ASSUME NEW n \in Before(plan, at + 1) PROVE n \in Before(plan, at) \cup Names(plan[at])
  OBVIOUS
<1>1. PICK j \in 1..(at + 1 - 1) : n \in Names(plan[j])
  BY DEF Before
<1>2. j \in 1..(at - 1) \/ j = at
  BY PlanNow
<1> QED
  BY <1>1, <1>2 DEF Before

\* The outputs once those of the current step are added.
LEMMA NamedIs ==
  ASSUME ChainInv, at \in 1..Len(plan), Bound(plan), NEW v, DOMAIN v = Names(plan[at]),
         \A n \in DOMAIN v : v[n] \in Value \cup {Nil}, outputs' = Named(v)
  PROVE  /\ DOMAIN outputs' = Names(plan[at]) \cup DOMAIN outputs /\ Nil \notin DOMAIN outputs'
         /\ Before(plan, at + 1) \subseteq DOMAIN outputs'
         /\ \A n \in DOMAIN outputs' : outputs'[n].value \in Value \cup {Nil}
<1>1. Nil \notin Names(plan[at])
  <2>1. plan[at].kind = "dyn" => plan[at].as # Nil
    BY PlanNow DEF Bound
  <2> QED
    BY <2>1 DEF Names
<1>2. DOMAIN outputs' = Names(plan[at]) \cup DOMAIN outputs
  BY DEF Named
<1>3. Before(plan, at + 1) \subseteq Before(plan, at) \cup Names(plan[at])
  BY BeforeNext
<1>4. ASSUME NEW n \in DOMAIN outputs' PROVE outputs'[n].value \in Value \cup {Nil}
  <2>1. CASE n \in DOMAIN v
    <3>1. outputs'[n] = [step |-> at, value |-> v[n]]
      BY <1>2, <2>1 DEF Named
    <3> QED
      BY <2>1, <3>1
  <2>2. CASE n \notin DOMAIN v
    <3>1. outputs'[n] = outputs[n] /\ n \in DOMAIN outputs
      BY <1>2, <2>2 DEF Named
    <3> QED
      BY <3>1 DEF ChainInv, Left
  <2> QED
    BY <2>1, <2>2
<1> QED
  BY <1>1, <1>2, <1>3, <1>4 DEF ChainInv, Left

\* Only the name of a dynamic group.
LEMMA CollectedIs ==
  ASSUME ChainInv, at \in 1..Len(plan), Bound(plan), plan[at].kind = "dyn",
         outputs' = Named([n \in {Step.as} |-> Nil])
  PROVE  /\ plan[at].as \in DOMAIN outputs' /\ Nil \notin DOMAIN outputs'
         /\ Before(plan, at) \subseteq DOMAIN outputs' /\ Before(plan, at + 1) \subseteq DOMAIN outputs'
         /\ \A n \in DOMAIN outputs' : outputs'[n].value \in Value \cup {Nil}
<1> DEFINE v == [n \in {Step.as} |-> Nil]
<1>1. Names(plan[at]) = {plan[at].as} /\ DOMAIN v = Names(plan[at])
  BY DEF Names, Step
<1>2. outputs' = Named(v) /\ \A n \in DOMAIN v : v[n] \in Value \cup {Nil}
  OBVIOUS
<1> HIDE DEF v
<1>3. /\ DOMAIN outputs' = Names(plan[at]) \cup DOMAIN outputs /\ Nil \notin DOMAIN outputs'
      /\ Before(plan, at + 1) \subseteq DOMAIN outputs'
      /\ \A n \in DOMAIN outputs' : outputs'[n].value \in Value \cup {Nil}
  BY <1>1, <1>2, NamedIs
<1> QED
  BY <1>1, <1>3 DEF ChainInv, Left

\* A group that expands to nothing.
LEMMA BeginEmptyInv == ChainInv /\ BeginEmpty => ChainInv'
<1> SUFFICES ASSUME ChainInv, BeginEmpty PROVE ChainInv'
  OBVIOUS
<1>1. /\ phase = "begin" /\ at <= Len(plan) /\ plan[at].kind = "dyn"
      /\ plan' = plan /\ way' = way /\ results' = results /\ index' = index /\ dynamic' = dynamic
      /\ dir' = dir /\ trees' = trees /\ begun' = begun /\ aborted' = aborted /\ child' = <<>>
  BY DEF BeginEmpty, Begins, Step
<1>2. /\ at \in 1..Len(plan) /\ Done = at - 1 /\ answer = NoAnswer /\ trees = {} /\ Bound(plan)
      /\ index = StartOf(plan, dynamic)[at] /\ dynamic[at] = <<>>
      /\ \A r \in 1..Len(results) : results[r].state = "ok"
  BY <1>1, BeginNow
<1>3. Many(plan, dynamic, at) = 0 /\ StartOf(plan, dynamic)[at + 1] = index /\ Len(plan) \in Nat
  <2>1. Many(plan, dynamic, at) = 0
    BY <1>1, <1>2 DEF Many
  <2>2. StartOf(plan, dynamic)[at + 1] = StartOf(plan, dynamic)[at] + 0 /\ StartOf(plan, dynamic)[at] \in Nat
    BY <1>2, <2>1, PlanNow, StartNow
  <2> QED
    BY <1>2, <2>1, <2>2, PlanNow
<1>4. /\ group' \in [1..Len(plan) -> {"none", "completed", "failed"}]
      /\ \A i \in 1..(at - 1) : group'[i] = group[i]
      /\ group' = [group EXCEPT ![at] = "completed"] => group'[at] = "completed"
  <2>1. group \in [1..Len(plan) -> {"none", "completed", "failed"}]
    BY DEF ChainInv, Formed
  <2>2. group' = [group EXCEPT ![at] = "completed"] \/ group' = [group EXCEPT ![at] = "failed"]
    BY DEF BeginEmpty
  <2> QED
    BY <1>2, <2>1, <2>2
<1>5. child' \in Seq(ChildState) /\ Len(child') = 0
  BY <1>1
<1>6. CASE /\ outputs' = Named([n \in {Step.as} |-> Nil]) /\ group' = [group EXCEPT ![at] = "completed"]
           /\ answer' = answer
           /\ \/ phase' = "accept" /\ at' = at /\ previous' = previous
              \/ phase' = "begin" /\ at' = at + 1 /\ previous' = <<>>
  <2>1. /\ plan[at].as \in DOMAIN outputs' /\ Nil \notin DOMAIN outputs'
        /\ Before(plan, at) \subseteq DOMAIN outputs' /\ Before(plan, at + 1) \subseteq DOMAIN outputs'
        /\ \A n \in DOMAIN outputs' : outputs'[n].value \in Value \cup {Nil}
    BY <1>1, <1>2, <1>6, CollectedIs
  <2>2. Done' = at
    BY <1>2, <1>6 DEF Done, NoAnswer, ByChildren
  <2>3. Formed'
    <3>1. at' \in 1..(Len(plan) + 1) /\ phase' \in {"accept", "begin"}
      BY <1>2, <1>3, <1>6
    <3>2. Formed
      BY DEF ChainInv
    <3> HIDE <1>6
    <3> QED
      BY <1>1, <1>4, <1>5, <3>1, <3>2 DEF Formed
  <2>4. Along'
    BY <1>1, <1>2, <1>3, <1>4, <1>5, <1>6, <2>1 DEF ChainInv, Along, NoAnswer, ByChildren
  <2>5. Counted'
    <3>1. ASSUME NEW i \in 1..at, NEW k \in 1..Many(plan, dynamic, i)
          PROVE  /\ StartOf(plan, dynamic)[i] + k \in 1..Len(results)
                 /\ results[StartOf(plan, dynamic)[i] + k].who = <<i, k>>
      <4>1. i \in 1..Done
        BY <1>2, <1>3
      <4> QED
        BY <4>1 DEF ChainInv, Counted
    <3>2. index = Len(results)
      BY DEF ChainInv, Counted
    <3> QED
      BY <1>1, <1>3, <2>2, <3>1, <3>2 DEF Counted
  <2>6. Known'
    <3>1. ASSUME NEW i \in 1..Len(plan), i > at PROVE dynamic[i] = <<>>
      BY <3>1 DEF ChainInv, Known
    <3>2. Placed(plan, dynamic)
      BY DEF ChainInv, Known
    <3> QED
      BY <1>1, <1>2, <1>3, <1>6, <3>1, <3>2 DEF Known
  <2>7. Good' /\ Trees'
    BY <1>1, <1>2, <1>6 DEF ChainInv, Good, Trees, NoAnswer
  <2>8. Left'
    <3>1. CASE phase' = "accept" /\ at' = at
      BY <1>1, <1>2, <1>4, <1>6, <2>1, <3>1 DEF ChainInv, Left, NoAnswer
    <3>2. CASE phase' = "begin" /\ at' = at + 1 /\ previous' = <<>>
      <4>1. \A i \in 1..at : plan[i].kind = "dyn" => group'[i] = "completed"
        <5>1. \A i \in 1..(at - 1) : plan[i].kind = "dyn" => group'[i] = "completed"
          BY <1>4 DEF ChainInv, Left
        <5> QED
          BY <1>2, <1>3, <1>4, <1>6, <5>1
      <4>2. at + 1 - 1 = at /\ <<>> = [k \in 1..0 |-> <<at, k>>]
        BY <1>2, <1>3
      <4>3. Before(plan, at + 1) = Before(plan', at') /\ at' - 1 = at
        BY <1>1, <1>2, <3>2
      <4>4. answer'.kind # "threw" /\ previous' = [k \in 1..Many(plan', dynamic', at' - 1) |-> <<at' - 1, k>>]
        BY <1>1, <1>2, <1>3, <1>6, <3>2, <4>2, <4>3 DEF NoAnswer
      <4> QED
        BY <1>1, <2>1, <4>1, <4>3, <4>4 DEF Left
    <3> QED
      BY <1>6, <3>1, <3>2
  <2> QED
    BY <2>3, <2>4, <2>5, <2>6, <2>7, <2>8 DEF ChainInv
<1>7. CASE /\ phase' = "answered" /\ answer'.kind = "refused"
           /\ outputs' = outputs /\ at' = at /\ previous' = previous
  <2>1. Done' = Done
    BY <1>1, <1>2, <1>7 DEF Done, ByChildren
  <2>2. Formed'
    BY <1>1, <1>4, <1>5, <1>7 DEF ChainInv, Formed
  <2>3. Along'
    BY <1>1, <1>2, <1>7 DEF ChainInv, Along, ByChildren
  <2>4. Counted' /\ Known'
    BY <1>1, <1>7, <2>1, StillCounted, StillKnown
  <2>5. Left'
    BY <1>1, <1>4, <1>7 DEF ChainInv, Left
  <2>6. Good' /\ Trees'
    BY <1>1, <1>2, <1>7 DEF ChainInv, Good, Trees
  <2> QED
    BY <2>2, <2>3, <2>4, <2>5, <2>6 DEF ChainInv
<1> QED
  BY <1>6, <1>7 DEF BeginEmpty, Stop

\* The next child of a step.
LEMMA NextUpIs ==
  ASSUME ChainInv, NextUp # {}
  PROVE  Min(NextUp) \in 1..Len(child) /\ child[Min(NextUp)] = "waiting"
<1>1. NextUp \subseteq 1..Len(child) /\ \A k \in NextUp : child[k] = "waiting"
  BY DEF NextUp, ChainInv, Formed
<1>2. PICK n \in NextUp : \A m \in NextUp : n <= m
  <2>1. NextUp \subseteq Nat
    BY <1>1
  <2> QED
    BY <2>1, LeastNat
<1>3. Min(NextUp) \in NextUp
  BY <1>2 DEF Min
<1> QED
  BY <1>1, <1>3

\* What a chain has whose children run.
LEMMA TasksNow ==
  ASSUME ChainInv, phase = "tasks"
  PROVE  /\ at \in 1..Len(plan) /\ Done = at - 1 /\ answer = NoAnswer /\ Bound(plan)
         /\ child \in Seq(ChildState) /\ DOMAIN child = 1..Len(child)
         /\ Len(child) = Many(plan, dynamic, at) /\ Len(child) \in Nat
         /\ index = StartOf(plan, dynamic)[at] /\ index = Len(results)
         /\ \A r \in 1..Len(results) : results[r].state = "ok"
<1>1. at \in 1..Len(plan) /\ answer = NoAnswer /\ Done = at - 1 /\ at - 1 + 1 = at
  BY PlanNow DEF ChainInv, Formed, Along, Done, NoAnswer, ByChildren
<1>2. index = StartOf(plan, dynamic)[at]
  BY <1>1 DEF ChainInv, Counted
<1> QED
  BY <1>1, <1>2 DEF ChainInv, Along, Good, Formed, Counted

\* A step in which some child of the current step changes its state, and nothing else that
\* matters does.
LEMMA ChildrenInv ==
  ASSUME ChainInv, phase = "tasks", phase' = phase, answer' = answer, trees' = trees,
         plan' = plan, way' = way, at' = at, index' = index, dir' = dir, begun' = begun,
         results' = results, outputs' = outputs, previous' = previous, dynamic' = dynamic, group' = group,
         child' \in Seq(ChildState), Len(child') = Len(child), aborted' \in BOOLEAN,
         aborted' => \E k \in 1..Len(child) : child'[k] \in {"failed", "detached"},
         \A k \in 1..Len(child) : child'[k] = "skipped" => aborted'
  PROVE  ChainInv'
<1>1. answer = NoAnswer /\ Done' = Done
  BY DEF ChainInv, Along, Done
<1>2. Formed'
  BY DEF ChainInv, Formed
<1>3. Along'
  BY DEF ChainInv, Along
<1>4. Counted' /\ Known' /\ Left'
  BY <1>1, StillCounted, StillKnown, StillLeft DEF NoAnswer
<1>5. Good'
  BY DEF ChainInv, Good
<1>6. Trees'
  BY DEF ChainInv, Trees
<1> QED
  BY <1>2, <1>3, <1>4, <1>5, <1>6 DEF ChainInv

LEMMA SkipsInv == ChainInv /\ Skips => ChainInv'
<1> SUFFICES ASSUME ChainInv, Skips PROVE ChainInv'
  OBVIOUS
<1> DEFINE m == Min(NextUp)
<1>1. phase = "tasks" /\ aborted /\ NextUp # {} /\ child' = [child EXCEPT ![m] = "skipped"]
  BY DEF Skips, Starting
<1>2. m \in 1..Len(child) /\ child[m] = "waiting"
  BY <1>1, NextUpIs
<1> HIDE DEF m
<1>3. child \in Seq(ChildState) /\ DOMAIN child = 1..Len(child) /\ "skipped" \in ChildState
  BY <1>1, TasksNow DEF ChildState, Settled
<1>4. child' \in Seq(ChildState) /\ Len(child') = Len(child)
  BY <1>1, <1>2, <1>3, ExceptSeq
<1>5. \A k \in 1..Len(child) : child'[k] = IF k = m THEN "skipped" ELSE child[k]
  BY <1>1, <1>2, <1>3
<1>6. PICK k \in 1..Len(child) : child[k] \in {"failed", "detached"}
  BY <1>1 DEF ChainInv, Good
<1>7. child'[k] \in {"failed", "detached"}
  BY <1>2, <1>5, <1>6
<1> QED
  BY <1>1, <1>4, <1>5, <1>6, <1>7, ChildrenInv DEF Skips, dataVars, ChainInv, Formed

LEMMA StartsInv == ChainInv /\ (SingleStarts \/ GroupStarts) => ChainInv'
<1> SUFFICES ASSUME ChainInv, SingleStarts \/ GroupStarts PROVE ChainInv'
  OBVIOUS
<1>1. phase = "tasks" /\ NextUp # {}
  BY DEF SingleStarts, GroupStarts, Starting
<1>2. PICK m \in 1..Len(child) : StartsChild(m) /\ child[m] = "waiting"
  <2>1. Min(NextUp) \in 1..Len(child) /\ child[Min(NextUp)] = "waiting"
    BY <1>1, NextUpIs
  <2>2. CASE GroupStarts
    BY <2>1, <2>2 DEF GroupStarts
  <2>3. CASE SingleStarts
    <3>1. plan[at].kind = "seq"
      BY <2>3 DEF SingleStarts, Step
    <3>2. Len(child) = 1
      BY <1>1, <3>1, TasksNow, PlanNow DEF Many
    <3>3. Min(NextUp) = 1
      BY <2>1, <3>2
    <3> QED
      BY <2>1, <2>3, <3>3 DEF SingleStarts
  <2> QED
    BY <2>2, <2>3
<1>3. /\ at \in 1..Len(plan) /\ Bound(plan) /\ Before(plan, at) \subseteq DOMAIN outputs
      /\ child \in Seq(ChildState) /\ DOMAIN child = 1..Len(child) /\ Len(child) = Many(plan, dynamic, at)
  BY <1>1, TasksNow DEF ChainInv, Left
<1>4. CASE Missing(m) # {}
  <2>1. /\ phase' = "answered" /\ answer' = [kind |-> "threw", step |-> at, flat |-> Nil]
        /\ trees' = trees \ {at} /\ child' = child /\ aborted' = aborted
        /\ plan' = plan /\ way' = way /\ at' = at /\ index' = index /\ results' = results
        /\ outputs' = outputs /\ previous' = previous /\ dynamic' = dynamic /\ group' = group
        /\ dir' = dir /\ begun' = begun
    BY <1>2, <1>4 DEF StartsChild, Stop, dataVars
  <2>2. answer = NoAnswer /\ \A r \in 1..Len(results) : results[r].state = "ok"
    BY <1>1, TasksNow
  <2>3. Done' = Done
    BY <1>1, <2>1, <2>2 DEF Done, NoAnswer, ByChildren
  <2>4. Formed'
    BY <2>1 DEF ChainInv, Formed
  <2>5. Along'
    BY <2>1, <2>2 DEF ChainInv, Along, ByChildren
  <2>6. Counted' /\ Known' /\ Left'
    BY <1>1, <2>1, <2>3, StillCounted, StillKnown, StillLeft
  <2>7. Good' /\ Trees'
    BY <1>1, <2>1, <2>2 DEF ChainInv, Good, Trees
  <2> QED
    BY <2>4, <2>5, <2>6, <2>7 DEF ChainInv
<1> SUFFICES ASSUME Missing(m) = {} PROVE ChainInv'
  BY <1>4
<1>5. child' = [child EXCEPT ![m] = "running"] /\ phase' = phase /\ trees' = trees /\ answer' = answer
  BY <1>2 DEF StartsChild
<1>6. "running" \in ChildState
  BY DEF ChildState
<1>7. child' \in Seq(ChildState) /\ Len(child') = Len(child)
  BY <1>2, <1>3, <1>5, <1>6, ExceptSeq
<1>8. \A k \in 1..Len(child) : child'[k] = IF k = m THEN "running" ELSE child[k]
  BY <1>2, <1>3, <1>5
<1>9. aborted' = aborted
  BY <1>2 DEF StartsChild
<1>10. aborted' \in BOOLEAN
  BY <1>9 DEF ChainInv, Formed
<1>11. ASSUME aborted' PROVE \E k \in 1..Len(child) : child'[k] \in {"failed", "detached"}
  <2>1. PICK k \in 1..Len(child) : child[k] \in {"failed", "detached"}
    BY <1>1, <1>9, <1>11 DEF ChainInv, Good
  <2>2. child'[k] \in {"failed", "detached"}
    BY <1>2, <1>8, <2>1
  <2> QED
    BY <2>2
<1>12. \A k \in 1..Len(child) : child'[k] = "skipped" => aborted'
  BY <1>1, <1>8, <1>9 DEF ChainInv, Good
<1> QED
  BY <1>1, <1>2, <1>5, <1>7, <1>10, <1>11, <1>12, ChildrenInv DEF StartsChild, dataVars

LEMMA TaskEndsInv == ASSUME ChainInv, NEW m \in DOMAIN child, TaskEnds(m) PROVE ChainInv'
<1>1. phase = "tasks" /\ m \in Busy
  BY DEF TaskEnds
<1>2. PICK end \in EndsAs(m) :
        /\ child' = [child EXCEPT ![m] = end]
        /\ aborted' = (aborted \/ (Step.failFast /\ end \in {"failed", "detached"}))
  BY DEF TaskEnds
<1>3. end \in {"ok", "failed", "detached", "paused", "checking"}
  BY <1>2 DEF EndsAs
<1>4. /\ child \in Seq(ChildState) /\ DOMAIN child = 1..Len(child) /\ at \in 1..Len(plan)
      /\ child[m] \in {"running", "stopping", "checking", "late"}
  BY <1>1, TasksNow DEF Busy
<1>5. end \in ChildState
  BY <1>3 DEF ChildState, Settled
<1>6. child' \in Seq(ChildState) /\ Len(child') = Len(child)
  BY <1>2, <1>4, <1>5, ExceptSeq
<1>7. \A k \in 1..Len(child) : child'[k] = IF k = m THEN end ELSE child[k]
  BY <1>2, <1>4
<1>8. aborted' \in BOOLEAN
  BY <1>2
<1>9. ASSUME aborted' PROVE \E k \in 1..Len(child) : child'[k] \in {"failed", "detached"}
  <2>1. CASE aborted
    <3>1. PICK k \in 1..Len(child) : child[k] \in {"failed", "detached"}
      BY <1>1, <2>1 DEF ChainInv, Good
    <3>2. child'[k] \in {"failed", "detached"}
      BY <1>4, <1>7, <3>1
    <3> QED
      BY <3>2
  <2>2. CASE ~ aborted
    <3>1. end \in {"failed", "detached"}
      BY <1>2, <1>9, <2>2
    <3> QED
      BY <1>4, <1>7, <3>1
  <2> QED
    BY <2>1, <2>2
<1>10. ASSUME NEW k \in 1..Len(child), child'[k] = "skipped" PROVE aborted'
  <2>1. child[k] = "skipped"
    BY <1>3, <1>7, <1>10
  <2>2. aborted
    BY <1>1, <2>1 DEF ChainInv, Good
  <2> QED
    BY <1>2, <2>2
<1> QED
  BY <1>1, <1>6, <1>8, <1>9, <1>10, ChildrenInv DEF TaskEnds, dataVars

LEMMA InterruptInv == ChainInv /\ Interrupt => ChainInv'
<1> SUFFICES ASSUME ChainInv, Interrupt PROVE ChainInv'
  OBVIOUS
<1> DEFINE m == control.owner
           new == IF child[m] = "running" THEN "stopping" ELSE "late"
<1>1. phase = "tasks" /\ child' = [child EXCEPT ![m] = new] /\ child[m] \in {"running", "checking"}
  BY DEF Interrupt
<1>2. new \in {"stopping", "late"} /\ new \in ChildState
  BY DEF ChildState
<1> HIDE DEF m, new
<1>3. child \in Seq(ChildState) /\ DOMAIN child = 1..Len(child) /\ Len(child) \in Nat
  BY <1>1, TasksNow
<1>4. \A k \in 1..Len(child) : child'[k] = IF k = m THEN new ELSE child[k]
  BY <1>1, <1>3
<1>5. child' \in Seq(ChildState) /\ Len(child') = Len(child)
  <2>1. \A k \in 1..Len(child) : child'[k] \in ChildState
    BY <1>2, <1>3, <1>4
  <2>2. child' = [k \in 1..Len(child) |-> child'[k]]
    BY <1>1, <1>3
  <2> QED
    BY <1>3, <2>1, <2>2
<1>6. aborted' = aborted
  BY DEF Interrupt
<1>7. aborted' \in BOOLEAN
  BY <1>6 DEF ChainInv, Formed
<1>8. ASSUME aborted' PROVE \E k \in 1..Len(child) : child'[k] \in {"failed", "detached"}
  <2>1. PICK k \in 1..Len(child) : child[k] \in {"failed", "detached"}
    BY <1>1, <1>6, <1>8 DEF ChainInv, Good
  <2>2. child'[k] \in {"failed", "detached"}
    BY <1>1, <1>4, <2>1
  <2> QED
    BY <2>2
<1>9. \A k \in 1..Len(child) : child'[k] = "skipped" => aborted'
  BY <1>1, <1>2, <1>4, <1>6 DEF ChainInv, Good
<1> QED
  BY <1>1, <1>5, <1>7, <1>8, <1>9, ChildrenInv DEF Interrupt, dataVars

\* The children of the current step have ended, and their results are added.
LEMMA GatheredIs ==
  ASSUME ChainInv, phase = "tasks", \A k \in DOMAIN child : child[k] \in Settled, results' = Gathered
  PROVE  /\ results' \in Seq(ChildResult) /\ Len(results') = index + Len(child)
         /\ \A r \in 1..Len(results) : r \in 1..Len(results') /\ results'[r] = results[r]
         /\ \A k \in 1..Len(child) : /\ index + k \in 1..Len(results')
                                     /\ results'[index + k] = [who |-> <<at, k>>, state |-> child[k]]
         /\ \A r \in 1..Len(results') : r \in 1..Len(results) \/ \E k \in 1..Len(child) : r = index + k
<1> DEFINE new == [k \in DOMAIN child |-> [who |-> <<at, k>>, state |-> child[k]]]
           n == Len(child)
           m == Len(results)
<1>1. /\ at \in 1..Len(plan) /\ Len(plan) \in Nat /\ DOMAIN child = 1..n /\ n \in Nat
      /\ index = m /\ m \in Nat /\ results \in Seq(ChildResult)
  BY TasksNow, PlanNow, ResultNow
<1>2. new \in Seq(ChildResult) /\ Len(new) = n /\ \A k \in 1..n : new[k] = [who |-> <<at, k>>, state |-> child[k]]
  <2> HIDE DEF n
  <2>1. ASSUME NEW k \in 1..n PROVE [who |-> <<at, k>>, state |-> child[k]] \in ChildResult
    BY <1>1 DEF ChildResult
  <2> QED
    BY <1>1, <2>1
<1>3. results' = results \o new
  BY DEF Gathered
<1> HIDE DEF new
<1>4. results' \in Seq(ChildResult) /\ Len(results') = m + n
  <2>1. results \o new \in Seq(ChildResult) /\ Len(results \o new) = Len(results) + Len(new)
    BY <1>1, <1>2, ConcatProperties
  <2> QED
    BY <1>2, <1>3, <2>1
<1>5. \A r \in 1..(m + n) : results'[r] = IF r <= m THEN results[r] ELSE new[r - m]
  <2>1. \A r \in 1..(Len(results) + Len(new)) :
          (results \o new)[r] = IF r <= Len(results) THEN results[r] ELSE new[r - Len(results)]
    BY <1>1, <1>2, ConcatProperties
  <2> QED
    BY <1>2, <1>3, <2>1
<1> HIDE DEF n, m
<1>6. ASSUME NEW r \in 1..m PROVE r \in 1..Len(results') /\ results'[r] = results[r]
  <2>1. r \in 1..(m + n) /\ r <= m
    BY <1>1
  <2> QED
    BY <1>4, <1>5, <2>1
<1>7. ASSUME NEW k \in 1..n
      PROVE  index + k \in 1..Len(results') /\ results'[index + k] = [who |-> <<at, k>>, state |-> child[k]]
  <2> DEFINE r == index + k
  <2>1. r \in 1..(m + n) /\ ~ (r <= m) /\ r - m = k
    BY <1>1
  <2> HIDE DEF r
  <2>2. results'[r] = new[k]
    BY <1>5, <2>1
  <2>3. r \in 1..Len(results') /\ results'[r] = [who |-> <<at, k>>, state |-> child[k]]
    BY <1>2, <1>4, <2>1, <2>2
  <2> QED
    BY <2>3 DEF r
<1>8. ASSUME NEW r \in 1..(m + n), r \notin 1..m PROVE \E k \in 1..n : r = index + k
  <2>1. r - m \in 1..n /\ r = index + (r - m)
    BY <1>1, <1>8
  <2> QED
    BY <2>1
<1> QED
  BY <1>1, <1>4, <1>6, <1>7, <1>8 DEF n, m

\* Then the step is done.
LEMMA GatheredCounted ==
  ASSUME ChainInv, phase = "tasks", \A k \in DOMAIN child : child[k] \in Settled, results' = Gathered,
         plan' = plan, dynamic' = dynamic, index' = index + Width, Done' = at
  PROVE  Counted' /\ index' \in Nat
<1>1. /\ at \in 1..Len(plan) /\ Done = at - 1 /\ Len(child) = Many(plan, dynamic, at) /\ Len(child) \in Nat
      /\ index = StartOf(plan, dynamic)[at] /\ index = Len(results) /\ Len(plan) \in Nat
  BY TasksNow, PlanNow
<1>2. index' = Len(results') /\ index' \in Nat
  BY <1>1, GatheredIs, ResultNow DEF Width
<1>3. StartOf(plan, dynamic)[at + 1] = index'
  BY <1>1, StartNow DEF Width
<1>4. ASSUME NEW i \in 1..at, NEW k \in 1..Many(plan, dynamic, i)
      PROVE  /\ StartOf(plan, dynamic)[i] + k \in 1..Len(results')
             /\ results'[StartOf(plan, dynamic)[i] + k].who = <<i, k>>
  <2>1. CASE i = at
    <3>1. k \in 1..Len(child) /\ StartOf(plan, dynamic)[i] + k = index + k
      BY <1>1, <2>1
    <3>2. index + k \in 1..Len(results') /\ results'[index + k] = [who |-> <<at, k>>, state |-> child[k]]
      BY <3>1, GatheredIs
    <3> QED
      BY <2>1, <3>1, <3>2
  <2>2. CASE i # at
    <3> DEFINE r == StartOf(plan, dynamic)[i] + k
    <3>1. i \in 1..Done
      BY <1>1, <2>2
    <3>2. r \in 1..Len(results) /\ results[r].who = <<i, k>>
      BY <3>1 DEF ChainInv, Counted
    <3> HIDE DEF r
    <3>3. r \in 1..Len(results') /\ results'[r] = results[r]
      BY <3>2, GatheredIs
    <3>4. r \in 1..Len(results') /\ results'[r].who = <<i, k>>
      BY <3>2, <3>3
    <3> QED
      BY <3>4 DEF r
  <2> QED
    BY <2>1, <2>2
<1> QED
  BY <1>2, <1>3, <1>4 DEF Counted

LEMMA StepStopsInv ==
  ASSUME ChainInv, NEW kind, AllEnded(kind), StepStops
  PROVE  ChainInv'
<1>1. /\ phase = "tasks" /\ \A k \in DOMAIN child : child[k] \in Settled
      /\ results' = Gathered /\ index' = index + Width /\ trees' = trees \ {at}
      /\ plan' = plan /\ way' = way /\ at' = at /\ child' = child /\ aborted' = aborted
      /\ outputs' = outputs /\ previous' = previous /\ dynamic' = dynamic /\ dir' = dir /\ begun' = begun
  BY DEF AllEnded, StepStops
<1>2. /\ at \in 1..Len(plan) /\ DOMAIN child = 1..Len(child) /\ Len(child) \in Nat
      /\ index = Len(results) /\ index \in Nat
      /\ \A r \in 1..Len(results) : results[r].state = "ok"
  BY <1>1, TasksNow, ResultNow
<1>3. PICK s \in Stopping :
        /\ Stop(s, index + Min(With(s)) - 1)
        /\ group' = IF Step.kind = "dyn" /\ s = "failed" THEN [group EXCEPT ![at] = "failed"] ELSE group
  BY DEF StepStops
<1>4. s \in ByChildren /\ With(s) # {} /\ (With("paused") # {} => s = "paused")
  BY DEF Stopping, ByChildren
<1>5. Min(With(s)) \in 1..Len(child)
  <2>1. With(s) \subseteq 1..Len(child) /\ With(s) \subseteq Nat
    BY <1>2 DEF With
  <2>2. PICK n \in With(s) : \A m \in With(s) : n <= m
    BY <1>4, <2>1, LeastNat
  <2>3. Min(With(s)) \in With(s)
    BY <2>2 DEF Min
  <2> QED
    BY <2>1, <2>3
<1>6. phase' = "answered" /\ answer' = [kind |-> s, step |-> at, flat |-> index + Min(With(s)) - 1]
  BY <1>3 DEF Stop
<1>7. Done' = at
  BY <1>1, <1>4, <1>6 DEF Done
<1>8. Counted' /\ index' \in Nat
  BY <1>1, <1>7, GatheredCounted
<1>9. results' \in Seq(ChildResult) /\ Len(results') = index + Len(child)
  BY <1>1, GatheredIs
<1>10. /\ group' \in [1..Len(plan) -> {"none", "completed", "failed"}]
       /\ \A i \in 1..(at - 1) : group'[i] = group[i]
  <2>1. group \in [1..Len(plan) -> {"none", "completed", "failed"}] /\ Len(plan) \in Nat
    BY PlanNow DEF ChainInv, Formed
  <2> QED
    BY <1>2, <1>3, <2>1
<1>11. Formed'
  BY <1>1, <1>6, <1>8, <1>9, <1>10 DEF ChainInv, Formed
<1>12. Along'
  <2>1. index + Min(With(s)) - 1 \in 0..(Len(results') - 1)
    BY <1>2, <1>5, <1>9
  <2>2. s # "completed"
    BY <1>4 DEF ByChildren
  <2> QED
    BY <1>1, <1>2, <1>6, <2>1, <2>2 DEF Along
<1>13. Known'
  BY <1>1, <1>6 DEF ChainInv, Known
<1>14. Good'
  <2>1. ASSUME NEW r \in 1..Len(results'), results'[r].state = "paused"
        PROVE  s = "paused" /\ results'[r].who[1] = at
    <3>1. CASE r \in 1..Len(results)
      <4>1. results'[r] = results[r]
        BY <1>1, <3>1, GatheredIs
      <4> QED
        BY <1>2, <2>1, <3>1, <4>1
    <3>2. CASE r \notin 1..Len(results)
      <4>1. PICK k \in 1..Len(child) : r = index + k
        BY <1>1, <3>2, GatheredIs
      <4>2. results'[index + k] = [who |-> <<at, k>>, state |-> child[k]]
        BY <1>1, GatheredIs
      <4>3. child[k] = "paused" /\ results'[r].who = <<at, k>>
        BY <2>1, <4>1, <4>2
      <4>4. k \in With("paused")
        BY <1>2, <4>3 DEF With
      <4> QED
        BY <1>4, <4>3, <4>4
    <3> QED
      BY <3>1, <3>2
  <2>2. s # "completed"
    BY <1>4 DEF ByChildren
  <2> QED
    BY <1>6, <2>1, <2>2 DEF Good
<1>15. Left'
  <2>1. s # "threw"
    BY <1>4 DEF ByChildren
  <2> QED
    BY <1>1, <1>6, <1>10, <2>1 DEF ChainInv, Left
<1>16. Trees'
  BY <1>1, <1>6 DEF ChainInv, Trees
<1> QED
  BY <1>8, <1>11, <1>12, <1>13, <1>14, <1>15, <1>16 DEF ChainInv

\* When nothing stops the chain all the children of the step have succeeded.
LEMMA AllSucceeded ==
  ASSUME ChainInv, phase = "tasks", \A k \in DOMAIN child : child[k] \in Settled, results' = Gathered,
         Stopping = {}
  PROVE  \A r \in 1..Len(results') : results'[r].state = "ok"
<1>1. DOMAIN child = 1..Len(child) /\ \A r \in 1..Len(results) : results[r].state = "ok"
  BY TasksNow
<1>2. With("paused") = {} /\ With("detached") = {} /\ With("failed") = {}
  BY DEF Stopping
<1>3. \A k \in 1..Len(child) : child[k] \notin {"paused", "detached", "failed"}
  BY <1>1, <1>2 DEF With
<1>4. \A k \in 1..Len(child) : child[k] # "skipped"
  BY <1>3 DEF ChainInv, Good
<1>5. \A k \in 1..Len(child) : child[k] = "ok"
  BY <1>1, <1>3, <1>4 DEF Settled
<1>6. ASSUME NEW r \in 1..Len(results') PROVE results'[r].state = "ok"
  <2>1. CASE r \in 1..Len(results)
    BY <1>1, <2>1, GatheredIs
  <2>2. CASE r \notin 1..Len(results)
    <3>1. PICK k \in 1..Len(child) : r = index + k
      BY <2>2, GatheredIs
    <3>2. results'[index + k] = [who |-> <<at, k>>, state |-> child[k]]
      BY GatheredIs
    <3> QED
      BY <1>5, <3>1, <3>2
  <2> QED
    BY <2>1, <2>2
<1> QED
  BY <1>6

LEMMA StepDoneInv == ChainInv /\ (SingleDone \/ GroupDone) => ChainInv'
<1> SUFFICES ASSUME ChainInv, SingleDone \/ GroupDone PROVE ChainInv'
  OBVIOUS
<1>1. /\ phase = "tasks" /\ plan[at].kind # "dyn" /\ \A k \in DOMAIN child : child[k] \in Settled
      /\ Stopping = {} /\ StepDone
      /\ results' = Gathered /\ index' = index + Width /\ trees' = trees \ {at}
      /\ previous' = Whos /\ at' = at + 1 /\ phase' = "begin" /\ answer' = answer
      /\ plan' = plan /\ way' = way /\ child' = child /\ aborted' = aborted /\ group' = group
      /\ dynamic' = dynamic /\ dir' = dir /\ begun' = begun
  BY DEF SingleDone, GroupDone, AllEnded, StepDone, Step
<1>2. /\ at \in 1..Len(plan) /\ Len(plan) \in Nat /\ answer = NoAnswer /\ Bound(plan)
      /\ DOMAIN child = 1..Len(child) /\ Len(child) = Many(plan, dynamic, at)
  BY <1>1, TasksNow, PlanNow
<1>3. PICK v \in [Names(Step) -> Value \cup {Nil}] : outputs' = Named(v)
  BY <1>1 DEF StepDone
<1>4. /\ Nil \notin DOMAIN outputs' /\ Before(plan, at + 1) \subseteq DOMAIN outputs'
      /\ \A n \in DOMAIN outputs' : outputs'[n].value \in Value \cup {Nil}
  <2>1. DOMAIN v = Names(plan[at]) /\ \A n \in DOMAIN v : v[n] \in Value \cup {Nil}
    BY <1>3 DEF Step
  <2> QED
    BY <1>2, <1>3, <2>1, NamedIs
<1>5. at + 1 - 1 = at /\ Done' = at
  BY <1>1, <1>2 DEF Done, NoAnswer, ByChildren
<1>6. Counted' /\ index' \in Nat
  BY <1>1, <1>5, GatheredCounted
<1>7. results' \in Seq(ChildResult)
  BY <1>1, GatheredIs
<1>8. Formed'
  BY <1>1, <1>2, <1>6, <1>7 DEF ChainInv, Formed
<1>9. Along'
  BY <1>1, <1>2 DEF ChainInv, Along, NoAnswer, ByChildren
<1>10. Known'
  <2>1. \A i \in 1..Len(plan) : i > at => dynamic[i] = <<>>
    BY DEF ChainInv, Known
  <2>2. Placed(plan, dynamic)
    BY DEF ChainInv, Known
  <2> QED
    BY <1>1, <1>2, <2>1, <2>2 DEF Known
<1>11. Good'
  <2>1. \A r \in 1..Len(results') : results'[r].state = "ok"
    BY <1>1, AllSucceeded
  <2> QED
    BY <1>1, <2>1 DEF Good
<1>12. Left'
  <2>1. \A i \in 1..at : plan[i].kind = "dyn" => group[i] = "completed"
    <3>1. \A i \in 1..(at - 1) : plan[i].kind = "dyn" => group[i] = "completed"
      BY DEF ChainInv, Left
    <3> QED
      BY <1>1, <1>2, <3>1
  <2>2. previous' = [k \in 1..Many(plan, dynamic, at) |-> <<at, k>>]
    BY <1>1, <1>2 DEF Whos
  <2> QED
    BY <1>1, <1>2, <1>4, <1>5, <2>1, <2>2 DEF Left, NoAnswer
<1>13. Trees'
  BY <1>1 DEF ChainInv, Trees
<1> QED
  BY <1>6, <1>8, <1>9, <1>10, <1>11, <1>12, <1>13 DEF ChainInv

\* The results of a dynamic group are collected, or cannot be.
LEMMA CollectsInv == ChainInv /\ Collects => ChainInv'
<1> SUFFICES ASSUME ChainInv, Collects PROVE ChainInv'
  OBVIOUS
<1>1. /\ phase = "tasks" /\ plan[at].kind = "dyn" /\ \A k \in DOMAIN child : child[k] \in Settled
      /\ Stopping = {} /\ results' = Gathered /\ index' = index + Width /\ trees' = trees
      /\ plan' = plan /\ way' = way /\ at' = at /\ child' = child /\ aborted' = aborted
      /\ previous' = previous /\ dynamic' = dynamic /\ dir' = dir /\ begun' = begun
  BY DEF Collects, AllEnded, Step
<1>2. /\ at \in 1..Len(plan) /\ Len(plan) \in Nat /\ answer = NoAnswer /\ Bound(plan) /\ trees = {}
      /\ Len(child) \in Nat /\ Len(child) > 0 /\ index = Len(results) /\ index \in Nat
      /\ Len(child) = Many(plan, dynamic, at)
  BY <1>1, TasksNow, PlanNow, ResultNow DEF ChainInv, Along, Trees
<1>3. results' \in Seq(ChildResult) /\ Len(results') = index + Len(child)
  BY <1>1, GatheredIs
<1>4. \A r \in 1..Len(results') : results'[r].state = "ok"
  BY <1>1, AllSucceeded
<1>5. \/ /\ outputs' = Named([n \in {Step.as} |-> Nil]) /\ group' = [group EXCEPT ![at] = "completed"]
         /\ phase' = "accept" /\ answer' = answer
      \/ /\ group' = [group EXCEPT ![at] = "failed"] /\ phase' = "answered" /\ outputs' = outputs
         /\ answer' = [kind |-> "failed", step |-> at, flat |-> index]
  BY DEF Collects, Stop
<1>6. /\ group' \in [1..Len(plan) -> {"none", "completed", "failed"}]
      /\ \A i \in 1..(at - 1) : group'[i] = group[i]
      /\ group' = [group EXCEPT ![at] = "completed"] => group'[at] = "completed"
  <2>1. group \in [1..Len(plan) -> {"none", "completed", "failed"}]
    BY DEF ChainInv, Formed
  <2> QED
    BY <1>2, <1>5, <2>1
<1>7. Done' = at /\ phase' \in {"accept", "answered"} /\ answer'.kind \notin {"completed", "threw", "paused"}
  BY <1>1, <1>2, <1>5 DEF Done, ByChildren, NoAnswer
<1>8. Counted' /\ index' \in Nat
  BY <1>1, <1>7, GatheredCounted
<1>9. Formed'
  BY <1>1, <1>3, <1>6, <1>7, <1>8 DEF ChainInv, Formed
<1>10. /\ Nil \notin DOMAIN outputs' /\ Before(plan, at) \subseteq DOMAIN outputs'
       /\ \A n \in DOMAIN outputs' : outputs'[n].value \in Value \cup {Nil}
       /\ phase' = "accept" => plan[at].as \in DOMAIN outputs'
  <2>1. CASE outputs' = Named([n \in {Step.as} |-> Nil])
    BY <1>1, <1>2, <2>1, CollectedIs
  <2>2. CASE outputs' = outputs /\ phase' = "answered"
    BY <2>2 DEF ChainInv, Left
  <2> QED
    BY <1>5, <2>1, <2>2
<1>11. Along'
  <2>1. CASE phase' = "accept" /\ answer' = answer /\ group' = [group EXCEPT ![at] = "completed"]
    BY <1>1, <1>2, <1>6, <1>10, <2>1 DEF Along, NoAnswer, ByChildren
  <2>2. CASE phase' = "answered" /\ answer' = [kind |-> "failed", step |-> at, flat |-> index]
    <3>1. index \in 0..(Len(results') - 1)
      BY <1>2, <1>3
    <3> QED
      BY <1>1, <1>2, <2>2, <3>1 DEF Along, ByChildren
  <2> QED
    BY <1>5, <2>1, <2>2
<1>12. Known'
  BY <1>1, <1>7 DEF ChainInv, Known
<1>13. Good' /\ Trees'
  BY <1>1, <1>2, <1>4, <1>7 DEF Good, Trees
<1>14. Left'
  BY <1>1, <1>6, <1>7, <1>10 DEF ChainInv, Left
<1> QED
  BY <1>8, <1>9, <1>11, <1>12, <1>13, <1>14 DEF ChainInv

\* What a chain has that waits for the acceptance of a group.
LEMMA AcceptNow ==
  ASSUME ChainInv, phase = "accept"
  PROVE  /\ at \in 1..Len(plan) /\ Len(plan) \in Nat /\ Done = at /\ answer = NoAnswer /\ Bound(plan)
         /\ DOMAIN child = 1..Len(child) /\ Len(child) \in Nat /\ Len(child) = Many(plan, dynamic, at)
         /\ plan[at].kind = "dyn" /\ group[at] = "completed" /\ plan[at].as \in DOMAIN outputs
         /\ index = StartOf(plan, dynamic)[at + 1] /\ index = Len(results) /\ trees = {}
         /\ StartOf(plan, dynamic)[at] \in Nat /\ index = StartOf(plan, dynamic)[at] + Len(child)
         /\ \A r \in 1..Len(results) : results[r].state = "ok"
<1>1. at \in 1..Len(plan) /\ Len(plan) \in Nat /\ answer = NoAnswer /\ Done = at
  BY PlanNow DEF ChainInv, Formed, Along, Done
<1>2. index = StartOf(plan, dynamic)[at + 1] /\ index = Len(results)
  BY <1>1 DEF ChainInv, Counted
<1>3. DOMAIN child = 1..Len(child) /\ Len(child) \in Nat /\ Len(child) = Many(plan, dynamic, at)
  BY DEF ChainInv, Formed, Along
<1>4. StartOf(plan, dynamic)[at] \in Nat /\ index = StartOf(plan, dynamic)[at] + Len(child)
  <2>1. StartOf(plan, dynamic)[at + 1] = StartOf(plan, dynamic)[at] + Many(plan, dynamic, at)
    BY <1>1, StartNow
  <2>2. StartOf(plan, dynamic)[at] \in Nat
    BY <1>1, StartNow
  <2> QED
    BY <1>2, <1>3, <2>1, <2>2
<1> QED
  BY <1>1, <1>2, <1>3, <1>4 DEF ChainInv, Along, Good, Trees

LEMMA GroupAcceptedInv == ChainInv /\ GroupAccepted => ChainInv'
<1> SUFFICES ASSUME ChainInv, GroupAccepted PROVE ChainInv'
  OBVIOUS
<1>1. /\ phase = "accept" /\ previous' = Whos /\ at' = at + 1 /\ phase' = "begin" /\ answer' = answer
      /\ plan' = plan /\ way' = way /\ index' = index /\ child' = child /\ aborted' = aborted
      /\ results' = results /\ outputs' = outputs /\ dynamic' = dynamic /\ group' = group
      /\ dir' = dir /\ begun' = begun /\ trees' = trees
  BY DEF GroupAccepted
<1>2. /\ at \in 1..Len(plan) /\ Len(plan) \in Nat /\ Done = at /\ answer = NoAnswer /\ Bound(plan)
      /\ DOMAIN child = 1..Len(child) /\ Len(child) = Many(plan, dynamic, at)
      /\ plan[at].kind = "dyn" /\ group[at] = "completed" /\ plan[at].as \in DOMAIN outputs /\ trees = {}
      /\ \A r \in 1..Len(results) : results[r].state = "ok"
  BY <1>1, AcceptNow
<1>3. at + 1 - 1 = at /\ Done' = Done
  BY <1>1, <1>2 DEF Done, NoAnswer, ByChildren
<1>4. Formed'
  BY <1>1, <1>2 DEF ChainInv, Formed
<1>5. Along'
  BY <1>1, <1>2 DEF ChainInv, Along, NoAnswer, ByChildren
<1>6. Counted'
  BY <1>1, <1>3, StillCounted
<1>7. Known'
  <2>1. \A i \in 1..Len(plan) : i > at => dynamic[i] = <<>>
    BY DEF ChainInv, Known
  <2>2. Placed(plan, dynamic)
    BY DEF ChainInv, Known
  <2> QED
    BY <1>1, <1>2, <2>1, <2>2 DEF Known
<1>8. Good' /\ Trees'
  BY <1>1, <1>2 DEF ChainInv, Good, Trees
<1>9. Left'
  <2>1. \A i \in 1..at : plan[i].kind = "dyn" => group[i] = "completed"
    <3>1. \A i \in 1..(at - 1) : plan[i].kind = "dyn" => group[i] = "completed"
      BY DEF ChainInv, Left
    <3> QED
      BY <1>2, <3>1
  <2>2. previous' = [k \in 1..Many(plan, dynamic, at) |-> <<at, k>>]
    BY <1>1, <1>2 DEF Whos
  <2>3. Before(plan, at + 1) \subseteq DOMAIN outputs
    <3>1. Names(plan[at]) = {plan[at].as}
      BY <1>2 DEF Names
    <3>2. Before(plan, at) \subseteq DOMAIN outputs
      BY DEF ChainInv, Left
    <3>3. Before(plan, at + 1) \subseteq Before(plan, at) \cup Names(plan[at])
      BY <1>2, BeforeNext
    <3> QED
      BY <1>2, <3>1, <3>2, <3>3
  <2> QED
    BY <1>1, <1>2, <1>3, <2>1, <2>2, <2>3 DEF ChainInv, Left, NoAnswer
<1> QED
  BY <1>4, <1>5, <1>6, <1>7, <1>8, <1>9 DEF ChainInv

LEMMA GroupNotAcceptedInv == ChainInv /\ GroupNotAccepted => ChainInv'
<1> SUFFICES ASSUME ChainInv, GroupNotAccepted PROVE ChainInv'
  OBVIOUS
<1>1. /\ phase = "accept" /\ phase' = "answered" /\ group' = [group EXCEPT ![at] = "failed"]
      /\ plan' = plan /\ way' = way /\ at' = at /\ index' = index /\ child' = child /\ aborted' = aborted
      /\ results' = results /\ outputs' = outputs /\ previous' = previous /\ dynamic' = dynamic
      /\ dir' = dir /\ begun' = begun /\ trees' = trees
      /\ answer' = [kind |-> IF child = <<>> THEN "refused" ELSE "failed", step |-> at, flat |-> index - Width]
  BY DEF GroupNotAccepted, Stop
<1>2. /\ at \in 1..Len(plan) /\ Len(plan) \in Nat /\ Done = at /\ answer = NoAnswer
      /\ Len(child) \in Nat /\ Len(child) = Many(plan, dynamic, at)
      /\ index = Len(results) /\ trees = {}
      /\ StartOf(plan, dynamic)[at] \in Nat /\ index = StartOf(plan, dynamic)[at] + Len(child)
      /\ \A r \in 1..Len(results) : results[r].state = "ok"
  BY <1>1, AcceptNow
<1>3. child = <<>> <=> Len(child) = 0
  BY DEF ChainInv, Formed
<1>4. /\ group' \in [1..Len(plan) -> {"none", "completed", "failed"}]
      /\ \A i \in 1..(at - 1) : group'[i] = group[i]
  <2>1. group \in [1..Len(plan) -> {"none", "completed", "failed"}]
    BY DEF ChainInv, Formed
  <2> QED
    BY <1>1, <1>2, <2>1
<1>5. Formed'
  BY <1>1, <1>4 DEF ChainInv, Formed
<1>6. Along'
  <2>1. child # <<>> => index - Width \in 0..(Len(results') - 1)
    BY <1>1, <1>2, <1>3 DEF Width
  <2> QED
    BY <1>1, <1>2, <2>1 DEF Along, ByChildren
<1>7. Counted'
  <2>1. CASE child = <<>>
    <3>1. Done' = at - 1
      BY <1>1, <2>1 DEF Done, ByChildren
    <3>2. index = StartOf(plan, dynamic)[at - 1 + 1]
      BY <1>2, <1>3, <2>1
    <3>3. \A i \in 1..(at - 1) : i \in 1..Done
      BY <1>2
    <3> QED
      BY <1>1, <1>2, <3>1, <3>2, <3>3 DEF ChainInv, Counted
  <2>2. CASE child # <<>>
    <3>1. Done' = Done
      BY <1>1, <1>2, <2>2 DEF Done, ByChildren
    <3> QED
      BY <1>1, <3>1, StillCounted
  <2> QED
    BY <2>1, <2>2
<1>8. Known'
  BY <1>1, StillKnown
<1>9. Good' /\ Trees'
  BY <1>1, <1>2 DEF Good, Trees
<1>10. Left'
  BY <1>1, <1>4 DEF ChainInv, Left
<1> QED
  BY <1>5, <1>6, <1>7, <1>8, <1>9, <1>10 DEF ChainInv

LEMMA ChainStutterInv == ChainInv /\ UNCHANGED chainVars => ChainInv'
<1> SUFFICES ASSUME ChainInv, UNCHANGED chainVars PROVE ChainInv'
  OBVIOUS
<1> USE DEF chainVars, flowVars, dataVars
<1>1. Done' = Done
  BY DEF Done
<1>2. Formed' /\ Along'
  BY DEF ChainInv, Formed, Along
<1>3. Counted' /\ Known'
  BY <1>1, StillCounted, StillKnown
<1>4. Good' /\ Left' /\ Trees'
  BY DEF ChainInv, Good, Left, Trees
<1> QED
  BY <1>2, <1>3, <1>4 DEF ChainInv

LEMMA ChainNextInv == ChainInv /\ [ChainNext]_chainVars => ChainInv'
<1> SUFFICES ASSUME ChainInv, [ChainNext]_chainVars PROVE ChainInv'
  OBVIOUS
<1>1. CASE Refused \/ Opens \/ DialogEnds \/ LaunchInBackground \/ Completes
  BY <1>1, OutsideInv
<1>2. CASE BeginSingle \/ BeginGroup \/ NotExpandable
  BY <1>2, BeginKnownInv
<1>3. CASE BeginDynamic
  BY <1>3, BeginDynamicInv
<1>4. CASE BeginEmpty
  BY <1>4, BeginEmptyInv
<1>5. CASE Skips
  BY <1>5, SkipsInv
<1>6. CASE SingleStarts \/ GroupStarts
  BY <1>6, StartsInv
<1>7. CASE \E k \in DOMAIN child : TaskEnds(k)
  BY <1>7, TaskEndsInv
<1>8. CASE Interrupt
  BY <1>8, InterruptInv
<1>9. CASE SingleStops \/ GroupStops \/ DynamicStops
  BY <1>9, StepStopsInv DEF SingleStops, GroupStops, DynamicStops
<1>10. CASE SingleDone \/ GroupDone
  BY <1>10, StepDoneInv
<1>11. CASE Collects
  BY <1>11, CollectsInv
<1>12. CASE GroupAccepted
  BY <1>12, GroupAcceptedInv
<1>13. CASE GroupNotAccepted
  BY <1>13, GroupNotAcceptedInv
<1>14. CASE UNCHANGED chainVars
  BY <1>14, ChainStutterInv
<1> QED
  BY <1>1, <1>2, <1>3, <1>4, <1>5, <1>6, <1>7, <1>8, <1>9, <1>10, <1>11, <1>12, <1>13, <1>14
     DEF ChainNext, Goes

LEMMA WordedInit == ChainInit => Worded
<1> SUFFICES ASSUME ChainInit PROVE Worded
  OBVIOUS
<1>1. Steps = 1..Len(plan)
  BY PlanFacts DEF ChainInit, Steps
<1> QED
  BY <1>1 DEF ChainInit, Worded, NoAnswer

\* Steps that edit no text, after which no child runs and no name was missing.
LEMMA WordedStill ==
  ASSUME Worded, plan' = plan, texts' = texts, phase' = "dialog" => Singles, phase' # "tasks",
         answer'.kind # "threw"
  PROVE  Worded'
<1>1. Singles' = Singles
  BY DEF Singles, Steps
<1> QED
  BY <1>1 DEF Worded

LEMMA WordedQuiet ==
  ASSUME ChainInv, Worded,
         \/ Refused \/ Opens \/ LaunchInBackground \/ Completes \/ NotExpandable \/ BeginEmpty
         \/ SingleStops \/ GroupStops \/ DynamicStops \/ SingleDone \/ GroupDone \/ Collects
         \/ GroupAccepted \/ GroupNotAccepted
  PROVE  Worded'
<1>1. CASE SingleStops \/ GroupStops \/ DynamicStops
  <2>1. StepStops
    BY <1>1 DEF SingleStops, GroupStops, DynamicStops
  <2>2. Stopping \subseteq {"paused", "detached", "failed"}
    BY DEF Stopping
  <2>3. plan' = plan /\ texts' = texts /\ phase' = "answered" /\ answer'.kind # "threw"
    BY <2>1, <2>2 DEF StepStops, Stop
  <2> QED
    BY <2>3, WordedStill
<1>2. CASE \/ Refused \/ LaunchInBackground \/ Completes \/ NotExpandable \/ GroupNotAccepted
  <2>1. plan' = plan /\ texts' = texts /\ phase' = "answered" /\ answer'.kind # "threw"
    BY <1>2 DEF Refused, LaunchInBackground, Completes, NotExpandable, GroupNotAccepted, Stop
  <2> QED
    BY <2>1, WordedStill
<1>3. CASE Opens \/ BeginEmpty \/ SingleDone \/ GroupDone \/ Collects \/ GroupAccepted
  <2>1. answer = NoAnswer
    BY <1>3 DEF Opens, BeginEmpty, Begins, SingleDone, GroupDone, AllEnded, Collects, GroupAccepted,
       ChainInv, Along
  <2>2. /\ plan' = plan /\ texts' = texts /\ phase' # "tasks" /\ (phase' = "dialog" => Singles)
        /\ answer' = answer \/ answer'.kind \in {"refused", "failed"}
    BY <1>3 DEF Opens, BeginEmpty, SingleDone, GroupDone, StepDone, Collects, GroupAccepted, Stop
  <2> QED
    BY <2>1, <2>2, WordedStill DEF NoAnswer
<1> QED
  BY <1>1, <1>2, <1>3

LEMMA WordedDialog == ASSUME ChainInv, Worded, DialogEnds PROVE Worded'
<1>1. plan' = plan /\ phase = "dialog" /\ Singles /\ answer = NoAnswer /\ Singles' = Singles
  BY DEF DialogEnds, Worded, Singles, Steps, ChainInv, Along
<1>2. phase' \notin {"dialog", "tasks"} /\ (answer' = answer \/ answer'.kind = "cancelled")
  BY <1>1 DEF DialogEnds, Stop
<1>3. CASE texts' = texts
  BY <1>1, <1>2, <1>3, WordedStill DEF NoAnswer
<1>4. CASE \E e \in [Steps -> Edits \cup {Nil}] :
             texts' = [i \in Steps |-> <<EditedBy(plan[i].tasks[1], e[i])>>]
  <2>1. PICK e : texts' = [i \in Steps |-> <<EditedBy(plan[i].tasks[1], e[i])>>]
    BY <1>4
  <2>2. Steps = 1..Len(plan)
    BY PlanNow
  <2>3. ASSUME NEW i \in 1..Len(plan)
        PROVE  DOMAIN texts'[i] = 1..1 /\ DOMAIN plan[i].tasks = 1..1
    <3>1. plan[i].kind = "seq"
      BY <1>1, <2>2 DEF Singles
    <3> QED
      BY <2>1, <2>2, <3>1, PlanNow
  <2> QED
    BY <1>1, <1>2, <2>1, <2>2, <2>3 DEF Worded, NoAnswer
<1> QED
  BY <1>3, <1>4 DEF DialogEnds

\* Where no name of the plan is missing, one of another text is.
LEMMA WordedThrow ==
  ASSUME ChainInv, Worded, phase \in {"begin", "tasks"}, at <= Len(plan),
         NEW k \in DOMAIN Tasks, Missing(k) # {}
  PROVE  Bound(plan) /\ (Singles \/ Step.kind = "dyn")
<1>1. Bound(plan)
  BY DEF ChainInv, Along
<1>2. ASSUME ~Singles, Step.kind # "dyn" PROVE FALSE
  <2>1. at \in 1..Len(plan)
    BY DoneNow, PlanNow
  <2>2. texts[at] = Step.tasks
    BY <1>2, <2>1 DEF Worded, Step
  <2> QED
    BY <1>1, <2>2, RefsNow DEF Missing, Tasks
<1> QED
  BY <1>1, <1>2

LEMMA WordedBegins == ASSUME ChainInv, Worded, BeginSingle \/ BeginGroup PROVE Worded'
<1>1. /\ plan' = plan /\ texts' = texts /\ at' = at /\ phase = "begin" /\ at <= Len(plan)
      /\ outputs' = outputs
  BY DEF BeginSingle, BeginGroup, Begins, dataVars
<1>2. answer = NoAnswer /\ at \in 1..Len(plan) /\ Bound(plan)
  BY <1>1, BeginNow
<1>3. Singles' = Singles
  BY <1>1 DEF Singles, Steps
<1>4. Step.kind # "dyn" /\ DOMAIN Tasks = 1..Len(Step.tasks) /\ (Step.kind = "seq" => Len(Step.tasks) = 1)
  BY <1>2, PlanNow DEF BeginSingle, BeginGroup, Begins, Worded, Step, Tasks
<1>5. \/ Children(Len(Step.tasks)) /\ answer' = answer
      \/ phase' = "answered" /\ answer'.kind = "refused"
      \/ phase' = "answered" /\ answer'.kind = "threw" /\ Step.kind = "seq" /\ Missing(1) # {}
  <2>1. CASE BeginSingle
    <3>1. Step.kind = "seq" /\ Len(Step.tasks) = 1
      BY <1>4, <2>1 DEF BeginSingle, Begins
    <3> QED
      BY <2>1, <3>1 DEF BeginSingle, Stop
  <2>2. CASE BeginGroup
    BY <2>2 DEF BeginGroup, Stop
  <2> QED
    BY <2>1, <2>2
<1>6. CASE Children(Len(Step.tasks)) /\ answer' = answer
  <2>1. phase' = "tasks" /\ DOMAIN child' = 1..Len(Step.tasks)
    BY <1>6 DEF Children
  <2>2. DOMAIN Tasks' = DOMAIN child'
    BY <1>1, <1>4, <2>1 DEF Tasks
  <2> QED
    BY <1>1, <1>2, <1>3, <1>6, <2>1, <2>2 DEF Worded, NoAnswer
<1>7. CASE phase' = "answered" /\ answer'.kind = "refused"
  BY <1>1, <1>7, WordedStill
<1>8. CASE phase' = "answered" /\ answer'.kind = "threw" /\ Step.kind = "seq" /\ Missing(1) # {}
  <2>1. 1 \in DOMAIN Tasks
    BY <1>4, <1>8
  <2>2. Singles \/ Step.kind = "dyn"
    BY <1>1, <1>8, <2>1, WordedThrow
  <2>3. Step' = Step /\ DOMAIN Tasks' = DOMAIN Tasks /\ Missing(1)' = Missing(1) /\ Bound(plan')
    BY <1>1, <1>2 DEF Step, Tasks, Missing
  <2>4. \E k \in DOMAIN Tasks' : Missing(k)' # {}
    BY <1>8, <2>1, <2>3
  <2> QED
    BY <1>1, <1>3, <1>8, <2>2, <2>3, <2>4 DEF Worded
<1> QED
  BY <1>5, <1>6, <1>7, <1>8

LEMMA WordedBeginsDynamic == ASSUME ChainInv, Worded, BeginDynamic PROVE Worded'
<1>1. /\ plan' = plan /\ at' = at /\ phase = "begin" /\ at <= Len(plan) /\ plan[at].kind = "dyn"
  BY DEF BeginDynamic, Begins, Step
<1>2. answer = NoAnswer /\ at \in 1..Len(plan)
  BY <1>1, BeginNow
<1>3. Singles' = Singles
  BY <1>1 DEF Singles, Steps
<1> DEFINE made(e) == [k \in DOMAIN e |-> MadeFor(Step.tasks[1], e[k])]
<1>4. PICK e \in [1..Expanded(Step) -> Items] :
        /\ texts' = [texts EXCEPT ![at] = made(e)]
        /\ \/ Children(Expanded(Step)) /\ answer' = answer
           \/ Stop("refused", index)
  BY DEF BeginDynamic
<1>5. DOMAIN texts' = DOMAIN texts /\ DOMAIN texts'[at] = 1..Expanded(Step)
      /\ \A i \in 1..Len(plan) : i # at => texts'[i] = texts[i]
  BY <1>2, <1>4 DEF Worded
<1> HIDE DEF made
<1>6. answer'.kind # "threw" /\ phase' \in {"tasks", "answered"}
  BY <1>2, <1>4 DEF NoAnswer, Children, Stop
<1>7. phase' = "tasks" => DOMAIN Tasks' = DOMAIN child'
  BY <1>1, <1>4, <1>5 DEF Children, Stop, Tasks
<1>8. ASSUME NEW i \in 1..Len(plan), plan[i].kind # "dyn" PROVE texts'[i] = texts[i]
  BY <1>1, <1>5, <1>8
<1> QED
  BY <1>1, <1>3, <1>5, <1>6, <1>7, <1>8 DEF Worded

\* Children start, end, are skipped or interrupted.
LEMMA WordedRuns ==
  ASSUME ChainInv, Worded,
         Skips \/ Interrupt \/ SingleStarts \/ GroupStarts \/ \E k \in DOMAIN child : TaskEnds(k)
  PROVE  Worded'
<1>1. plan' = plan /\ texts' = texts /\ at' = at /\ outputs' = outputs /\ phase = "tasks"
  BY DEF Skips, Interrupt, SingleStarts, GroupStarts, TaskEnds, Starting, StartsChild, dataVars
<1>2. answer = NoAnswer /\ at \in 1..Len(plan) /\ Bound(plan) /\ DOMAIN child = 1..Len(child)
  BY <1>1, TasksNow
<1>3. Singles' = Singles /\ Step' = Step /\ Tasks' = Tasks
  BY <1>1 DEF Singles, Steps, Step, Tasks
<1>4. \/ phase' = phase /\ answer' = answer /\ DOMAIN child' = DOMAIN child
      \/ /\ phase' = "answered" /\ \E k \in DOMAIN child : Missing(k) # {}
  <2>1. CASE Skips \/ Interrupt \/ \E k \in DOMAIN child : TaskEnds(k)
    BY <2>1 DEF Skips, Interrupt, TaskEnds
  <2>2. CASE SingleStarts \/ GroupStarts
    <3>1. PICK m \in DOMAIN child : StartsChild(m)
      <4>1. Min(NextUp) \in DOMAIN child
        BY <1>2, <2>2, NextUpIs DEF SingleStarts, GroupStarts, Starting
      <4>2. CASE SingleStarts
        <5>1. Len(child) = 1
          BY <1>1, <4>2, TasksNow, PlanNow DEF SingleStarts, Many, Step
        <5> QED
          BY <1>2, <4>2, <5>1 DEF SingleStarts
      <4> QED
        BY <2>2, <4>1, <4>2 DEF GroupStarts
    <3> QED
      BY <3>1 DEF StartsChild, Stop
  <2> QED
    BY <2>1, <2>2
<1>5. CASE phase' = phase /\ answer' = answer /\ DOMAIN child' = DOMAIN child
  BY <1>1, <1>2, <1>3, <1>5 DEF Worded, NoAnswer
<1>6. CASE phase' = "answered" /\ \E k \in DOMAIN child : Missing(k) # {}
  <2>1. PICK k \in DOMAIN child : Missing(k) # {}
    BY <1>6
  <2>2. k \in DOMAIN Tasks
    BY <1>1, <2>1 DEF Worded
  <2>3. Singles \/ Step.kind = "dyn"
    BY <1>1, <1>2, <2>1, <2>2, WordedThrow
  <2>4. Missing(k)' # {} /\ k \in DOMAIN Tasks' /\ Bound(plan') /\ at' <= Len(plan')
    BY <1>1, <1>2, <1>3, <2>1, <2>2 DEF Missing
  <2>5. (Singles \/ Step.kind = "dyn")' /\ \E m \in DOMAIN Tasks' : Missing(m)' # {}
    BY <1>3, <2>3, <2>4
  <2> QED
    BY <1>1, <1>3, <1>6, <2>4, <2>5 DEF Worded
<1> QED
  BY <1>4, <1>5, <1>6

LEMMA WordedStutter == ASSUME Worded, UNCHANGED chainVars PROVE Worded'
<1> USE DEF chainVars, flowVars, dataVars
<1>1. Singles' = Singles /\ Step' = Step /\ Tasks' = Tasks /\ \A k : Missing(k)' = Missing(k)
  BY DEF Singles, Steps, Step, Tasks, Missing
<1> QED
  BY <1>1 DEF Worded

LEMMA WordedNext == ChainInv /\ Worded /\ [ChainNext]_chainVars => Worded'
BY WordedQuiet, WordedDialog, WordedBegins, WordedBeginsDynamic, WordedRuns, WordedStutter
   DEF ChainNext, Goes

LEMMA ChainInvHolds == ChainSpec => [](ChainInv /\ Worded)
<1>1. ChainInit => ChainInv /\ Worded
  BY ChainInitInv, WordedInit
<1>2. ChainInv /\ Worded /\ [ChainNext]_chainVars => (ChainInv /\ Worded)'
  BY ChainNextInv, WordedNext
<1> QED
  BY <1>1, <1>2, PTL DEF ChainSpec

\* Every name that a task or a group of a chain as it was checked refers to has its output
\* when it is needed, and resolveOutputReferences throws only for a text that the dialog or
\* an item has changed; {previous} is the text of the step just before, and the notes are
\* begun once (chain-outputs.ts, chain-execution.ts): for every chain, whatever its groups
\* expand to, whatever the user writes and whatever the items say.
THEOREM NamesResolve == ChainSpec => []TextsHold
BY ChainInvHolds, TextsNow, PTL

\* How a chain ends agrees with how its children ended: completed only when all of them ran
\* once, in order, and succeeded, paused when a child heard its interrupt, and without
\* worktrees left (chain-execution.ts).
THEOREM ChainsEndTruly == ChainSpec => []Ending
BY ChainInvHolds, EndingNow, PTL

\* The flat indices that the loop, the dynamic groups, the graph and the launch in the
\* background count separately agree (chain-execution.ts, workflow-graph.ts,
\* async-execution.ts).
THEOREM FlatNumbersAgree == ChainSpec => []NumbersAgree
BY ChainInvHolds, NumbersNow, PTL

(***************************** ResultDelivery ******************************)

One(b) == IF b THEN 1 ELSE 0
Announced(r) == notified[r] + misdelivered[r]

\* The current instance can still send it over the intercom.
Unsent(r) == loaded /\ r \in file /\ <<r, load>> \notin handling

Credit == \A r \in Run : Announced(r) + One(Owed(r)) <= written[r] + kept[r]
IntercomCredit == \A r \in Run : sent[r] + One(Unsent(r)) <= written[r] + kept[r]

\* What the two dedupe maps stand for.
Dedupe ==
  \A r \in Run :
    /\ r \in notifySeen => Announced(r) > 0
    /\ r \in seen => Announced(r) > 0 \/ Handling(r)
    /\ <<r, load>> \in handling => r \in seen

Inv == TypeOK /\ Credit /\ IntercomCredit /\ Dedupe /\ RemovedMeansAnnounced

USE DEF One, Announced, failures, historyVars, instanceVars

\* Every counter of a run is a natural number, before and after a step.
LEMMA Counts ==
  ASSUME TypeOK, NEW q \in Run
  PROVE  /\ notified[q] \in Nat /\ misdelivered[q] \in Nat /\ written[q] \in Nat
         /\ kept[q] \in Nat /\ sent[q] \in Nat /\ load \in Nat
BY DEF TypeOK

LEMMA InitInv == Init => Inv
<1> SUFFICES ASSUME Init PROVE Inv
  OBVIOUS
<1> USE DeliveryAssumption DEF Init
<1>1. TypeOK
  <2>1. 0 \in 0..MaxWrites /\ 0 \in 0..MaxLoads /\ 0 \in 0..MaxFailures /\ 0 \in Nat
    OBVIOUS
  <2>2. /\ written \in [Run -> 0..MaxWrites]
        /\ enrichFailed \in [Run -> 0..MaxFailures] /\ kept \in [Run -> 0..MaxFailures]
        /\ sent \in [Run -> Nat] /\ notified \in [Run -> Nat] /\ misdelivered \in [Run -> Nat]
    BY <2>1
  <2> QED
    BY <2>1, <2>2 DEF TypeOK
<1>2. Credit /\ IntercomCredit /\ Dedupe /\ RemovedMeansAnnounced
  BY DEF Credit, IntercomCredit, Dedupe, RemovedMeansAnnounced, Owed, Unsent, Handling
<1> QED
  BY <1>1, <1>2 DEF Inv

\* The result is written once more.
LEMMA WriteInv == ASSUME Inv, NEW r \in Run, WriteResult(r) PROVE Inv'
<1> USE DEF WriteResult
<1>1. TypeOK'
  BY DeliveryAssumption DEF Inv, TypeOK
<1>2. Credit'
  <2> SUFFICES ASSUME NEW q \in Run
               PROVE  (Announced(q) + One(Owed(q)) <= written[q] + kept[q])'
    BY DEF Credit
  <2>1. Announced(q) + One(Owed(q)) <= written[q] + kept[q]
    BY DEF Inv, Credit
  <2>2. /\ Announced(q)' = Announced(q) /\ kept'[q] = kept[q]
        /\ written'[q] = IF q = r THEN written[q] + 1 ELSE written[q]
    BY DEF Inv, TypeOK
  <2>3. q # r => Owed(q)' = Owed(q)
    BY DEF Owed, Handling
  <2> QED
    BY <2>1, <2>2, <2>3, Counts DEF Inv
<1>3. IntercomCredit'
  BY DEF Inv, TypeOK, IntercomCredit, Unsent
<1>4. Dedupe' /\ RemovedMeansAnnounced'
  BY DEF Inv, TypeOK, Dedupe, RemovedMeansAnnounced, Handling
<1> QED
  BY <1>1, <1>2, <1>3, <1>4 DEF Inv

\* The life of the instances and of their watchers.
LEMMA LoadInv == Inv /\ Load => Inv'
<1> SUFFICES ASSUME Inv, Load PROVE Inv'
  OBVIOUS
<1> USE DEF Load
<1>1. TypeOK'
  BY DeliveryAssumption DEF Inv, TypeOK, WatcherStarts
<1>2. Credit'
  BY DEF Inv, TypeOK, Credit, Owed, Handling
<1>3. IntercomCredit'
  BY DEF Inv, TypeOK, IntercomCredit, Credit, Owed, Unsent
<1>4. \A q \in Run : <<q, load'>> \notin handling'
  BY Counts DEF Inv, TypeOK
<1>5. Dedupe' /\ RemovedMeansAnnounced'
  BY <1>4 DEF Inv, Dedupe, RemovedMeansAnnounced, Handling
<1> QED
  BY <1>1, <1>2, <1>3, <1>5 DEF Inv

LEMMA SessionInv == Inv /\ ((\E s \in Session : SessionStart(s)) \/ Shutdown) => Inv'
<1> SUFFICES ASSUME Inv, (\E s \in Session : SessionStart(s)) \/ Shutdown PROVE Inv'
  OBVIOUS
<1> USE DEF SessionStart, Shutdown
<1>1. TypeOK'
  BY DeliveryAssumption DEF Inv, TypeOK
<1>2. Credit'
  BY DEF Inv, TypeOK, Credit, Owed, Handling
<1>3. IntercomCredit'
  BY DEF Inv, TypeOK, IntercomCredit, Unsent
<1>4. Dedupe' /\ RemovedMeansAnnounced'
  BY DEF Inv, TypeOK, Dedupe, RemovedMeansAnnounced, Handling
<1> QED
  BY <1>1, <1>2, <1>3, <1>4 DEF Inv

LEMMA ExitInv == Inv /\ Exit => Inv'
<1> SUFFICES ASSUME Inv, Exit PROVE Inv'
  OBVIOUS
<1> USE DEF Exit
<1>1. TypeOK'
  BY DeliveryAssumption DEF Inv, TypeOK
<1>2. Credit'
  BY DEF Inv, TypeOK, Credit, Owed, Handling
<1>3. IntercomCredit'
  <2> SUFFICES ASSUME NEW q \in Run
               PROVE  (sent[q] + One(Unsent(q)) <= written[q] + kept[q])'
    BY DEF IntercomCredit
  <2>1. sent[q] + One(Unsent(q)) <= written[q] + kept[q]
    BY DEF Inv, IntercomCredit
  <2>2. ~Unsent(q)'
    BY DEF Unsent
  <2> QED
    BY <2>1, <2>2, Counts DEF Inv
<1>4. Dedupe' /\ RemovedMeansAnnounced'
  BY DEF Inv, TypeOK, Dedupe, RemovedMeansAnnounced, Handling
<1> QED
  BY <1>1, <1>2, <1>3, <1>4 DEF Inv

LEMMA WatcherInv == Inv /\ (WatcherFails \/ RestartWatcher \/ Poll) => Inv'
<1> SUFFICES ASSUME Inv, WatcherFails \/ RestartWatcher \/ Poll PROVE Inv'
  OBVIOUS
<1> USE DEF WatcherFails, RestartWatcher, WatcherStarts, Poll
<1>1. TypeOK'
  BY DeliveryAssumption DEF Inv, TypeOK
<1>2. Credit'
  BY DEF Inv, TypeOK, Credit, Owed, Handling
<1>3. IntercomCredit'
  BY DEF Inv, TypeOK, IntercomCredit, Unsent
<1>4. Dedupe' /\ RemovedMeansAnnounced'
  BY DEF Inv, TypeOK, Dedupe, RemovedMeansAnnounced, Handling
<1> QED
  BY <1>1, <1>2, <1>3, <1>4 DEF Inv

LEMMA QuietHandlerInv == ASSUME Inv, NEW r \in Run, Ignore(r) \/ EnrichmentFails(r) PROVE Inv'
<1> USE DEF Ignore, EnrichmentFails
<1>1. TypeOK'
  BY DeliveryAssumption DEF Inv, TypeOK
<1>2. Credit'
  BY DEF Inv, TypeOK, Credit, Owed, Handling
<1>3. IntercomCredit'
  BY DEF Inv, TypeOK, IntercomCredit, Unsent
<1>4. Dedupe' /\ RemovedMeansAnnounced'
  BY DEF Inv, TypeOK, Dedupe, RemovedMeansAnnounced, Handling
<1> QED
  BY <1>1, <1>2, <1>3, <1>4 DEF Inv

LEMMA DropInv == ASSUME Inv, NEW r \in Run, DropDuplicate(r) PROVE Inv'
<1> USE DEF DropDuplicate, Unlink
<1>1. TypeOK'
  BY DeliveryAssumption DEF Inv, TypeOK
<1>2. Credit'
  BY DEF Inv, TypeOK, Credit, Owed, Handling
<1>3. IntercomCredit'
  BY DEF Inv, TypeOK, IntercomCredit, Unsent
<1>4. Dedupe' /\ RemovedMeansAnnounced'
  BY DEF Inv, TypeOK, Dedupe, RemovedMeansAnnounced, Handling
<1> QED
  BY <1>1, <1>2, <1>3, <1>4 DEF Inv

LEMMA SendInv == ASSUME Inv, NEW r \in Run, SendIntercom(r) PROVE Inv'
<1> USE DEF SendIntercom
<1>1. TypeOK' /\ loaded
  <2>1. loaded /\ load \in 1..load
    <3>1. loaded
      BY DEF Inv, TypeOK, Accepts
    <3> QED
      BY <3>1 DEF Inv, TypeOK
  <2>2. sent' \in [Run -> Nat]
    BY DEF Inv, TypeOK
  <2>3. handling' \subseteq Run \X (1..load)
    BY <2>1 DEF Inv, TypeOK
  <2> QED
    BY <2>1, <2>2, <2>3 DEF Inv, TypeOK
<1>2. Credit'
  BY DEF Inv, TypeOK, Credit, Owed, Handling
<1>3. IntercomCredit'
  BY <1>1 DEF Inv, TypeOK, IntercomCredit, Dedupe, Unsent
<1>4. Dedupe' /\ RemovedMeansAnnounced'
  BY <1>1 DEF Inv, TypeOK, Dedupe, RemovedMeansAnnounced, Handling
<1> QED
  BY <1>1, <1>2, <1>3, <1>4 DEF Inv

\* A notification spends one credit unless the run was notified before, and one
\* failed removal grants one.
LEMMA NotifyCounts ==
  ASSUME TypeOK, NEW r \in Run, Notify(r), NEW q \in Run
  PROVE  Announced(q)' = IF q = r /\ r \notin notifySeen THEN Announced(q) + 1 ELSE Announced(q)
BY Counts DEF Notify, TypeOK

LEMMA UnlinkCounts ==
  ASSUME TypeOK, NEW r \in Run, Unlink(r), NEW q \in Run
  PROVE  /\ q # r => kept'[q] = kept[q] /\ (q \in file' <=> q \in file)
         /\ \/ kept'[r] = kept[r] /\ r \notin file'
            \/ kept'[r] = kept[r] + 1 /\ r \in file'
BY Counts DEF Unlink, TypeOK

LEMMA AnnounceInv == ASSUME Inv, NEW r \in Run, Announce(r) PROVE Inv'
<1> USE DEF Announce, Notify, Unlink
<1>1. TypeOK'
  BY DeliveryAssumption DEF Inv, TypeOK
<1>2. Credit'
  <2> SUFFICES ASSUME NEW q \in Run
               PROVE  (Announced(q) + One(Owed(q)) <= written[q] + kept[q])'
    BY DEF Credit
  <2>1. Announced(q) + One(Owed(q)) <= written[q] + kept[q] /\ Owed(r)
    BY DEF Inv, Credit, Owed
  <2>2. Announced(q)' = IF q = r /\ r \notin notifySeen THEN Announced(q) + 1 ELSE Announced(q)
    BY NotifyCounts DEF Inv
  <2>3. /\ q # r => kept'[q] = kept[q] /\ (q \in file' <=> q \in file)
        /\ \/ kept'[r] = kept[r] /\ r \notin file'
           \/ kept'[r] = kept[r] + 1 /\ r \in file'
    BY UnlinkCounts DEF Inv
  <2>4. q # r => Owed(q)' = Owed(q)
    BY <2>3 DEF Owed, Handling, Inv, TypeOK
  <2>5. r \notin file' => ~Owed(r)'
    BY DEF Owed, Inv, TypeOK
  <2> QED
    BY <2>1, <2>2, <2>3, <2>4, <2>5, Counts DEF Inv
<1>3. IntercomCredit'
  BY DEF Inv, TypeOK, IntercomCredit, Unsent
<1>4. Dedupe' /\ RemovedMeansAnnounced'
  <2> SUFFICES ASSUME NEW q \in Run
               PROVE  /\ q \in notifySeen' => Announced(q)' > 0
                      /\ q \in seen' => Announced(q)' > 0 \/ Handling(q)'
                      /\ <<q, load'>> \in handling' => q \in seen'
                      /\ (written'[q] > 0 /\ q \notin file')
                           => Announced(q)' > 0 \/ Handling(q)' \/ q \in lost'
    BY DEF Dedupe, RemovedMeansAnnounced
  <2>1. /\ q \in notifySeen => Announced(q) > 0
        /\ q \in seen => Announced(q) > 0 \/ Handling(q)
        /\ <<q, load>> \in handling => q \in seen
        /\ (written[q] > 0 /\ q \notin file) => Announced(q) > 0 \/ Handling(q) \/ q \in lost
    BY DEF Inv, Dedupe, RemovedMeansAnnounced
  <2>2. Announced(q)' = IF q = r /\ r \notin notifySeen THEN Announced(q) + 1 ELSE Announced(q)
    BY NotifyCounts DEF Inv
  <2>3. Handling(q)' = Handling(q)
    BY DEF Handling
  <2>4. Announced(q) \in Nat
    BY Counts DEF Inv
  <2>5. Announced(r)' > 0
    <3>1. Announced(r)' = IF r \notin notifySeen THEN Announced(r) + 1 ELSE Announced(r)
      BY NotifyCounts DEF Inv
    <3>2. r \in notifySeen => Announced(r) > 0
      BY DEF Inv, Dedupe
    <3>3. Announced(r) \in Nat
      BY Counts DEF Inv
    <3> HIDE DEF Announced, Announce, Acknowledged, Notify, Unlink
    <3> QED
      BY <3>1, <3>2, <3>3
  <2>6. q # r => /\ q \in notifySeen' <=> q \in notifySeen
                 /\ q \in seen' <=> q \in seen
                 /\ q \in file' <=> q \in file
    BY DEF Inv, TypeOK
  <2>7. /\ load' = load /\ lost' = lost /\ written' = written
        /\ <<q, load>> \in handling' => <<q, load>> \in handling
        /\ seen \subseteq seen'
    BY DEF Inv, TypeOK
  <2> HIDE DEF Announced, Announce, Acknowledged, Notify, Unlink
  <2> QED
    BY <2>1, <2>2, <2>3, <2>4, <2>5, <2>6, <2>7
<1> QED
  BY <1>1, <1>2, <1>3, <1>4 DEF Inv

LEMMA AcknowledgedInv ==
  ASSUME Inv, NEW r \in Run, NEW n \in 1..MaxLoads, Acknowledged(r, n) PROVE Inv'
<1> USE DEF Acknowledged, Notify, Unlink
<1>1. TypeOK'
  BY DeliveryAssumption DEF Inv, TypeOK
<1>2. Credit'
  <2> SUFFICES ASSUME NEW q \in Run
               PROVE  (Announced(q) + One(Owed(q)) <= written[q] + kept[q])'
    BY DEF Credit
  <2>1. Announced(q) + One(Owed(q)) <= written[q] + kept[q]
    BY DEF Inv, Credit
  <2>2. Announced(q)' = IF q = r /\ r \notin notifySeen THEN Announced(q) + 1 ELSE Announced(q)
    BY NotifyCounts DEF Inv
  <2>3. /\ q # r => kept'[q] = kept[q] /\ (q \in file' <=> q \in file)
        /\ \/ kept'[r] = kept[r] /\ r \notin file'
           \/ kept'[r] = kept[r] + 1 /\ r \in file'
    BY UnlinkCounts DEF Inv
  <2>4. Handling(r) /\ (q # r => Handling(q)' = Handling(q))
    BY DEF Handling
  <2>5. q # r => (q \in notifySeen' <=> q \in notifySeen)
    BY DEF Inv, TypeOK
  <2>6. r \notin notifySeen => Owed(r)
    BY <2>4 DEF Owed
  <2>7. r \in notifySeen'
    BY DEF Inv, TypeOK
  <2>8. r \notin file' => ~Owed(r)'
    BY <2>7 DEF Owed
  <2>9. r \in file' => r \in file
    BY DEF Inv, TypeOK
  <2>10. q # r => Owed(q)' = Owed(q)
    BY <2>3, <2>4, <2>5 DEF Owed
  <2> HIDE DEF Acknowledged, Notify, Unlink
  <2>11. written' = written
    BY DEF Acknowledged
  <2>12. r \in file => Owed(r)
    BY DEF Owed
  <2> QED
    BY <2>1, <2>2, <2>3, <2>6, <2>8, <2>9, <2>10, <2>11, <2>12, Counts DEF Inv
<1>3. IntercomCredit'
  BY DEF Inv, TypeOK, IntercomCredit, Unsent
<1>4. Dedupe' /\ RemovedMeansAnnounced'
  <2> SUFFICES ASSUME NEW q \in Run
               PROVE  /\ q \in notifySeen' => Announced(q)' > 0
                      /\ q \in seen' => Announced(q)' > 0 \/ Handling(q)'
                      /\ <<q, load'>> \in handling' => q \in seen'
                      /\ (written'[q] > 0 /\ q \notin file')
                           => Announced(q)' > 0 \/ Handling(q)' \/ q \in lost'
    BY DEF Dedupe, RemovedMeansAnnounced
  <2>1. /\ q \in notifySeen => Announced(q) > 0
        /\ q \in seen => Announced(q) > 0 \/ Handling(q)
        /\ <<q, load>> \in handling => q \in seen
        /\ (written[q] > 0 /\ q \notin file) => Announced(q) > 0 \/ Handling(q) \/ q \in lost
    BY DEF Inv, Dedupe, RemovedMeansAnnounced
  <2>2. Announced(q)' = IF q = r /\ r \notin notifySeen THEN Announced(q) + 1 ELSE Announced(q)
    BY NotifyCounts DEF Inv
  <2>3. q # r => Handling(q)' = Handling(q)
    BY DEF Handling
  <2>4. Announced(q) \in Nat
    BY Counts DEF Inv
  <2>5. Announced(r)' > 0
    <3>1. Announced(r)' = IF r \notin notifySeen THEN Announced(r) + 1 ELSE Announced(r)
      BY NotifyCounts DEF Inv
    <3>2. r \in notifySeen => Announced(r) > 0
      BY DEF Inv, Dedupe
    <3>3. Announced(r) \in Nat
      BY Counts DEF Inv
    <3> HIDE DEF Announced, Announce, Acknowledged, Notify, Unlink
    <3> QED
      BY <3>1, <3>2, <3>3
  <2>6. q # r => /\ q \in notifySeen' <=> q \in notifySeen
                 /\ q \in seen' <=> q \in seen
                 /\ q \in file' <=> q \in file
    BY DEF Inv, TypeOK
  <2>7. /\ load' = load /\ lost' = lost /\ written' = written
        /\ <<q, load>> \in handling' => <<q, load>> \in handling
        /\ seen \subseteq seen'
    BY DEF Inv, TypeOK
  <2> HIDE DEF Announced, Announce, Acknowledged, Notify, Unlink
  <2> QED
    BY <2>1, <2>2, <2>3, <2>4, <2>5, <2>6, <2>7
<1> QED
  BY <1>1, <1>2, <1>3, <1>4 DEF Inv

LEMMA ForgetInv == ASSUME Inv, NEW r \in Run, Forget(r) PROVE Inv'
<1> USE DEF Forget
<1>1. TypeOK'
  BY DeliveryAssumption DEF Inv, TypeOK
<1>2. ~Handling(r)
  BY DEF Inv, TypeOK, Handling
<1>3. Credit'
  BY <1>2 DEF Inv, TypeOK, Credit, Owed, Handling
<1>4. IntercomCredit'
  BY DEF Inv, TypeOK, IntercomCredit, Unsent
<1>5. Dedupe' /\ RemovedMeansAnnounced'
  BY <1>2 DEF Inv, TypeOK, Dedupe, RemovedMeansAnnounced, Handling
<1> QED
  BY <1>1, <1>3, <1>4, <1>5 DEF Inv

LEMMA StutterInv == Inv /\ UNCHANGED vars => Inv'
<1> SUFFICES ASSUME Inv, UNCHANGED vars PROVE Inv'
  OBVIOUS
<1> USE DEF vars
<1>1. TypeOK'
  BY DEF Inv, TypeOK
<1>2. Credit' /\ IntercomCredit'
  BY DEF Inv, Credit, IntercomCredit, Owed, Unsent, Handling
<1>3. Dedupe' /\ RemovedMeansAnnounced'
  BY DEF Inv, Dedupe, RemovedMeansAnnounced, Handling
<1> QED
  BY <1>1, <1>2, <1>3 DEF Inv

LEMMA NextInv == Inv /\ [Next]_vars => Inv'
BY WriteInv, LoadInv, SessionInv, ExitInv, WatcherInv, QuietHandlerInv, DropInv, SendInv,
   AnnounceInv, AcknowledgedInv, ForgetInv, StutterInv DEF Next, Handle

\* The delivery keeps its types, and an instance that is gone leaves no watcher,
\* timer or session behind.
THEOREM TypeCorrect == Spec => []TypeOK
<1>1. Inv => TypeOK
  BY DEF Inv
<1> QED
  BY InitInv, NextInv, <1>1, PTL DEF Spec

\* No result is announced more often than it was written or failed to go.
THEOREM AtMostOncePerWrite == Spec => []AnnouncedOncePerWrite
<1>1. Inv => AnnouncedOncePerWrite
  BY DEF Inv, TypeOK, Credit, AnnouncedOncePerWrite
<1> QED
  BY InitInv, NextInv, <1>1, PTL DEF Spec

\* No result file goes without an announcement, but for a host that dies.
THEOREM NoSilentRemoval == Spec => []RemovedMeansAnnounced
<1>1. Inv => RemovedMeansAnnounced
  BY DEF Inv
<1> QED
  BY InitInv, NextInv, <1>1, PTL DEF Spec

\* An instance sends a written result over the intercom at most once.
THEOREM IntercomAtMostOnce == Spec => []IntercomOncePerResult
<1>1. Inv => IntercomOncePerResult
  BY DEF Inv, TypeOK, IntercomCredit, IntercomOncePerResult
<1> QED
  BY InitInv, NextInv, <1>1, PTL DEF Spec

\* No session removes the result of another one.
THEOREM ResultsAreTheirOwners == Spec => OthersResultsUntouched
<1>1. Inv /\ [Next]_vars =>
        [\A r \in Run :
           (session # None /\ Owner[r] \notin {session, Unscoped} /\ r \in file /\ ~Handling(r))
             => r \in file']_vars
  <2> SUFFICES ASSUME Next, NEW r \in Run, Owner[r] \notin {session, Unscoped}, r \in file,
                      ~Handling(r)
               PROVE  r \in file'
    OBVIOUS
  <2>1. CASE \E q \in Run : WriteResult(q) \/ Handle(q) \/ Forget(q)
    BY <2>1 DEF WriteResult, Handle, Ignore, EnrichmentFails, DropDuplicate, SendIntercom,
       Announce, Forget, Unlink, Accepts
  <2>2. CASE \E q \in Run, n \in 1..MaxLoads : Acknowledged(q, n)
    BY <2>2 DEF Acknowledged, Unlink, Handling
  <2>3. CASE Load \/ (\E s \in Session : SessionStart(s)) \/ Shutdown \/ Exit
             \/ WatcherFails \/ RestartWatcher \/ Poll
    BY <2>3 DEF Load, SessionStart, Shutdown, Exit, WatcherFails, RestartWatcher, Poll
  <2> QED
    BY <2>1, <2>2, <2>3 DEF Next
<1> QED
  BY InitInv, NextInv, <1>1, PTL DEF Spec, OthersResultsUntouched

\* For any runs, sessions and faults, results are announced at most once per write and never
\* removed unannounced.
THEOREM ResultsAreHeld == Spec => []ResultsHold
  BY TypeCorrect, AtMostOncePerWrite, NoSilentRemoval, IntercomAtMostOnce, PTL DEF ResultsHold

\* What the outbox counts of a run, and the runs that are owed.
ToldOf == [r \in Run |-> notified[r] + misdelivered[r]]
OwedRuns == {r \in Run : Owed(r)}

\* Nothing that the outbox speaks of.
OutboxSame == UNCHANGED <<written, kept, lost>> /\ ToldOf' = ToldOf /\ OwedRuns' = OwedRuns
OutboxStep == Promised!OutboxNext \/ OutboxSame

LEMMA InitOutbox == Init => Promised!OutboxInit
<1> SUFFICES ASSUME Init PROVE Promised!OutboxInit
  OBVIOUS
<1>1. {r \in Run : Owed(r)} = {}
  BY DEF Init, Owed, Handling
<1>2. [r \in Run |-> notified[r] + misdelivered[r]] = [r \in Run |-> 0]
  BY DEF Init
<1> QED
  BY <1>1, <1>2 DEF Init, Promised!OutboxInit

\* A step that tells nothing and leaves files, handlers and the map of notify.ts alone.
LEMMA QuietOutbox ==
  ASSUME UNCHANGED <<written, kept, lost, notified, misdelivered, file, handling, notifySeen>>
  PROVE  OutboxStep
BY DEF OutboxStep, OutboxSame, ToldOf, OwedRuns, Owed, Handling

LEMMA WriteOutbox == ASSUME Inv, NEW r \in Run, WriteResult(r) PROVE OutboxStep
<1>1. OwedRuns' = OwedRuns \cup {r} /\ ToldOf' = ToldOf
  BY DEF WriteResult, OwedRuns, Owed, Handling, ToldOf
<1>2. Promised!Post(r)
  BY <1>1 DEF Promised!Post, WriteResult, OwedRuns, ToldOf
<1> QED
  BY <1>2 DEF OutboxStep, Promised!OutboxNext

\* The host dies: what its handlers held and has no file is owed no longer.
LEMMA ExitOutbox == ASSUME Inv, Exit PROVE OutboxStep
<1> DEFINE hands == {r \in Run : Handling(r) /\ r \notin file}
<1>1. OwedRuns' = OwedRuns \ hands
  BY DEF Inv, TypeOK, Exit, OwedRuns, Owed, Handling
<1>2. lost' = lost \cup hands /\ hands \in SUBSET Run /\ ToldOf' = ToldOf
  BY DEF Exit, ToldOf
<1> HIDE DEF hands
<1>3. Promised!Lose
  BY <1>1, <1>2 DEF Promised!Lose, Exit, OwedRuns, ToldOf
<1> QED
  BY <1>3 DEF OutboxStep, Promised!OutboxNext

\* A message over the intercom goes while the file is there.
LEMMA SendOutbox == ASSUME Inv, NEW r \in Run, SendIntercom(r) PROVE OutboxStep
<1>1. \A q \in Run : Owed(q)' = Owed(q)
  BY DEF Inv, TypeOK, SendIntercom, Owed, Handling
<1>2. OwedRuns' = OwedRuns /\ ToldOf' = ToldOf
  BY <1>1 DEF OwedRuns, ToldOf, SendIntercom
<1> QED
  BY <1>2 DEF OutboxStep, OutboxSame, SendIntercom

\* A key is forgotten only when nobody handles its run.
LEMMA ForgetOutbox == ASSUME Inv, NEW r \in Run, Forget(r) PROVE OutboxStep
<1>1. ~Handling(r) /\ ~Handling(r)'
  BY DEF Inv, TypeOK, Forget, Handling
<1>2. \A q \in Run : Owed(q)' = Owed(q)
  BY <1>1 DEF Forget, Owed, Handling
<1>3. OwedRuns' = OwedRuns /\ ToldOf' = ToldOf
  BY <1>2 DEF OwedRuns, ToldOf, Forget
<1> QED
  BY <1>3 DEF OutboxStep, OutboxSame, Forget

\* What becomes of a run that is owed no longer, or whose file stays.
LEMMA ToldOrSettled ==
  ASSUME Inv, NEW r \in Run, Owed(r), UNCHANGED <<written, lost>>,
         \A q \in Run : q # r => Owed(q)' = Owed(q),
         \/ kept' = kept /\ ~Owed(r)'
         \/ kept' = [kept EXCEPT ![r] = @ + 1] /\ Owed(r)',
         \/ ToldOf' = [ToldOf EXCEPT ![r] = @ + 1]
         \/ ToldOf' = ToldOf /\ (kept' = kept => Announced(r) > 0)
  PROVE  OutboxStep
<1>1. r \in OwedRuns /\ ToldOf[r] = Announced(r)
  BY DEF OwedRuns, ToldOf
<1>2. CASE kept' = kept /\ ~Owed(r)'
  <2>1. OwedRuns' = OwedRuns \ {r}
    BY <1>2 DEF OwedRuns
  <2>2. Promised!Tell(r) \/ Promised!Settle(r)
    BY <1>1, <1>2, <2>1 DEF Promised!Tell, Promised!Settle, OwedRuns, ToldOf
  <2> QED
    BY <2>2 DEF OutboxStep, Promised!OutboxNext
<1>3. CASE kept' = [kept EXCEPT ![r] = @ + 1] /\ Owed(r)'
  <2>1. OwedRuns' = OwedRuns
    BY <1>3 DEF OwedRuns
  <2>2. Promised!TellAndKeep(r) \/ Promised!Keep(r)
    BY <1>1, <1>3, <2>1 DEF Promised!TellAndKeep, Promised!Keep, OwedRuns, ToldOf
  <2> QED
    BY <2>2 DEF OutboxStep, Promised!OutboxNext
<1> QED
  BY <1>2, <1>3

\* A duplicate goes: it was announced, unless a handler waits that will.
LEMMA DropOutbox == ASSUME Inv, NEW r \in Run, DropDuplicate(r) PROVE OutboxStep
<1>1. /\ UNCHANGED <<written, lost, notified, misdelivered, handling, notifySeen>> /\ Unlink(r)
      /\ r \in file /\ r \in seen
  BY DEF DropDuplicate
<1>2. Owed(r) /\ \A q \in Run : q # r => Owed(q)' = Owed(q)
  BY <1>1 DEF Owed, Handling, Unlink
<1>3. ToldOf' = ToldOf
  BY <1>1 DEF ToldOf
<1>4. CASE kept' = kept /\ Owed(r)'
  <2>1. OwedRuns' = OwedRuns
    BY <1>2, <1>4 DEF OwedRuns
  <2> QED
    BY <1>1, <1>3, <1>4, <2>1 DEF OutboxStep, OutboxSame
<1>5. CASE kept' = kept /\ ~Owed(r)'
  <2>1. r \in notifySeen \/ ~Handling(r)
    BY <1>1, <1>5 DEF Owed, Handling
  <2>2. Announced(r) > 0
    BY <1>1, <2>1 DEF Inv, Dedupe
  <2> QED
    BY <1>1, <1>2, <1>3, <1>5, <2>2, ToldOrSettled
<1>6. CASE kept' = [kept EXCEPT ![r] = @ + 1] /\ Owed(r)'
  <2>1. kept' # kept
    BY <1>6, Counts DEF Inv, TypeOK
  <2> QED
    BY <1>1, <1>2, <1>3, <1>6, <2>1, ToldOrSettled
<1>7. \/ kept' = kept
      \/ kept' = [kept EXCEPT ![r] = @ + 1] /\ Owed(r)'
  BY <1>1 DEF Unlink, Owed
<1> QED
  BY <1>4, <1>5, <1>6, <1>7

\* Notify tells the session, unless it was told.
LEMMA NotifyTells ==
  ASSUME Inv, NEW r \in Run, Notify(r)
  PROVE  /\ r \in notifySeen' /\ \A q \in Run : q # r => (q \in notifySeen' <=> q \in notifySeen)
         /\ r \notin notifySeen => ToldOf' = [ToldOf EXCEPT ![r] = @ + 1]
         /\ r \in notifySeen => ToldOf' = ToldOf /\ Announced(r) > 0
<1>1. r \in notifySeen' /\ \A q \in Run : q # r => (q \in notifySeen' <=> q \in notifySeen)
  BY DEF Notify
<1>2. ASSUME r \notin notifySeen PROVE ToldOf' = [ToldOf EXCEPT ![r] = @ + 1]
  <2>1. \A q \in Run : Announced(q)' = IF q = r THEN Announced(q) + 1 ELSE Announced(q)
    BY <1>2, NotifyCounts DEF Inv
  <2>2. ToldOf' = [q \in Run |-> Announced(q)'] /\ ToldOf = [q \in Run |-> Announced(q)]
    BY DEF ToldOf
  <2> HIDE DEF Announced
  <2> QED
    BY <2>1, <2>2
<1>3. r \in notifySeen => ToldOf' = ToldOf /\ Announced(r) > 0
  BY DEF Notify, ToldOf, Inv, Dedupe
<1> QED
  BY <1>1, <1>2, <1>3

LEMMA AnnounceOutbox == ASSUME Inv, NEW r \in Run, Announce(r) PROVE OutboxStep
<1>1. Notify(r) /\ Unlink(r) /\ UNCHANGED <<written, lost, handling>> /\ r \in file
  BY DEF Announce
<1>2. /\ r \in notifySeen' /\ \A q \in Run : q # r => (q \in notifySeen' <=> q \in notifySeen)
      /\ \/ ToldOf' = [ToldOf EXCEPT ![r] = @ + 1]
         \/ ToldOf' = ToldOf /\ Announced(r) > 0
  BY <1>1, NotifyTells
<1>3. /\ \A q \in Run : q # r => (q \in file' <=> q \in file)
      /\ \/ kept' = kept /\ r \notin file'
         \/ kept' = [kept EXCEPT ![r] = @ + 1] /\ r \in file'
  BY <1>1 DEF Unlink
<1>4. Owed(r) /\ \A q \in Run : q # r => Owed(q)' = Owed(q)
  BY <1>1, <1>2, <1>3 DEF Owed, Handling
<1>5. \/ kept' = kept /\ ~Owed(r)'
      \/ kept' = [kept EXCEPT ![r] = @ + 1] /\ Owed(r)'
  BY <1>2, <1>3 DEF Owed
<1> QED
  BY <1>1, <1>2, <1>4, <1>5, ToldOrSettled

\* The handler that waited announces the result if nobody has, and what it finds of the
\* file goes.
LEMMA AcknowledgedOutbox ==
  ASSUME Inv, NEW r \in Run, NEW n \in 1..MaxLoads, Acknowledged(r, n) PROVE OutboxStep
<1>1. Notify(r) /\ Unlink(r) /\ UNCHANGED <<written, lost>> /\ Handling(r)
  BY DEF Acknowledged, Handling
<1>2. /\ r \in notifySeen' /\ \A q \in Run : q # r => (q \in notifySeen' <=> q \in notifySeen)
      /\ r \notin notifySeen => ToldOf' = [ToldOf EXCEPT ![r] = @ + 1]
      /\ r \in notifySeen => ToldOf' = ToldOf /\ Announced(r) > 0
  BY <1>1, NotifyTells
<1>3. /\ \A q \in Run : q # r => (q \in file' <=> q \in file)
      /\ \/ kept' = kept /\ r \notin file'
         \/ kept' = [kept EXCEPT ![r] = @ + 1] /\ r \in file' /\ r \in file
  BY <1>1 DEF Unlink
<1>4. \A q \in Run : q # r => Owed(q)' = Owed(q)
  <2>1. \A q \in Run : q # r => Handling(q)' = Handling(q)
    BY DEF Acknowledged, Handling
  <2> QED
    BY <1>2, <1>3, <2>1 DEF Owed
<1>5. \/ kept' = kept /\ ~Owed(r)'
      \/ kept' = [kept EXCEPT ![r] = @ + 1] /\ Owed(r)'
  BY <1>2, <1>3 DEF Owed
<1>6. CASE Owed(r)
  BY <1>1, <1>2, <1>4, <1>5, <1>6, ToldOrSettled
<1>7. CASE ~Owed(r)
  <2>1. r \notin file /\ r \in notifySeen
    BY <1>1, <1>7 DEF Owed
  <2>2. kept' = kept /\ ~Owed(r)' /\ ToldOf' = ToldOf
    BY <1>2, <1>3, <2>1 DEF Owed
  <2>3. OwedRuns' = OwedRuns
    BY <1>4, <1>7, <2>2 DEF OwedRuns
  <2> QED
    BY <1>1, <2>2, <2>3 DEF OutboxStep, OutboxSame
<1> QED
  BY <1>6, <1>7

LEMMA StepOutbox == Inv /\ [Next]_vars => [Promised!OutboxNext]_(Promised!outboxVars)
<1> SUFFICES ASSUME Inv, [Next]_vars PROVE OutboxStep
  BY DEF OutboxStep, OutboxSame, ToldOf, OwedRuns, Promised!outboxVars
<1>1. CASE \E r \in Run : WriteResult(r) \/ SendIntercom(r) \/ Forget(r)
  BY <1>1, WriteOutbox, SendOutbox, ForgetOutbox
<1>2. CASE \E r \in Run : DropDuplicate(r) \/ Announce(r)
  BY <1>2, DropOutbox, AnnounceOutbox
<1>3. CASE \E r \in Run, n \in 1..MaxLoads : Acknowledged(r, n)
  BY <1>3, AcknowledgedOutbox
<1>4. CASE Exit
  BY <1>4, ExitOutbox
<1>5. CASE Load \/ (\E s \in Session : SessionStart(s)) \/ Shutdown \/ WatcherFails \/ RestartWatcher \/ Poll
  <2>1. UNCHANGED <<written, kept, lost, notified, misdelivered, file, handling, notifySeen>>
    BY <1>5 DEF Load, SessionStart, Shutdown, WatcherFails, RestartWatcher, Poll
  <2> QED
    BY <2>1, QuietOutbox
<1>6. CASE (\E r \in Run : Ignore(r) \/ EnrichmentFails(r)) \/ UNCHANGED vars
  <2>1. UNCHANGED <<written, kept, lost, notified, misdelivered, file, handling, notifySeen>>
    BY <1>6 DEF Ignore, EnrichmentFails, vars
  <2> QED
    BY <2>1, QuietOutbox
<1> QED
  BY <1>1, <1>2, <1>3, <1>4, <1>5, <1>6 DEF Next, Handle

\* The delivery implements the outbox: whatever loads, sessions, watchers and handlers do,
\* an announcement settles what is owed, and what is owed is not dropped untold but by the
\* death of the host.
THEOREM DeliveryImplementsOutbox == Spec => ImplementsOutbox
<1>1. Spec => Promised!OutboxInit
  BY InitOutbox, PTL DEF Spec
<1>2. Spec => [][Promised!OutboxNext]_(Promised!outboxVars)
  BY InitInv, NextInv, StepOutbox, PTL DEF Spec
<1> QED
  BY <1>1, <1>2 DEF ImplementsOutbox, Promised!OutboxSpec

=============================================================================
